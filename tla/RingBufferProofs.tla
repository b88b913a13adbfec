-------------------------- MODULE RingBufferProofs --------------------------
(***************************************************************************)
(* Proofs about CRingBuffer for every size, item type and set of clients:  *)
(* the inductive invariant RingInv, and that the ring of slots and         *)
(* pointers under its lock implements the atomic queue of BoundedFifo.     *)
(***************************************************************************)
EXTENDS RingBuffer, SequenceTheorems, TLAPS

(* Pointer arithmetic: the only facts about % the rest needs. *)
LEMMA ModuloBelow ==
  ASSUME NEW i \in Nat, i < N
  PROVE  i % N = i
BY SizeAssumption, SMTT(30)

(* A sum of two places that wraps is reduced once. *)
LEMMA ModuloAbove ==
  ASSUME NEW i \in Nat, N <= i, i < 2 * N
  PROVE  i % N = i - N
BY SizeAssumption, SMTT(30)

(* Advance wraps at the last slot. *)
LEMMA AdvanceCases ==
  ASSUME NEW i \in Slot
  PROVE  /\ Advance(i) \in Slot
         /\ Advance(i) = IF i = N - 1 THEN 0 ELSE i + 1
BY ModuloBelow, ModuloAbove, SizeAssumption DEF Advance, Slot

(* The k-th queued item's slot, without the modulo. *)
LEMMA PlaceCases ==
  ASSUME NEW o \in Slot, NEW k \in 1..N
  PROVE  /\ Place(o, k) \in Slot
         /\ Place(o, k) = IF o + k - 1 < N THEN o + k - 1 ELSE o + k - 1 - N
BY ModuloBelow, ModuloAbove, SizeAssumption DEF Place, Slot

(* Between out and in lie fewer than N items; the slot after the newest is *)
(* the in pointer's, and no queued item is in it.                          *)
LEMMA DistanceFacts ==
  ASSUME NEW o \in Slot, NEW i \in Slot
  PROVE  /\ Distance(o, i) \in 0..(N - 1)
         /\ Place(o, Distance(o, i) + 1) = i
         /\ \A k \in 1..Distance(o, i) : Place(o, k) \in Slot \ {i}
         /\ Advance(i) = o <=> Distance(o, i) = N - 1
         /\ i = o <=> Distance(o, i) = 0
<1>1. Distance(o, i) \in 0..(N - 1)
  BY SizeAssumption DEF Distance, Slot
<1>2. Place(o, Distance(o, i) + 1) = i
  <2>1. Distance(o, i) + 1 \in 1..N
    BY <1>1, SizeAssumption
  <2>2. QED
    BY <2>1, PlaceCases, SizeAssumption DEF Distance, Slot
<1>3. ASSUME NEW k \in 1..Distance(o, i)
      PROVE  Place(o, k) \in Slot \ {i}
  <2>1. k \in 1..N
    BY <1>1, SizeAssumption
  <2>2. QED
    BY <1>3, <2>1, PlaceCases, SizeAssumption DEF Distance, Slot
<1>4. Advance(i) = o <=> Distance(o, i) = N - 1
  BY AdvanceCases, SizeAssumption DEF Distance, Slot
<1>5. i = o <=> Distance(o, i) = 0
  BY SizeAssumption DEF Distance, Slot
<1>6. QED
  BY <1>1, <1>2, <1>3, <1>4, <1>5

(* Advancing the in pointer of a buffer that is not full adds one item,    *)
(* advancing the out pointer of one that is not empty drops the oldest.    *)
LEMMA AdvanceIn ==
  ASSUME NEW o \in Slot, NEW i \in Slot, Advance(i) # o
  PROVE  Distance(o, Advance(i)) = Distance(o, i) + 1
BY AdvanceCases, SizeAssumption DEF Distance, Slot

(* Taking an item brings the pointers one closer. *)
LEMMA AdvanceOut ==
  ASSUME NEW o \in Slot, NEW i \in Slot, i # o
  PROVE  /\ Distance(Advance(o), i) = Distance(o, i) - 1
         /\ \A k \in 1..(Distance(o, i) - 1) : Place(Advance(o), k) = Place(o, k + 1)
         /\ Place(o, 1) = o
<1>1. Distance(Advance(o), i) = Distance(o, i) - 1
  BY AdvanceCases, SizeAssumption DEF Distance, Slot
<1>2. ASSUME NEW k \in 1..(Distance(o, i) - 1)
      PROVE  Place(Advance(o), k) = Place(o, k + 1)
  <2>1. k \in 1..N /\ k + 1 \in 1..N
    BY DistanceFacts, SizeAssumption
  <2>2. Advance(o) \in Slot /\ Advance(o) = IF o = N - 1 THEN 0 ELSE o + 1
    BY AdvanceCases
  <2>3. Place(Advance(o), k) = IF Advance(o) + k - 1 < N
                               THEN Advance(o) + k - 1 ELSE Advance(o) + k - 1 - N
    BY <2>1, <2>2, PlaceCases
  <2>4. Place(o, k + 1) = IF o + k < N THEN o + k ELSE o + k - N
    <3>1. o \in Int /\ k \in Int /\ N \in Int
      BY <2>1, SizeAssumption DEF Slot
    <3> DEFINE j == k + 1
               at == Place(o, j)
    <3>2. at = IF o + j - 1 < N THEN o + j - 1 ELSE o + j - 1 - N
      BY <2>1, PlaceCases
    <3> HIDE DEF at
    <3>3. at = IF o + k < N THEN o + k ELSE o + k - N
      BY <3>1, <3>2
    <3>4. QED
      BY <3>3 DEF at
  <2>5. QED
    BY <2>1, <2>2, <2>3, <2>4, SizeAssumption DEF Slot
<1>3. Place(o, 1) = o
  BY PlaceCases, SizeAssumption DEF Slot
<1>4. QED
  BY <1>1, <1>2, <1>3

----------------------------------------------------------------------------
(* How the three kinds of steps change the queue's contents. *)
LEMMA SameContents ==
  ASSUME UNCHANGED shared
  PROVE  Used' = Used /\ Contents' = Contents
BY DEF shared, Used, Contents, Distance

(* EnqueueOne appends its item to the contents. *)
LEMMA EnqueueOneContents ==
  ASSUME TypeOK, NEW p \in Producers, EnqueueOne(p)
  PROVE  /\ Used \in 0..(N - 2)
         /\ Used' = Used + 1
         /\ \A k \in 1..Used : Contents'[k] = Contents[k]
         /\ Contents'[Used + 1] = pItems[p][nEnqueued[p] + 1]
<1> DEFINE o == m_nOutPtr
           i == m_nInPtr
<1>1. o \in Slot /\ i \in Slot /\ o' = o /\ Advance(i) # o /\ i' = Advance(i)
  BY DEF TypeOK, EnqueueOne, Full
<1>2. Used \in 0..(N - 2)
  BY <1>1, DistanceFacts, SizeAssumption DEF Used
<1>3. Used' = Used + 1
  BY <1>1, AdvanceIn DEF Used
<1>4. ASSUME NEW k \in 1..Used
      PROVE  Contents'[k] = Contents[k]
  <2>1. Place(o, k) \in Slot \ {i}
    BY <1>1, DistanceFacts DEF Used
  <2>2. m_Data'[Place(o, k)] = m_Data[Place(o, k)]
    BY <2>1 DEF EnqueueOne, TypeOK
  <2>3. k \in 1..Used'
    BY <1>2, <1>3
  <2>4. QED
    BY <1>1, <2>2, <2>3 DEF Contents
<1>5. Contents'[Used + 1] = pItems[p][nEnqueued[p] + 1]
  <2>1. Place(o, Used + 1) = i
    BY <1>1, DistanceFacts DEF Used
  <2>2. m_Data'[i] = pItems[p][nEnqueued[p] + 1]
    BY <1>1 DEF EnqueueOne, TypeOK
  <2>3. Used + 1 \in 1..Used'
    BY <1>2, <1>3
  <2>4. QED
    BY <1>1, <2>1, <2>2, <2>3 DEF Contents
<1>6. QED
  BY <1>2, <1>3, <1>4, <1>5

(* A turn of the dequeue loop removes the oldest item. *)
LEMMA DequeueOneContents ==
  ASSUME TypeOK, NEW c \in Consumers, DequeueOne(c)
  PROVE  /\ Used \in 1..(N - 1)
         /\ Used' = Used - 1
         /\ \A k \in 1..(Used - 1) : Contents'[k] = Contents[k + 1]
         /\ Contents[1] = m_Data[m_nOutPtr]
<1> DEFINE o == m_nOutPtr
           i == m_nInPtr
<1>1. /\ o \in Slot /\ i \in Slot /\ i # o
      /\ o' = Advance(o) /\ i' = i /\ m_Data' = m_Data
  BY DEF TypeOK, DequeueOne, Empty
<1>2. Used \in 1..(N - 1)
  BY <1>1, DistanceFacts, SizeAssumption DEF Used
<1>3. Used' = Used - 1
  BY <1>1, AdvanceOut DEF Used
<1>4. ASSUME NEW k \in 1..(Used - 1)
      PROVE  Contents'[k] = Contents[k + 1]
  <2>1. Place(Advance(o), k) = Place(o, k + 1)
    BY <1>1, AdvanceOut DEF Used
  <2>2. k \in 1..Used' /\ k + 1 \in 1..Used
    BY <1>2, <1>3
  <2>3. QED
    BY <1>1, <2>1, <2>2 DEF Contents
<1>5. Contents[1] = m_Data[m_nOutPtr]
  <2>1. Place(o, 1) = o
    BY <1>1, AdvanceOut
  <2>2. 1 \in 1..Used
    BY <1>2
  <2>3. QED
    BY <2>1, <2>2 DEF Contents
<1>6. QED
  BY <1>2, <1>3, <1>4, <1>5

(* The number of items lies within the buffer. *)
LEMMA UsedType == TypeOK => Used \in 0..(N - 1)
BY DistanceFacts DEF TypeOK, Used

----------------------------------------------------------------------------
(* The inductive invariant.  TypeOK needs RingInv: that a consumer's buffer *)
(* holds items only is NoStaleSlot.                                         *)
LEMMA InitInv == Init => TypeOK /\ RingInv
<1> SUFFICES ASSUME Init PROVE TypeOK /\ RingInv
  OBVIOUS
<1>1. TypeOK
  BY SizeAssumption, BlockAssumption, ClientAssumption
     DEF Init, TypeOK, Slot, Client
<1>2. Used = 0
  BY SizeAssumption DEF Init, Used, Distance
<1>3. OneInside
  BY ClientAssumption DEF Init, OneInside, Client
<1>4. NoStaleSlot
  BY <1>2 DEF NoStaleSlot
<1>5. BlockAtEnd
  <2>1. <<>> \in [1..0 -> Item] /\ 0 \in 0..MaxBlock
    BY BlockAssumption
  <2>2. <<>> \in Block
    BY <2>1 DEF Block
  <2>3. QED
    BY <1>2, <2>2 DEF Init, BlockAtEnd
<1>6. TakenFits
  BY <1>2, SizeAssumption, BlockAssumption DEF Init, TakenFits
<1>7. QED
  BY <1>1, <1>3, <1>4, <1>5, <1>6 DEF RingInv

(* Calling Enqueue or Dequeue keeps the invariant. *)
LEMMA CallInv ==
  ASSUME TypeOK, RingInv,
         \/ \E p \in Producers, block \in Block : Enqueue(p, block)
         \/ \E c \in Consumers, max \in 0..MaxBlock : Dequeue(c, max)
  PROVE  TypeOK' /\ RingInv'
<1>1. ASSUME NEW p \in Producers, NEW block \in Block, Enqueue(p, block)
      PROVE  TypeOK' /\ RingInv'
  <2>1. Used' = Used /\ Contents' = Contents
    BY <1>1, SameContents DEF Enqueue
  <2>2. lock # p /\ nEnqueued[p] = 0
    BY <1>1 DEF Enqueue, RingInv, OneInside, BlockAtEnd, Client
  <2>3. block \in Seq(Item) /\ Len(block) \in Nat
    BY BlockAssumption DEF Block
  <2>4. TypeOK'
    BY <1>1, <2>3 DEF TypeOK, Enqueue, shared, consuming, Client
  <2>5. OneInside' /\ NoStaleSlot' /\ TakenFits'
    BY <1>1, <2>1 DEF RingInv, OneInside, NoStaleSlot, TakenFits, Enqueue,
                      TypeOK, Client, shared, consuming
  <2>6. BlockAtEnd'
    BY <1>1, <2>1, <2>2, <2>3, UsedType
       DEF RingInv, BlockAtEnd, Enqueue, TypeOK, shared
  <2>7. QED
    BY <2>4, <2>5, <2>6 DEF RingInv
<1>2. ASSUME NEW c \in Consumers, NEW max \in 0..MaxBlock, Dequeue(c, max)
      PROVE  TypeOK' /\ RingInv'
  <2>1. Used' = Used /\ Contents' = Contents
    BY <1>2, SameContents DEF Dequeue
  <2>2. lock # c /\ pOutBuffer[c] = <<>>
    BY <1>2 DEF Dequeue, RingInv, OneInside, TakenFits, Client
  <2>3. TypeOK'
    BY <1>2 DEF TypeOK, Dequeue, shared, producing, Client
  <2>4. OneInside' /\ NoStaleSlot' /\ BlockAtEnd'
    BY <1>2, <2>1 DEF RingInv, OneInside, NoStaleSlot, BlockAtEnd, Dequeue,
                      TypeOK, Client, shared, producing
  <2>5. TakenFits'
    BY <1>2, <2>1, <2>2, BlockAssumption
       DEF RingInv, TakenFits, Dequeue, TypeOK, shared
  <2>6. QED
    BY <2>3, <2>4, <2>5 DEF RingInv
<1>3. QED
  BY <1>1, <1>2

(* Taking the lock keeps the invariant. *)
LEMMA AcquireInv ==
  ASSUME TypeOK, RingInv, NEW x \in Client, Acquire(x)
  PROVE  TypeOK' /\ RingInv'
<1>1. Used' = Used /\ Contents' = Contents
  BY SameContents DEF Acquire
<1>2. TypeOK'
  BY DEF TypeOK, Acquire, shared, producing, consuming
<1>3. OneInside'
  BY ClientAssumption DEF RingInv, OneInside, Acquire, TypeOK, Client
<1>4. NoStaleSlot'
  BY <1>1 DEF RingInv, NoStaleSlot
<1>5. BlockAtEnd' /\ TakenFits'
  BY <1>1, ClientAssumption
     DEF RingInv, BlockAtEnd, TakenFits, Acquire, producing, consuming, Client
<1>6. QED
  BY <1>2, <1>3, <1>4, <1>5 DEF RingInv

(* Copying an item in keeps the invariant. *)
LEMMA EnqueueOneInv ==
  ASSUME TypeOK, RingInv, NEW p \in Producers, EnqueueOne(p)
  PROVE  TypeOK' /\ RingInv'
<1>1. lock = p /\ lock' = p /\ p \in Client
  BY DEF EnqueueOne, RingInv, OneInside, Client
<1>2. /\ pItems[p] \in Seq(Item)
      /\ nEnqueued[p] \in Nat
      /\ nEnqueued[p] + 1 \in 1..Len(pItems[p])
      /\ pItems[p][nEnqueued[p] + 1] \in Item
  BY DEF EnqueueOne, TypeOK
<1>3. TypeOK'
  BY <1>2, AdvanceCases DEF EnqueueOne, TypeOK, consuming
<1>4. OneInside'
  BY DEF EnqueueOne, RingInv, OneInside
<1>5. NoStaleSlot'
  BY <1>2, EnqueueOneContents DEF RingInv, NoStaleSlot
<1>6. BlockAtEnd'
  <2> SUFFICES ASSUME NEW q \in Producers
               PROVE  /\ pItems'[q] \in Block
                      /\ nEnqueued'[q] <= Len(pItems'[q])
                      /\ nEnqueued'[q] <= Used'
                      /\ lock' # q => nEnqueued'[q] = 0
                      /\ \A k \in 1..nEnqueued'[q] :
                           Contents'[Used' - nEnqueued'[q] + k] = pItems'[q][k]
    BY DEF BlockAtEnd
  <2>1. CASE q = p
    <3>1. nEnqueued'[p] = nEnqueued[p] + 1 /\ pItems' = pItems
      BY DEF EnqueueOne, TypeOK
    <3>2. ASSUME NEW k \in 1..nEnqueued'[p]
          PROVE  Contents'[Used' - nEnqueued'[p] + k] = pItems'[p][k]
      <4>1. Used' - nEnqueued'[p] + k = Used - nEnqueued[p] + k
        BY <1>2, <3>1, EnqueueOneContents
      <4>2. CASE k = nEnqueued[p] + 1
        <5>1. Used' - nEnqueued'[p] + k = Used + 1
          BY <1>2, <3>1, <4>2, EnqueueOneContents
        <5>2. QED
          BY <3>1, <4>2, <5>1, EnqueueOneContents
      <4>3. CASE k \in 1..nEnqueued[p]
        <5>1. Used - nEnqueued[p] + k \in 1..Used
          BY <1>2, <4>3, EnqueueOneContents DEF RingInv, BlockAtEnd
        <5>2. QED
          BY <3>1, <4>1, <4>3, <5>1, EnqueueOneContents DEF RingInv, BlockAtEnd
      <4>4. QED
        BY <1>2, <3>1, <4>2, <4>3
    <3>3. QED
      BY <1>1, <1>2, <2>1, <3>1, <3>2, EnqueueOneContents DEF RingInv, BlockAtEnd
  <2>2. CASE q # p
    <3>1. nEnqueued'[q] = nEnqueued[q] /\ pItems' = pItems /\ nEnqueued[q] = 0
      BY <1>1, <2>2 DEF EnqueueOne, TypeOK, RingInv, BlockAtEnd
    <3>2. QED
      BY <1>1, <2>2, <3>1, EnqueueOneContents DEF RingInv, BlockAtEnd, TypeOK
  <2>3. QED
    BY <2>1, <2>2
<1>7. TakenFits'
  <2>1. \A c \in Consumers : pOutBuffer[c] = <<>> /\ lock' # c
    BY <1>1, ClientAssumption DEF RingInv, TakenFits
  <2>2. Used' <= N - 1
    BY EnqueueOneContents, SizeAssumption
  <2>3. UNCHANGED consuming
    BY DEF EnqueueOne
  <2>4. QED
    BY <2>1, <2>2, <2>3, EnqueueOneContents, SizeAssumption
       DEF RingInv, TakenFits, consuming, TypeOK
<1>8. QED
  BY <1>3, <1>4, <1>5, <1>6, <1>7 DEF RingInv

(* Returning from Enqueue keeps the invariant. *)
LEMMA EnqueueReturnInv ==
  ASSUME TypeOK, RingInv, NEW p \in Producers, EnqueueReturn(p)
  PROVE  TypeOK' /\ RingInv'
<1>1. Used' = Used /\ Contents' = Contents
  BY SameContents DEF EnqueueReturn
<1>2. lock = p /\ lock' = Free /\ p \in Client
  BY DEF EnqueueReturn, RingInv, OneInside, Client
<1>3. <<>> \in Block /\ <<>> \in Seq(Item)
  <2>1. <<>> \in [1..0 -> Item] /\ 0 \in 0..MaxBlock
    BY BlockAssumption
  <2>2. QED
    BY <2>1 DEF Block
<1>4. TypeOK'
  BY <1>2, <1>3 DEF EnqueueReturn, TypeOK, shared, consuming, Client
<1>5. OneInside'
  BY <1>2, ClientAssumption
     DEF EnqueueReturn, RingInv, OneInside, TypeOK, Client
<1>6. NoStaleSlot'
  BY <1>1 DEF RingInv, NoStaleSlot
<1>7. BlockAtEnd'
  BY <1>1, <1>2, <1>3, UsedType DEF EnqueueReturn, RingInv, BlockAtEnd, TypeOK
<1>8. TakenFits'
  BY <1>1, <1>2, ClientAssumption
     DEF EnqueueReturn, RingInv, TakenFits, consuming, TypeOK
<1>9. QED
  BY <1>4, <1>5, <1>6, <1>7, <1>8 DEF RingInv

(* Copying an item out keeps the invariant. *)
LEMMA DequeueOneInv ==
  ASSUME TypeOK, RingInv, NEW c \in Consumers, DequeueOne(c)
  PROVE  TypeOK' /\ RingInv'
<1>1. lock = c /\ lock' = c /\ c \in Client
  BY DEF DequeueOne, RingInv, OneInside, Client
<1>2. m_Data[m_nOutPtr] \in Item
  BY DequeueOneContents DEF RingInv, NoStaleSlot
<1>3. TypeOK'
  BY <1>2, AdvanceCases DEF DequeueOne, TypeOK, producing
<1>4. OneInside'
  BY DEF DequeueOne, RingInv, OneInside
<1>5. NoStaleSlot'
  <2>1. \A k \in 1..Used' : k + 1 \in 1..Used /\ Contents'[k] = Contents[k + 1]
    BY DequeueOneContents
  <2>2. QED
    BY <2>1 DEF RingInv, NoStaleSlot
<1>6. BlockAtEnd'
  <2>1. \A p \in Producers : lock # p /\ lock' # p
    BY <1>1, ClientAssumption
  <2>2. pItems' = pItems /\ nEnqueued' = nEnqueued
    BY DEF DequeueOne, producing
  <2>3. Used' \in Nat
    BY DequeueOneContents
  <2>4. QED
    BY <2>1, <2>2, <2>3 DEF RingInv, BlockAtEnd, TypeOK
<1>7. TakenFits'
  <2>1. /\ pOutBuffer[c] \in Seq(Item) /\ Len(pOutBuffer[c]) < nMaxCount[c]
        /\ pOutBuffer' = [pOutBuffer EXCEPT ![c] = Append(@, m_Data[m_nOutPtr])]
        /\ nMaxCount' = nMaxCount /\ nMaxCount[c] \in Nat
    BY DEF DequeueOne, TypeOK
  <2>2. Len(pOutBuffer'[c]) = Len(pOutBuffer[c]) + 1
    BY <1>2, <2>1 DEF TypeOK
  <2>3. ASSUME NEW d \in Consumers, d # c
        PROVE  pOutBuffer'[d] = <<>>
    BY <1>1, <2>1, <2>3 DEF RingInv, TakenFits, TypeOK
  <2>4. Used \in 1..(N - 1) /\ Used' = Used - 1
    BY DequeueOneContents
  <2>5. ASSUME NEW d \in Consumers
        PROVE  /\ Len(pOutBuffer'[d]) <= nMaxCount'[d]
               /\ Len(pOutBuffer'[d]) + Used' <= N - 1
               /\ lock' # d => pOutBuffer'[d] = <<>>
    <3>1. CASE d = c
      BY <1>1, <2>1, <2>2, <2>4, <3>1, SizeAssumption DEF RingInv, TakenFits
    <3>2. CASE d # c
      BY <2>1, <2>3, <2>4, <3>2, SizeAssumption DEF TypeOK
    <3>3. QED
      BY <3>1, <3>2
  <2>6. QED
    BY <2>5 DEF TakenFits
<1>8. QED
  BY <1>3, <1>4, <1>5, <1>6, <1>7 DEF RingInv

(* Returning from Dequeue keeps the invariant. *)
LEMMA DequeueReturnInv ==
  ASSUME TypeOK, RingInv, NEW c \in Consumers, DequeueReturn(c)
  PROVE  TypeOK' /\ RingInv'
<1>1. Used' = Used /\ Contents' = Contents
  BY SameContents DEF DequeueReturn
<1>2. lock = c /\ lock' = Free /\ c \in Client
  BY DEF DequeueReturn, RingInv, OneInside, Client
<1>3. TypeOK'
  BY <1>2, BlockAssumption DEF DequeueReturn, TypeOK, shared, producing, Client
<1>4. OneInside'
  BY <1>2, ClientAssumption
     DEF DequeueReturn, RingInv, OneInside, TypeOK, Client
<1>5. NoStaleSlot'
  BY <1>1 DEF RingInv, NoStaleSlot
<1>6. BlockAtEnd'
  BY <1>1, <1>2, ClientAssumption
     DEF DequeueReturn, RingInv, BlockAtEnd, producing, TypeOK
<1>7. TakenFits'
  BY <1>1, <1>2, UsedType, BlockAssumption
     DEF DequeueReturn, RingInv, TakenFits, TypeOK
<1>8. QED
  BY <1>3, <1>4, <1>5, <1>6, <1>7 DEF RingInv

(* Every step of every client keeps the invariant. *)
LEMMA StepInv == TypeOK /\ RingInv /\ [Next]_vars => TypeOK' /\ RingInv'
<1> SUFFICES ASSUME TypeOK, RingInv, [Next]_vars PROVE TypeOK' /\ RingInv'
  OBVIOUS
<1>1. CASE \E p \in Producers : ProducerStep(p)
  BY <1>1, CallInv, AcquireInv, EnqueueOneInv, EnqueueReturnInv
     DEF ProducerStep, Client
<1>2. CASE \E c \in Consumers : ConsumerStep(c)
  BY <1>2, CallInv, AcquireInv, DequeueOneInv, DequeueReturnInv
     DEF ConsumerStep, Client
<1>3. CASE UNCHANGED vars
  <2>1. Used' = Used /\ Contents' = Contents
    BY <1>3, SameContents DEF vars
  <2>2. QED
    BY <1>3, <2>1 DEF vars, shared, producing, consuming, TypeOK, RingInv,
                      OneInside, NoStaleSlot, BlockAtEnd, TakenFits
<1>4. QED
  BY <1>1, <1>2, <1>3 DEF Next

(* In every state of every run the ring buffer is well typed ... *)
THEOREM TypeCorrect == Spec => []TypeOK
BY InitInv, StepInv, PTL DEF Spec

(* ... and RingInv holds: no slot of the zeroed array reaches a consumer,   *)
(* and the lock keeps the copying loops apart.                              *)
THEOREM RingInvariant == Spec => []RingInv
BY InitInv, StepInv, PTL DEF Spec

----------------------------------------------------------------------------
(* Refinement: the copying loops only stutter in BoundedFifo, and each      *)
(* call takes effect at once when it releases the lock.                     *)
LEMMA ContentsSeq ==
  ASSUME TypeOK, RingInv
  PROVE  /\ Contents \in Seq(Item) /\ Len(Contents) = Used
         /\ Used \in 0..(N - 1) /\ Used \in Nat
<1>1. Used \in 0..(N - 1)
  BY UsedType
<1>2. Used \in Nat
  BY <1>1
<1>3. Contents \in [1..Used -> Item]
  BY DEF RingInv, NoStaleSlot, Contents
<1>4. QED
  BY <1>1, <1>2, <1>3

(* A prefix of a sequence is a sequence of the same items. *)
LEMMA SubSeqPrefix ==
  ASSUME NEW S, NEW s \in Seq(S), NEW n \in 0..Len(s)
  PROVE  /\ SubSeq(s, 1, n) \in Seq(S)
         /\ Len(SubSeq(s, 1, n)) = n
         /\ \A k \in 1..n : SubSeq(s, 1, n)[k] = s[k]
<1>1. Len(s) \in Nat /\ n \in Int /\ 1 \in Int
  BY LenProperties
<1>2. \A k \in 1..n : s[k] \in S
  BY <1>1, ElementOfSeq
<1>3. QED
  BY <1>1, <1>2, SubSeqProperties

(* Moving the first item of s to the end of b leaves b \o s as it was. *)
LEMMA MoveHead ==
  ASSUME NEW S, NEW b \in Seq(S), NEW s \in Seq(S), NEW t \in Seq(S),
         Len(s) = Len(t) + 1, \A k \in 1..Len(t) : t[k] = s[k + 1]
  PROVE  Append(b, s[1]) \o t = b \o s
<1>1. Len(b) \in Nat /\ Len(t) \in Nat /\ s[1] \in S
  BY LenProperties, ElementOfSeq
<1> DEFINE c == Append(b, s[1])
<1>2. /\ c \in Seq(S) /\ Len(c) = Len(b) + 1 /\ c[Len(b) + 1] = s[1]
      /\ \A k \in 1..Len(b) : c[k] = b[k]
  BY <1>1
<1> HIDE DEF c
<1>3. /\ b \o s \in Seq(S) /\ Len(b \o s) = Len(b) + Len(s)
      /\ \A k \in 1..(Len(b) + Len(s)) :
           (b \o s)[k] = IF k <= Len(b) THEN b[k] ELSE s[k - Len(b)]
  BY ConcatProperties
<1>4. /\ c \o t \in Seq(S) /\ Len(c \o t) = Len(c) + Len(t)
      /\ \A k \in 1..(Len(c) + Len(t)) :
           (c \o t)[k] = IF k <= Len(c) THEN c[k] ELSE t[k - Len(c)]
  BY <1>2, ConcatProperties
<1>5. ASSUME NEW k \in 1..(Len(b) + Len(s))
      PROVE  (c \o t)[k] = (b \o s)[k]
  <2>1. CASE k <= Len(b)
    BY <1>1, <1>2, <1>3, <1>4, <2>1
  <2>2. CASE k = Len(b) + 1
    <3>1. (b \o s)[k] = s[1]
      BY <1>1, <1>3, <2>2, k - Len(b) = 1
    <3>2. (c \o t)[k] = c[k]
      BY <1>1, <1>2, <1>4, <2>2
    <3>3. QED
      BY <1>2, <2>2, <3>1, <3>2
  <2>3. CASE k > Len(b) + 1
    <3>1. k - Len(c) \in 1..Len(t) /\ k - Len(c) + 1 = k - Len(b)
      BY <1>1, <1>2, <2>3
    <3>2. (c \o t)[k] = t[k - Len(c)] /\ (b \o s)[k] = s[k - Len(b)]
      BY <1>1, <1>2, <1>3, <1>4, <2>3
    <3>3. QED
      BY <3>1, <3>2
  <2>4. k <= Len(b) \/ k = Len(b) + 1 \/ k > Len(b) + 1
    BY <1>1
  <2>5. QED
    BY <2>1, <2>2, <2>3, <2>4
<1>6. c \o t = b \o s
  <2>1. Len(c \o t) = Len(b \o s) /\ Len(c \o t) = Len(b) + Len(s)
    BY <1>1, <1>2, <1>3, <1>4
  <2>2. \A k \in 1..Len(c \o t) : (c \o t)[k] = (b \o s)[k]
    BY <2>1, <1>5
  <2>3. QED
    BY <1>3, <1>4, <2>1, <2>2, SeqEqual
<1>7. QED
  BY <1>6 DEF c

(* Taking the lock is invisible in the abstract queue. *)
LEMMA AcquireStutters ==
  ASSUME TypeOK, RingInv, NEW x \in Client, Acquire(x)
  PROVE  Committed' = Committed
<1>1. Used' = Used /\ Contents' = Contents
  BY SameContents DEF Acquire
<1>2. Committed = Contents
  BY ClientAssumption DEF Acquire, Committed
<1>3. CASE x \in Producers
  <2>1. nEnqueued'[x] = 0 /\ lock' = x
    BY <1>3, ClientAssumption
       DEF Acquire, producing, RingInv, BlockAtEnd
  <2>2. Used - 0 = Len(Contents)
    BY ContentsSeq
  <2>3. SubSeq(Contents, 1, Len(Contents)) = Contents
    BY ContentsSeq, SubSeqFull
  <2>4. QED
    BY <1>1, <1>2, <1>3, <2>1, <2>2, <2>3 DEF Committed
<1>4. CASE x \in Consumers
  <2>1. pOutBuffer'[x] = <<>> /\ lock' = x /\ x \notin Producers
    BY <1>4, ClientAssumption DEF Acquire, consuming, RingInv, TakenFits
  <2>2. <<>> \o Contents = Contents
    BY ContentsSeq, ConcatEmptySeq
  <2>3. QED
    BY <1>1, <1>2, <1>4, <2>1, <2>2 DEF Committed
<1>5. QED
  BY <1>3, <1>4 DEF Client

(* A half-copied block is invisible in the abstract queue. *)
LEMMA EnqueueOneStutters ==
  ASSUME TypeOK, RingInv, TypeOK', RingInv', NEW p \in Producers, EnqueueOne(p)
  PROVE  Committed' = Committed
<1>1. lock = p /\ lock' = p
  BY DEF EnqueueOne, RingInv, OneInside, Client
<1> DEFINE n == Used - nEnqueued[p]
<1>2. /\ nEnqueued[p] \in Nat /\ nEnqueued[p] <= Used
      /\ nEnqueued'[p] = nEnqueued[p] + 1
  BY DEF EnqueueOne, TypeOK, RingInv, BlockAtEnd
<1>3. n \in 0..Used /\ n \in 0..Used' /\ Used' - nEnqueued'[p] = n
  BY <1>2, EnqueueOneContents
<1>4. /\ Contents \in Seq(Item) /\ Len(Contents) = Used
      /\ Contents' \in Seq(Item) /\ Len(Contents') = Used'
  <2>1. Contents' \in Seq(Item) /\ Len(Contents') = Used'
    <3>1. Used' \in Nat
      BY EnqueueOneContents
    <3>2. Contents' \in [1..Used' -> Item]
      BY DEF RingInv, NoStaleSlot, Contents
    <3>3. QED
      BY <3>1, <3>2
  <2>2. QED
    BY <2>1, ContentsSeq
<1>5. SubSeq(Contents', 1, n) = SubSeq(Contents, 1, n)
  <2>1. \A k \in 1..n : Contents'[k] = Contents[k]
    BY <1>3, EnqueueOneContents
  <2>2. /\ SubSeq(Contents, 1, n) \in Seq(Item)
        /\ Len(SubSeq(Contents, 1, n)) = n
        /\ \A k \in 1..n : SubSeq(Contents, 1, n)[k] = Contents[k]
    BY <1>3, <1>4, SubSeqPrefix
  <2>3. /\ SubSeq(Contents', 1, n) \in Seq(Item)
        /\ Len(SubSeq(Contents', 1, n)) = n
        /\ \A k \in 1..n : SubSeq(Contents', 1, n)[k] = Contents'[k]
    BY <1>3, <1>4, SubSeqPrefix
  <2>4. QED
    BY <2>1, <2>2, <2>3, SeqEqual
<1>6. QED
  BY <1>1, <1>3, <1>5 DEF Committed

(* A half-taken block is still in the abstract queue. *)
LEMMA DequeueOneStutters ==
  ASSUME TypeOK, RingInv, TypeOK', RingInv', NEW c \in Consumers, DequeueOne(c)
  PROVE  Committed' = Committed
<1>1. lock = c /\ lock' = c /\ c \notin Producers
  BY ClientAssumption DEF DequeueOne, RingInv, OneInside, Client
<1>2. /\ pOutBuffer[c] \in Seq(Item)
      /\ pOutBuffer'[c] = Append(pOutBuffer[c], m_Data[m_nOutPtr])
  BY DEF DequeueOne, TypeOK
<1>3. /\ Contents \in Seq(Item) /\ Len(Contents) = Used
      /\ Contents' \in Seq(Item) /\ Len(Contents') = Used - 1
  <2>1. Used' \in Nat /\ Used' = Used - 1
    BY DequeueOneContents
  <2>2. Contents' \in [1..Used' -> Item]
    BY DEF RingInv, NoStaleSlot, Contents
  <2>3. QED
    BY <2>1, <2>2, ContentsSeq
<1>4. \A k \in 1..Len(Contents') : Contents'[k] = Contents[k + 1]
  BY <1>3, DequeueOneContents
<1>5. Len(Contents) = Len(Contents') + 1
  BY <1>3, DequeueOneContents
<1>6. Append(pOutBuffer[c], Contents[1]) \o Contents' = pOutBuffer[c] \o Contents
  BY <1>2, <1>3, <1>4, <1>5, MoveHead
<1>7. QED
  BY <1>1, <1>2, <1>6, DequeueOneContents DEF Committed

(* Returning from Enqueue is the atomic Enqueue. *)
LEMMA EnqueueReturnRefines ==
  ASSUME TypeOK, RingInv, NEW p \in Producers, EnqueueReturn(p)
  PROVE  Fifo!Enqueue(p, pItems[p]) /\ pItems[p] \in Fifo!Block
<1> DEFINE n == nEnqueued[p]
           m == Used - n
           k == Fifo!Lesser(Len(pItems[p]), (N - 1) - Len(Committed))
<1>1. /\ lock = p /\ lock' = Free /\ lock' \notin Client
      /\ n \in Nat /\ n <= Used /\ n <= Len(pItems[p])
      /\ pItems[p] \in Seq(Item) /\ Len(pItems[p]) \in Nat
      /\ pItems[p] \in Block
      /\ n = Len(pItems[p]) \/ Full
  BY ClientAssumption
     DEF EnqueueReturn, TypeOK, RingInv, OneInside, BlockAtEnd, Client
<1>2. /\ Contents \in Seq(Item) /\ Len(Contents) = Used
      /\ Used \in 0..(N - 1) /\ m \in 0..Used
  BY <1>1, ContentsSeq
<1>3. Contents' = Contents
  BY SameContents DEF EnqueueReturn
<1>4. Committed = SubSeq(Contents, 1, m) /\ Committed' = Contents
  BY <1>1, <1>3 DEF Committed, Client
<1>5. /\ Committed \in Seq(Item) /\ Len(Committed) = m
      /\ \A j \in 1..m : Committed[j] = Contents[j]
  BY <1>2, <1>4, SubSeqPrefix
<1>6. k = n
  <2>1. Full => Used = N - 1
    BY DistanceFacts DEF Full, Used, TypeOK
  <2>2. (N - 1) - Len(Committed) = (N - 1) - Used + n
    BY <1>1, <1>2, <1>5, SizeAssumption
  <2>3. QED
    BY <1>1, <1>2, <2>1, <2>2, SizeAssumption DEF Fifo!Lesser
<1>7. Contents = Committed \o SubSeq(pItems[p], 1, n)
  <2>1. n \in 0..Len(pItems[p])
    BY <1>1
  <2>2. /\ SubSeq(pItems[p], 1, n) \in Seq(Item)
        /\ Len(SubSeq(pItems[p], 1, n)) = n
        /\ \A j \in 1..n : SubSeq(pItems[p], 1, n)[j] = pItems[p][j]
    BY <1>1, <2>1, SubSeqPrefix
  <2>3. /\ Committed \o SubSeq(pItems[p], 1, n) \in Seq(Item)
        /\ Len(Committed \o SubSeq(pItems[p], 1, n)) = m + n
        /\ \A j \in 1..(m + n) :
             (Committed \o SubSeq(pItems[p], 1, n))[j] =
               IF j <= m THEN Committed[j] ELSE SubSeq(pItems[p], 1, n)[j - m]
    BY <1>5, <2>2, ConcatProperties
  <2>4. m + n = Used
    BY <1>1, <1>2
  <2>5. ASSUME NEW j \in 1..Used
        PROVE  (Committed \o SubSeq(pItems[p], 1, n))[j] = Contents[j]
    <3>1. CASE j <= m
      BY <1>2, <1>5, <2>3, <2>4, <3>1
    <3>2. CASE j > m
      <4>0. m \in Nat /\ n \in Nat /\ j \in Nat /\ j <= m + n
        BY <1>1, <1>2, <2>4
      <4>1. j - m \in 1..n /\ m + (j - m) = j
        <5> HIDE DEF m, n
        <5> QED
          BY <4>0, <3>2
      <4>2. Contents[m + (j - m)] = pItems[p][j - m]
        BY <4>1 DEF RingInv, BlockAtEnd
      <4>3. QED
        BY <2>2, <2>3, <2>4, <3>2, <4>1, <4>2
    <3>3. j <= m \/ j > m
      BY <1>2
    <3>4. QED
      BY <3>1, <3>2, <3>3
  <2>6. QED
    BY <1>2, <2>3, <2>4, <2>5, SeqEqual
<1>8. Committed' = Committed \o SubSeq(pItems[p], 1, k)
  BY <1>4, <1>6, <1>7
<1>9. returned' = [by |-> {p}, count |-> k, items |-> <<>>]
  BY <1>6 DEF EnqueueReturn
<1>10. QED
  BY <1>1, <1>8, <1>9 DEF Fifo!Enqueue, Fifo!Block, Block

(* Returning from Dequeue is the atomic Dequeue. *)
LEMMA DequeueReturnRefines ==
  ASSUME TypeOK, RingInv, NEW c \in Consumers, DequeueReturn(c)
  PROVE  Fifo!Dequeue(c, nMaxCount[c]) /\ nMaxCount[c] \in 0..MaxBlock
<1> DEFINE k == Fifo!Lesser(nMaxCount[c], Len(Committed))
<1>1. /\ lock = c /\ c \notin Producers /\ lock' = Free /\ lock' \notin Client
      /\ pOutBuffer[c] \in Seq(Item) /\ Len(pOutBuffer[c]) \in Nat
      /\ nMaxCount[c] \in 0..MaxBlock
      /\ Len(pOutBuffer[c]) <= nMaxCount[c]
      /\ Empty \/ Len(pOutBuffer[c]) = nMaxCount[c]
  BY ClientAssumption
     DEF DequeueReturn, TypeOK, RingInv, OneInside, TakenFits, Client
<1>2. Contents \in Seq(Item) /\ Len(Contents) = Used /\ Used \in Nat
  BY ContentsSeq
<1>3. Contents' = Contents
  BY SameContents DEF DequeueReturn
<1>4. Committed = pOutBuffer[c] \o Contents /\ Committed' = Contents
  BY <1>1, <1>3 DEF Committed, Client
<1>5. /\ Committed \in Seq(Item)
      /\ Len(Committed) = Len(pOutBuffer[c]) + Used
      /\ \A j \in 1..(Len(pOutBuffer[c]) + Used) :
           Committed[j] = IF j <= Len(pOutBuffer[c]) THEN pOutBuffer[c][j]
                          ELSE Contents[j - Len(pOutBuffer[c])]
  BY <1>1, <1>2, <1>4, ConcatProperties
<1>6. k = Len(pOutBuffer[c])
  <2>1. Empty => Used = 0
    BY DistanceFacts DEF Empty, Used, TypeOK
  <2>2. QED
    BY <1>1, <1>2, <1>5, <2>1, BlockAssumption DEF Fifo!Lesser
<1>7. SubSeq(Committed, 1, k) = pOutBuffer[c]
  <2>1. k \in 0..Len(Committed)
    BY <1>1, <1>2, <1>5, <1>6
  <2>2. /\ SubSeq(Committed, 1, k) \in Seq(Item)
        /\ Len(SubSeq(Committed, 1, k)) = k
        /\ \A j \in 1..k : SubSeq(Committed, 1, k)[j] = Committed[j]
    BY <1>5, <2>1, SubSeqPrefix
  <2>3. \A j \in 1..k : Committed[j] = pOutBuffer[c][j]
    BY <1>1, <1>2, <1>5, <1>6
  <2>4. QED
    BY <1>1, <1>6, <2>2, <2>3, SeqEqual
<1>8. SubSeq(Committed, k + 1, Len(Committed)) = Contents
  <2>1. k + 1 \in Int /\ Len(Committed) \in Int
    BY <1>1, <1>2, <1>5, <1>6
  <2>2. \A j \in (k + 1)..Len(Committed) : Committed[j] \in Item
    BY <1>1, <1>5, <1>6, ElementOfSeq, <1>2
  <2>3. /\ SubSeq(Committed, k + 1, Len(Committed)) \in Seq(Item)
        /\ Len(SubSeq(Committed, k + 1, Len(Committed))) = Used
        /\ \A j \in 1..Used :
             SubSeq(Committed, k + 1, Len(Committed))[j] = Committed[k + j]
    <3>1. /\ SubSeq(Committed, k + 1, Len(Committed)) \in Seq(Item)
          /\ Len(SubSeq(Committed, k + 1, Len(Committed))) =
               IF k + 1 <= Len(Committed) THEN Len(Committed) - (k + 1) + 1 ELSE 0
          /\ \A j \in 1..(Len(Committed) - (k + 1) + 1) :
               SubSeq(Committed, k + 1, Len(Committed))[j] = Committed[k + 1 + j - 1]
      BY <2>1, <2>2, SubSeqProperties
    <3>2. /\ Len(Committed) - (k + 1) + 1 = Used
          /\ \A j \in 1..Used : k + 1 + j - 1 = k + j
      BY <1>1, <1>2, <1>5, <1>6
    <3>3. k + 1 > Len(Committed) => Used = 0
      BY <1>1, <1>2, <1>5, <1>6
    <3>4. QED
      BY <2>1, <3>1, <3>2, <3>3
  <2>4. \A j \in 1..Used : Committed[k + j] = Contents[j]
    <3> TAKE j \in 1..Used
    <3>1. /\ k + j \in 1..(Len(pOutBuffer[c]) + Used)
          /\ ~(k + j <= Len(pOutBuffer[c]))
          /\ (k + j) - Len(pOutBuffer[c]) = j
      BY <1>1, <1>2, <1>6
    <3>2. QED
      BY <1>5, <3>1
  <2>5. QED
    BY <1>2, <2>3, <2>4, SeqEqual
<1>9. QED
  <2>1. returned' = [by |-> {c}, count |-> k, items |-> SubSeq(Committed, 1, k)]
    BY <1>6, <1>7 DEF DequeueReturn
  <2>2. Committed' = SubSeq(Committed, k + 1, Len(Committed))
    BY <1>4, <1>8
  <2>3. QED
    BY <1>1, <2>1, <2>2 DEF Fifo!Dequeue

(* CRingBuffer implements the bounded FIFO with atomic block calls: for    *)
(* every power-of-two size, every item type and every set of callers.      *)
THEOREM Refinement == Spec => FifoSpec
<1>1. Init => Fifo!Init
  <2> SUFFICES ASSUME Init PROVE Fifo!Init
    OBVIOUS
  <2>1. Used = 0
    BY SizeAssumption DEF Init, Used, Distance
  <2>2. Contents = <<>>
    BY <2>1 DEF Contents
  <2>3. Committed = <<>>
    BY <2>2, ClientAssumption DEF Init, Committed
  <2>4. QED
    BY <2>3 DEF Init, Fifo!Init
<1>2. TypeOK /\ RingInv /\ TypeOK' /\ RingInv' /\ [Next]_vars
        => [Fifo!Next]_(Fifo!vars)
  <2> SUFFICES ASSUME TypeOK, RingInv, TypeOK', RingInv', [Next]_vars
               PROVE  Fifo!Next \/ UNCHANGED Fifo!vars
    OBVIOUS
  <2>1. ASSUME NEW p \in Producers, NEW block \in Block, Enqueue(p, block)
        PROVE  UNCHANGED Fifo!vars
    <3>1. Used' = Used /\ Contents' = Contents
      BY <2>1, SameContents DEF Enqueue
    <3>2. Committed' = Committed
      BY <2>1, <3>1 DEF Enqueue, consuming, Committed
    <3>3. QED
      BY <2>1, <3>2 DEF Enqueue, Fifo!vars
  <2>2. ASSUME NEW c \in Consumers, NEW max \in 0..MaxBlock, Dequeue(c, max)
        PROVE  UNCHANGED Fifo!vars
    <3>1. Used' = Used /\ Contents' = Contents
      BY <2>2, SameContents DEF Dequeue
    <3>2. Committed' = Committed
      BY <2>2, <3>1 DEF Dequeue, producing, Committed
    <3>3. QED
      BY <2>2, <3>2 DEF Dequeue, Fifo!vars
  <2>3. ASSUME NEW x \in Client, Acquire(x)
        PROVE  UNCHANGED Fifo!vars
    BY <2>3, AcquireStutters DEF Acquire, Fifo!vars
  <2>4. ASSUME NEW p \in Producers, EnqueueOne(p)
        PROVE  UNCHANGED Fifo!vars
    BY <2>4, EnqueueOneStutters DEF EnqueueOne, Fifo!vars
  <2>5. ASSUME NEW c \in Consumers, DequeueOne(c)
        PROVE  UNCHANGED Fifo!vars
    BY <2>5, DequeueOneStutters DEF DequeueOne, Fifo!vars
  <2>6. ASSUME NEW p \in Producers, EnqueueReturn(p)
        PROVE  Fifo!Next
    BY <2>6, EnqueueReturnRefines DEF Fifo!Next
  <2>7. ASSUME NEW c \in Consumers, DequeueReturn(c)
        PROVE  Fifo!Next
    BY <2>7, DequeueReturnRefines DEF Fifo!Next
  <2>8. CASE UNCHANGED vars
    <3>1. Used' = Used /\ Contents' = Contents
      BY <2>8, SameContents DEF vars
    <3>2. Committed' = Committed
      BY <2>8, <3>1 DEF vars, producing, consuming, Committed
    <3>3. QED
      BY <2>8, <3>2 DEF vars, Fifo!vars
  <2>9. QED
    BY <2>1, <2>2, <2>3, <2>4, <2>5, <2>6, <2>7, <2>8
       DEF Next, ProducerStep, ConsumerStep, Client
<1>3. QED
  BY <1>1, <1>2, TypeCorrect, RingInvariant, PTL DEF Spec, FifoSpec, Fifo!Spec
=============================================================================
