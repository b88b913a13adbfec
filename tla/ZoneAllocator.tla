--------------------------- MODULE ZoneAllocator ---------------------------
(***************************************************************************)
(* CZoneAllocator (src/zoneallocator.cpp), the heap FluidSynth lives in: a *)
(* circular doubly linked list of blocks, each with its header in front,   *)
(* searched next-fit from m_pCurrentBlock.  Addresses and sizes are in     *)
(* units of 16 bytes, what callers ask for is in bytes.  Alloc's search    *)
(* and FreeTag's walk take a step for each turn of their loops.            *)
(***************************************************************************)
EXTENDS Integers, FiniteSets

CONSTANTS HeapSize,             \* m_nHeapSize
          Requests,             \* sizes callers ask for, in bytes
          Free, Uncategorized, FluidSynth    \* TZoneTag

ASSUME HeapAssumption == HeapSize \in Nat /\ HeapSize >= 3
(* Requests of 0 are refused at once; none is so large that it wraps round *)
(* with its overhead.                                                      *)
ASSUME RequestAssumption == Requests \subseteq Nat \ {0}
ASSUME TagAssumption == Free \notin {Uncategorized, FluidSynth}

VARIABLES
  heap,               \* the headers of the blocks in the list, by address
  m_pCurrentBlock, m_nAllocCount,
  pc,
  call,               \* arguments of the call in progress
  pNextBlock, pCandidateBlock,    \* of Alloc's search
  pBlock,             \* of FreeTag's walk
  lost,               \* history: units no block accounts for
  smashed             \* history: a header was written over what follows

search == <<pNextBlock, pCandidateBlock>>
vars == <<heap, m_pCurrentBlock, m_nAllocCount, pc, call, search, pBlock,
          lost, smashed>>

Tags == {Uncategorized, FluidSynth}
Main == -1            \* m_MainBlock, which is not in the heap
Nil == -2
Header == 2           \* sizeof(TBlock)
MinFragmentSize == 1

Block == [nSize : Nat, pNext : Int, pPrevious : Int, Tag : Tags \cup {Free}]
NoCall == [nSize |-> 0, Tag |-> Free, pPtr |-> Nil]

TypeOK ==
  /\ heap \in [DOMAIN heap -> Block]
  /\ DOMAIN heap \subseteq {Main} \cup 0..HeapSize
  /\ m_pCurrentBlock \in DOMAIN heap
  /\ m_nAllocCount \in Nat
  /\ pc \in {"idle", "alloc", "found", "realloc", "freeTag"}
  /\ call \in [nSize : Requests \cup {0}, Tag : Tags \cup {Free}, pPtr : Int]
  /\ pNextBlock \in Int /\ pCandidateBlock \in Int /\ pBlock \in Int
  /\ lost \in Nat
  /\ smashed \in BOOLEAN

(* Clear: one free block, and the main block as the end of the list. *)
Clear == [b \in {Main, 0} |->
            IF b = Main
            THEN [nSize |-> 0, pNext |-> 0, pPrevious |-> 0,
                  Tag |-> Uncategorized]
            ELSE [nSize |-> HeapSize, pNext |-> Main, pPrevious |-> Main,
                  Tag |-> Free]]

Init ==
  /\ heap = Clear
  /\ m_pCurrentBlock = 0 /\ m_nAllocCount = 0
  /\ pc = "idle" /\ call = NoCall
  /\ pNextBlock = Nil /\ pCandidateBlock = Nil /\ pBlock = Nil
  /\ lost = 0 /\ smashed = FALSE

(* Header and end magic are added, and the sum is rounded up. *)
Padded(nSize) == (nSize + 32 + 4 + 15) \div 16

IsFree(h, b) == h[b].Tag = Free
InUse == {b \in DOMAIN heap \ {Main} : ~IsFree(heap, b)}

----------------------------------------------------------------------------
(* Operations on the list. *)

(* Block b keeps n units; a free block of the given size comes after it,   *)
(* before next.  The block in between, if any, is gone.                    *)
Followed(h, b, n, size, next) ==
  LET new == b + n
      gone == IF next = h[b].pNext THEN {} ELSE {h[b].pNext}
  IN  [x \in (DOMAIN h \ gone) \cup {new} |->
         IF x = new THEN [nSize |-> size, pNext |-> next, pPrevious |-> b,
                          Tag |-> Free]
         ELSE IF x = b THEN [h[b] EXCEPT !.nSize = n, !.pNext = new]
         ELSE IF x = next THEN [h[x] EXCEPT !.pPrevious = new]
         ELSE h[x]]

(* Seeded fault: the size is not passed on. *)
Joined_KeepsSize(h, a) ==
  LET b == h[a].pNext
      next == h[b].pNext
  IN  [x \in DOMAIN h \ {b} |->
         IF x = a THEN [h[a] EXCEPT !.pNext = next]
         ELSE IF x = next THEN [h[x] EXCEPT !.pPrevious = a]
         ELSE h[x]]

(* Block a takes in the block after it. *)
Joined(h, a) ==
  LET b == h[a].pNext
      next == h[b].pNext
  IN  [x \in DOMAIN h \ {b} |->
         IF x = a THEN [h[a] EXCEPT !.nSize = @ + h[b].nSize, !.pNext = next]
         ELSE IF x = next THEN [h[x] EXCEPT !.pPrevious = a]
         ELSE h[x]]

Tagged(h, b, tag) == [h EXCEPT ![b].Tag = tag]

(* Where the free block that b ends up in begins. *)
FreeFrom(h, b) == IF IsFree(h, h[b].pPrevious) THEN h[b].pPrevious ELSE b

JoinedNext(h, a) == IF IsFree(h, h[a].pNext) THEN Joined(h, a) ELSE h

JoinedPrevious(h, b) ==
  IF IsFree(h, h[b].pPrevious) THEN Joined(h, h[b].pPrevious) ELSE h

Freed_NoCoalescing(h, b) == Tagged(h, b, Free)   \* seeded fault

Freed(h, b) ==
  JoinedNext(JoinedPrevious(Tagged(h, b, Free), b), FreeFrom(h, b))

(* A current block that was joined to another gives way to that one. *)
CurrentFreed(h, b, current) ==
  IF current \in DOMAIN Freed(h, b) THEN current ELSE FreeFrom(h, b)

----------------------------------------------------------------------------
(* Alloc. *)

Call(to, nSize, tag, p) ==
  /\ pc = "idle" /\ ~smashed
  /\ pc' = to
  /\ call' = [nSize |-> nSize, Tag |-> tag, pPtr |-> p]

Return == pc' = "idle" /\ call' = NoCall

StartSearch ==
  pNextBlock' = m_pCurrentBlock /\ pCandidateBlock' = m_pCurrentBlock
EndSearch == pNextBlock' = Nil /\ pCandidateBlock' = Nil

Alloc ==
  /\ \E nSize \in Requests, tag \in Tags : Call("alloc", nSize, tag, Nil)
  /\ StartSearch
  /\ UNCHANGED <<heap, m_pCurrentBlock, m_nAllocCount, pBlock, lost, smashed>>

pStartBlock == heap[m_pCurrentBlock].pPrevious

(* Seeded faults: the size is not looked at; the search gives up a block    *)
(* too soon.                                                               *)
Candidate_IgnoresSize(b) == IsFree(heap, b)
SearchFails_Early ==
  /\ pc = "alloc" /\ heap[pNextBlock].pNext = pStartBlock
  /\ Return /\ EndSearch
  /\ UNCHANGED <<heap, m_pCurrentBlock, m_nAllocCount, pBlock, lost, smashed>>

Candidate(b) == IsFree(heap, b) /\ heap[b].nSize >= Padded(call.nSize)

(* The whole list has been looked at. *)
SearchFails ==
  /\ pc = "alloc" /\ pNextBlock = pStartBlock
  /\ Return /\ EndSearch
  /\ UNCHANGED <<heap, m_pCurrentBlock, m_nAllocCount, pBlock, lost, smashed>>

SearchTurn ==
  /\ pc = "alloc" /\ pNextBlock # pStartBlock
  /\ pNextBlock' = heap[pNextBlock].pNext
  /\ pCandidateBlock' = IF IsFree(heap, pNextBlock) THEN pCandidateBlock
                                                    ELSE pNextBlock'
  /\ pc' = IF Candidate(pCandidateBlock') THEN "found" ELSE "alloc"
  /\ UNCHANGED <<heap, m_pCurrentBlock, m_nAllocCount, call, pBlock, lost,
                 smashed>>

(* The candidate with what is left of it split off, unless that is little. *)
Taken(b, n) ==
  LET nRemaining == heap[b].nSize - n
  IN  Tagged(IF nRemaining > MinFragmentSize
             THEN Followed(heap, b, n, nRemaining, heap[b].pNext)
             ELSE heap,
             b, call.Tag)

(* Alloc's block is taken; a Realloc that called it copies and frees.      *)
AllocTakes ==
  /\ pc = "found"
  /\ LET h == Taken(pCandidateBlock, Padded(call.nSize))
         current == h[pCandidateBlock].pNext
     IN  IF call.pPtr = Nil
         THEN /\ heap' = h /\ m_pCurrentBlock' = current
              /\ m_nAllocCount' = m_nAllocCount + 1
         ELSE /\ heap' = Freed(h, call.pPtr)
              /\ m_pCurrentBlock' = CurrentFreed(h, call.pPtr, current)
              /\ UNCHANGED m_nAllocCount
  /\ Return /\ EndSearch
  /\ UNCHANGED <<pBlock, lost, smashed>>

----------------------------------------------------------------------------
(* Realloc of a block in use. *)

Realloc ==
  /\ \E nSize \in Requests, tag \in Tags, p \in InUse :
       Call("realloc", nSize, tag, p)
  /\ UNCHANGED <<heap, m_pCurrentBlock, m_nAllocCount, search, pBlock, lost,
                 smashed>>

CanGrow(b, n) ==
  /\ IsFree(heap, heap[b].pNext)
  /\ heap[heap[b].pNext].nSize >= n - heap[b].nSize

(* The free block after b begins elsewhere now, or there is one now. *)
CurrentMoved(b, new) ==
  IF heap[b].pNext = m_pCurrentBlock THEN new ELSE m_pCurrentBlock

(* Expand in place: what is left of the next block follows.  Nothing makes *)
(* sure that a header fits into it.                                        *)
ReallocGrows ==
  LET b == call.pPtr
      n == Padded(call.nSize)
      next == heap[b].pNext
      rest == heap[next].nSize - (n - heap[b].nSize)
  IN  /\ pc = "realloc" /\ n > heap[b].nSize /\ CanGrow(b, n)
      /\ heap' = Tagged(Followed(heap, b, n, rest, heap[next].pNext),
                        b, call.Tag)
      /\ m_pCurrentBlock' = CurrentMoved(b, b + n)
      /\ smashed' = (rest < Header)
      /\ Return
      /\ UNCHANGED <<m_nAllocCount, search, pBlock, lost>>

ReallocMoves ==
  /\ pc = "realloc"
  /\ Padded(call.nSize) > heap[call.pPtr].nSize
  /\ ~CanGrow(call.pPtr, Padded(call.nSize))
  /\ pc' = "alloc" /\ StartSearch
  /\ UNCHANGED <<heap, m_pCurrentBlock, m_nAllocCount, call, pBlock, lost,
                 smashed>>

(* Shrink in place: the remainder joins the next block if that is free. *)
ReallocShrinks ==
  LET b == call.pPtr
      n == Padded(call.nSize)
      nRemain == heap[b].nSize - n
      next == heap[b].pNext
  IN  /\ pc = "realloc" /\ nRemain > MinFragmentSize
      /\ heap' = Tagged(IF IsFree(heap, next)
                        THEN Followed(heap, b, n, heap[next].nSize + nRemain,
                                      heap[next].pNext)
                        ELSE Followed(heap, b, n, nRemain, next),
                        b, call.Tag)
      /\ m_pCurrentBlock' = CurrentMoved(b, b + n)
      /\ Return
      /\ UNCHANGED <<m_nAllocCount, search, pBlock, lost, smashed>>

(* The same size, or a remainder too small for a block, which is lost. *)
ReallocKeeps ==
  LET b == call.pPtr
      nRemain == heap[b].nSize - Padded(call.nSize)
  IN  /\ pc = "realloc" /\ nRemain \in 0..MinFragmentSize
      /\ heap' = [heap EXCEPT ![b].Tag = call.Tag, ![b].nSize = @ - nRemain]
      /\ lost' = lost + nRemain
      /\ Return
      /\ UNCHANGED <<m_pCurrentBlock, m_nAllocCount, search, pBlock, smashed>>

----------------------------------------------------------------------------
(* Free and FreeTag. *)

FreeBlock(b) ==
  /\ heap' = Freed(heap, b)
  /\ m_pCurrentBlock' = CurrentFreed(heap, b, m_pCurrentBlock)
  /\ m_nAllocCount' = m_nAllocCount - 1

FreePtr ==
  /\ pc = "idle" /\ ~smashed
  /\ \E b \in InUse : FreeBlock(b)
  /\ UNCHANGED <<pc, call, search, pBlock, lost, smashed>>

FreeTag ==
  /\ \E tag \in Tags : Call("freeTag", 0, tag, Nil)
  /\ pBlock' = heap[Main].pNext
  /\ UNCHANGED <<heap, m_pCurrentBlock, m_nAllocCount, search, lost, smashed>>

(* The next block is read before this one is freed; if freeing took it in, *)
(* its header is still there: it is free, and leads on.                    *)
FreeTagTurn ==
  /\ pc = "freeTag"
  /\ IF heap[pBlock].Tag = call.Tag
     THEN FreeBlock(pBlock)
     ELSE UNCHANGED <<heap, m_pCurrentBlock, m_nAllocCount>>
  /\ LET next == heap[pBlock].pNext
         to == IF next \in DOMAIN heap' THEN next ELSE heap[next].pNext
     IN  IF to = Main THEN Return /\ pBlock' = Nil
                      ELSE pBlock' = to /\ UNCHANGED <<pc, call>>
  /\ UNCHANGED <<search, lost, smashed>>

Next == \/ Alloc \/ SearchFails \/ SearchTurn \/ AllocTakes
        \/ Realloc \/ ReallocGrows \/ ReallocMoves \/ ReallocShrinks
        \/ ReallocKeeps \/ FreePtr \/ FreeTag \/ FreeTagTurn

Spec == Init /\ [][Next]_vars

----------------------------------------------------------------------------
(* Where the memory of block b may reach to. *)
Limit(h, b) == IF h[b].pNext = Main THEN HeapSize ELSE h[b].pNext

Linked(h) ==
  /\ {Main, 0} \subseteq DOMAIN h
  /\ h[Main].pNext = 0 /\ h[0].pPrevious = Main /\ ~IsFree(h, Main)
  /\ \A b \in DOMAIN h : /\ h[b].pNext \in DOMAIN h
                         /\ h[b].pPrevious \in DOMAIN h
                         /\ h[h[b].pNext].pPrevious = b
                         /\ h[h[b].pPrevious].pNext = b

(* Blocks come in the order of their addresses, apart from each other, and *)
(* with room for a header, and an end magic if in use.                     *)
Ordered(h) ==
  \A b \in DOMAIN h \ {Main} :
    /\ b \in 0..(HeapSize - 1)
    /\ h[b].nSize >= (IF IsFree(h, b) THEN Header ELSE Header + 1)
    /\ b + h[b].nSize <= Limit(h, b)
    /\ \A c \in DOMAIN h : c > b => c >= Limit(h, b)

NoFreeNeighbours(h) ==
  \A b \in DOMAIN h : IsFree(h, b) => ~IsFree(h, h[b].pNext)

(* The list is a ring in address order whose blocks do not overlap; free   *)
(* neighbours are always joined (Free, Realloc); m_nAllocCount counts the  *)
(* blocks in use; m_pCurrentBlock is a block.  Once Realloc has expanded a *)
(* block so that less than a header was left, only the types hold.         *)
ZoneInv ==
  /\ TypeOK
  /\ ~smashed => /\ Linked(heap)
                 /\ Ordered(heap)
                 /\ NoFreeNeighbours(heap)
                 /\ m_nAllocCount = Cardinality(InUse)

(* The units of memory of block b, and those that belong to no block.      *)
Units(h, b) == b..(b + h[b].nSize - 1)
Ownerless(h) ==
  (0..(HeapSize - 1)) \ UNION {Units(h, b) : b \in DOMAIN h \ {Main}}

(* Memory is in a block, or was cut off by a Realloc that shrank a block   *)
(* by exactly MinFragmentSize: nothing else is ever lost, and that is lost *)
(* until Clear (zoneallocator.cpp:256-305).                                *)
Accounted == ~smashed => Cardinality(Ownerless(heap)) = lost

(* "We've been through the whole linked list and couldn't find a free      *)
(* block" (Alloc): its search, which starts anywhere, skips the candidates *)
(* of free blocks and stops before the block it began behind, gives up     *)
(* only when no free block is large enough.                                *)
AllocFailsOnlyWhenFull ==
  [][pc = "alloc" /\ pc' = "idle" => \A b \in DOMAIN heap : ~Candidate(b)]_vars

(* A region lent out: what lies between a block's header and its end magic. *)
Lent == [b \in InUse |-> [at |-> 16 * (b + Header),
                          bytes |-> 16 * (heap[b].nSize - Header) - 4,
                          tag |-> heap[b].Tag]]
live == {Lent[b] : b \in InUse}
asked == IF pc \in {"alloc", "found", "realloc"} THEN call.nSize ELSE 0

Zone == INSTANCE Heap WITH Bytes <- 16 * HeapSize, Tags <- Tags,
                           live <- live, asked <- asked

(* The allocator implements the heap, until a header has been smashed:     *)
(* regions in use never overlap, a Realloc that fails leaves its block.    *)
HeapSpec == Zone!Init /\ [][smashed' \/ Zone!Next]_<<live, asked>>
=============================================================================
