------------------------ MODULE ZoneAllocatorProofs ------------------------
(***************************************************************************)
(* Proofs about the zone allocator, for any size of the heap and whatever  *)
(* is asked for: its list stays a ring of blocks in address order that do  *)
(* not overlap, with free neighbours joined, until a header is smashed; no *)
(* memory is lost but what Realloc cuts off; Alloc's search misses no      *)
(* block; and the allocator is a heap.                                     *)
(***************************************************************************)
EXTENDS ZoneAllocator, FiniteSetTheorems, TLAPS

Typed(h) == /\ h \in [DOMAIN h -> Block]
            /\ DOMAIN h \subseteq {Main} \cup 0..HeapSize

Sane(h) == Typed(h) /\ Linked(h) /\ Ordered(h)

Used(h) == {b \in DOMAIN h \ {Main} : ~IsFree(h, b)}

----------------------------------------------------------------------------
(* The list. *)

(* The tag of a free block marks no block in use. *)
LEMMA TagsInUse == Free \notin Tags
  BY TagAssumption DEF Tags

(* The fields of a block have their types. *)
LEMMA BlockFields ==
  ASSUME NEW h, Typed(h), NEW b \in DOMAIN h
  PROVE  /\ b \in Int /\ b >= Main
         /\ h[b].nSize \in Nat /\ h[b].pNext \in Int
         /\ h[b].pPrevious \in Int /\ h[b].Tag \in Tags \cup {Free}
  BY HeapAssumption DEF Typed, Block, Main

(* The next block is the one with the next higher address; after the last  *)
(* comes the main block.                                                   *)
LEMMA NextIsAbove ==
  ASSUME NEW h, Sane(h), NEW b \in DOMAIN h
  PROVE  /\ h[b].pNext \in DOMAIN h
         /\ h[b].pNext # Main => h[b].pNext > b
         /\ h[b].pNext = Main => b # Main
         /\ \A c \in DOMAIN h : c > b => h[b].pNext # Main /\ c >= h[b].pNext
         /\ h[b].pNext # b
<1>1. b \in Int /\ h[b].pNext \in Int /\ h[b].pNext \in DOMAIN h
      /\ h[b].nSize \in Nat
  BY BlockFields DEF Sane, Linked
<1>2. CASE b = Main
  <2>1. h[b].pNext = 0
    BY <1>2 DEF Sane, Linked
  <2>2. \A c \in DOMAIN h : c > -1 => c >= 0
    BY BlockFields DEF Sane
  <2>3. QED
    <3>1. \A c \in DOMAIN h : c > b => h[b].pNext # Main /\ c >= h[b].pNext
      BY <1>2, <2>1, <2>2 DEF Main
    <3>2. QED
      BY <3>1, <1>2, <2>1, <1>1 DEF Main
<1>3. CASE b # Main
  <2>1. /\ b + h[b].nSize <= Limit(h, b) /\ h[b].nSize >= 2
        /\ \A c \in DOMAIN h : c > b => c >= Limit(h, b)
    BY <1>1, <1>3 DEF Sane, Ordered, Header
  <2>2. CASE h[b].pNext = Main
    <3>1. \A c \in DOMAIN h : c \in Int /\ (c # Main => c <= HeapSize - 1)
      BY BlockFields, HeapAssumption DEF Sane, Ordered
    <3>2. \A c \in DOMAIN h : c > b => c >= HeapSize
      BY <2>1, <2>2 DEF Limit
    <3>3. b >= 0
      BY <1>3, HeapAssumption DEF Sane, Ordered
    <3>4. \A c \in DOMAIN h : ~(c > b)
      BY <3>1, <3>2, <3>3, HeapAssumption, <1>1 DEF Main
    <3>5. QED
      BY <3>4, <2>2, <1>1, <1>3
  <2>3. CASE h[b].pNext # Main
    BY <1>1, <2>1, <2>3 DEF Limit
  <2>4. QED
    BY <2>2, <2>3
<1>4. QED
  BY <1>2, <1>3

(* No two blocks have the same next block, or the same previous one. *)
LEMMA Ring ==
  ASSUME NEW h, Linked(h), NEW b \in DOMAIN h
  PROVE  /\ h[b].pNext \in DOMAIN h /\ h[b].pPrevious \in DOMAIN h
         /\ h[h[b].pNext].pPrevious = b /\ h[h[b].pPrevious].pNext = b
         /\ \A c \in DOMAIN h : h[c].pNext = h[b].pNext => c = b
         /\ \A c \in DOMAIN h : h[c].pPrevious = h[b].pPrevious => c = b
  BY DEF Linked

(* The list's update of a block's pPrevious. *)
LEMMA PreviousUpdated ==
  ASSUME NEW r \in Block, NEW p \in Int
  PROVE  /\ [r EXCEPT !.pPrevious = p] \in Block
         /\ [r EXCEPT !.pPrevious = p].nSize = r.nSize
         /\ [r EXCEPT !.pPrevious = p].pNext = r.pNext
         /\ [r EXCEPT !.pPrevious = p].pPrevious = p
         /\ [r EXCEPT !.pPrevious = p].Tag = r.Tag
  BY DEF Block

(* The list's update of a block's size and pNext. *)
LEMMA SizeUpdated ==
  ASSUME NEW r \in Block, NEW n \in Nat, NEW p \in Int
  PROVE  /\ [r EXCEPT !.nSize = n, !.pNext = p] \in Block
         /\ [r EXCEPT !.nSize = n, !.pNext = p].nSize = n
         /\ [r EXCEPT !.nSize = n, !.pNext = p].pNext = p
         /\ [r EXCEPT !.nSize = n, !.pNext = p].pPrevious = r.pPrevious
         /\ [r EXCEPT !.nSize = n, !.pNext = p].Tag = r.Tag
  BY DEF Block

(* g is the list h in which block b keeps n units and a free block of the  *)
(* given size comes after it, before next; what came between is gone.      *)
Gone(h, b, next) == IF next = h[b].pNext THEN {} ELSE {h[b].pNext}
IsFollowed(g, h, b, n, size, next) ==
  /\ Typed(g)
  /\ DOMAIN g = (DOMAIN h \ Gone(h, b, next)) \cup {b + n}
  /\ g[b + n].nSize = size /\ g[b + n].pNext = next
  /\ g[b + n].pPrevious = b /\ g[b + n].Tag = Free
  /\ \A x \in DOMAIN g \ {b + n} :
       /\ x \in DOMAIN h
       /\ g[x].nSize = IF x = b THEN n ELSE h[x].nSize
       /\ g[x].pNext = IF x = b THEN b + n ELSE h[x].pNext
       /\ g[x].pPrevious = IF x = next THEN b + n ELSE h[x].pPrevious
       /\ g[x].Tag = h[x].Tag

(* That is what Followed makes of a list. *)
LEMMA FollowedFields ==
  ASSUME NEW h, Typed(h), NEW b \in DOMAIN h, NEW n \in Nat, n > 0,
         NEW size \in Nat, NEW next \in Int, next # b,
         b + n \in 0..HeapSize
  PROVE  IsFollowed(Followed(h, b, n, size, next), h, b, n, size, next)
<1> DEFINE g == Followed(h, b, n, size, next)
           gone == Gone(h, b, next)
<1>1. b \in Int /\ b + n # b
  BY BlockFields
<1>2. /\ DOMAIN g = (DOMAIN h \ gone) \cup {b + n}
      /\ g = [x \in DOMAIN g |-> g[x]]
  BY DEF Followed, Gone
<1>3. g[b + n] = [nSize |-> size, pNext |-> next, pPrevious |-> b, Tag |-> Free]
  BY <1>2 DEF Followed
<1>4. \A x \in DOMAIN g \ {b + n} :
        g[x] = IF x = b THEN [h[b] EXCEPT !.nSize = n, !.pNext = b + n]
               ELSE IF x = next THEN [h[x] EXCEPT !.pPrevious = b + n]
               ELSE h[x]
  BY <1>2 DEF Followed
<1>5. \A x \in DOMAIN g \ {b + n} : x \in DOMAIN h /\ h[x] \in Block
  BY <1>2 DEF Typed
<1> DEFINE p == b + n
           r == [h[b] EXCEPT !.nSize = n, !.pNext = p]
<1> HIDE DEF g, gone
<1>6. /\ r \in Block /\ r.nSize = n /\ r.pNext = p
      /\ r.pPrevious = h[b].pPrevious /\ r.Tag = h[b].Tag
  <2>1. h[b] \in Block /\ p \in Int
    BY <1>1 DEF Typed
  <2> HIDE DEF p
  <2>2. QED
    BY <2>1 DEF Block
<1>8. /\ g[b + n].nSize = size /\ g[b + n].pNext = next
      /\ g[b + n].pPrevious = b /\ g[b + n].Tag = Free
      /\ g[b + n] \in Block
  BY <1>1, <1>3 DEF Block
<1>9. ASSUME NEW x \in DOMAIN g \ {b + n}
      PROVE  /\ x \in DOMAIN h
             /\ g[x] \in Block
             /\ g[x].nSize = IF x = b THEN n ELSE h[x].nSize
             /\ g[x].pNext = IF x = b THEN b + n ELSE h[x].pNext
             /\ g[x].pPrevious = IF x = next THEN b + n ELSE h[x].pPrevious
             /\ g[x].Tag = h[x].Tag
  <2>1. CASE x = b
    BY <2>1, <1>4, <1>5, <1>6
  <2>2. CASE x # b /\ x = next
    <3>1. g[x] = [h[x] EXCEPT !.pPrevious = b + n] /\ h[x] \in Block
      BY <2>2, <1>4, <1>5
    <3>2. QED
      BY <2>2, <3>1, <1>1, <1>5, PreviousUpdated
  <2>3. CASE x # b /\ x # next
    BY <2>3, <1>4, <1>5
  <2>4. QED
    BY <2>1, <2>2, <2>3
<1>10. Typed(g)
  <2>1. \A x \in DOMAIN g : g[x] \in Block
    BY <1>8, <1>9
  <2>2. DOMAIN g \subseteq {Main} \cup 0..HeapSize
    BY <1>2 DEF Typed
  <2>3. QED
    BY <1>2, <2>1, <2>2 DEF Typed
<1>11. IsFollowed(g, h, b, n, size, next)
  BY <1>2, <1>8, <1>9, <1>10 DEF IsFollowed, gone
<1>12. QED
  BY <1>11 DEF g

(* g is the list h in which block a has taken in the block after it. *)
IsJoined(g, h, a) ==
  /\ Typed(g)
  /\ DOMAIN g = DOMAIN h \ {h[a].pNext}
  /\ \A x \in DOMAIN g :
       /\ g[x].nSize = IF x = a THEN h[a].nSize + h[h[a].pNext].nSize
                                ELSE h[x].nSize
       /\ g[x].pNext = IF x = a THEN h[h[a].pNext].pNext ELSE h[x].pNext
       /\ g[x].pPrevious = IF x = h[h[a].pNext].pNext THEN a
                                                      ELSE h[x].pPrevious
       /\ g[x].Tag = h[x].Tag

(* That is what Joined makes of a list. *)
LEMMA JoinedFields ==
  ASSUME NEW h, Typed(h), NEW a \in DOMAIN h,
         NEW b \in DOMAIN h, b = h[a].pNext, b # a,
         NEW next, next = h[b].pNext, next # a,
         NEW g, g = Joined(h, a)
  PROVE  IsJoined(g, h, a)
<1>1. /\ a \in Int /\ next \in Int /\ h[a].nSize + h[b].nSize \in Nat
  BY BlockFields
<1>2. /\ DOMAIN g = DOMAIN h \ {b}
      /\ g = [x \in DOMAIN g |-> g[x]]
  BY DEF Joined
<1>3. \A x \in DOMAIN g :
        g[x] = IF x = a THEN [h[a] EXCEPT !.nSize = @ + h[b].nSize,
                                          !.pNext = next]
               ELSE IF x = next THEN [h[x] EXCEPT !.pPrevious = a]
               ELSE h[x]
  BY <1>2 DEF Joined
<1>4. \A x \in DOMAIN g : x \in DOMAIN h /\ h[x] \in Block
  BY <1>2 DEF Typed
<1> DEFINE r == [h[a] EXCEPT !.nSize = @ + h[b].nSize, !.pNext = next]
<1>5. /\ r \in Block /\ r.nSize = h[a].nSize + h[b].nSize
      /\ r.pNext = next /\ r.pPrevious = h[a].pPrevious /\ r.Tag = h[a].Tag
  BY <1>1 DEF Typed, Block
<1>7. ASSUME NEW x \in DOMAIN g
      PROVE  /\ g[x] \in Block
             /\ g[x].nSize = IF x = a THEN h[a].nSize + h[b].nSize
                                       ELSE h[x].nSize
             /\ g[x].pNext = IF x = a THEN next ELSE h[x].pNext
             /\ g[x].pPrevious = IF x = next THEN a ELSE h[x].pPrevious
             /\ g[x].Tag = h[x].Tag
  <2>1. CASE x = a
    BY <2>1, <1>3, <1>5
  <2>2. CASE x # a /\ x = next
    <3>1. g[x] = [h[x] EXCEPT !.pPrevious = a] /\ h[x] \in Block
      BY <2>2, <1>3, <1>4
    <3>2. QED
      BY <2>2, <3>1, <1>1, <1>4, PreviousUpdated
  <2>3. CASE x # a /\ x # next
    BY <2>3, <1>3, <1>4
  <2>4. QED
    BY <2>1, <2>2, <2>3
<1>8. Typed(g)
  <2>1. DOMAIN g \subseteq {Main} \cup 0..HeapSize
    BY <1>2 DEF Typed
  <2>2. QED
    BY <1>2, <1>7, <2>1 DEF Typed
<1>9. QED
  BY <1>2, <1>7, <1>8 DEF IsJoined

(* Tagging a block changes nothing else. *)
LEMMA TaggedFields ==
  ASSUME NEW h, Typed(h), NEW b \in DOMAIN h, NEW tag \in Tags \cup {Free},
         NEW g, g = Tagged(h, b, tag)
  PROVE  /\ Typed(g) /\ DOMAIN g = DOMAIN h
         /\ \A x \in DOMAIN h :
              /\ g[x].nSize = h[x].nSize /\ g[x].pNext = h[x].pNext
              /\ g[x].pPrevious = h[x].pPrevious
              /\ g[x].Tag = IF x = b THEN tag ELSE h[x].Tag
<1>1. /\ DOMAIN g = DOMAIN h /\ g = [x \in DOMAIN g |-> g[x]]
      /\ \A x \in DOMAIN h : g[x] = IF x = b THEN [h[b] EXCEPT !.Tag = tag]
                                             ELSE h[x]
  BY DEF Tagged, Typed
<1>2. \A x \in DOMAIN h : h[x] \in Block
  BY DEF Typed
<1>3. /\ [h[b] EXCEPT !.Tag = tag] \in Block
      /\ [h[b] EXCEPT !.Tag = tag].nSize = h[b].nSize
      /\ [h[b] EXCEPT !.Tag = tag].pNext = h[b].pNext
      /\ [h[b] EXCEPT !.Tag = tag].pPrevious = h[b].pPrevious
      /\ [h[b] EXCEPT !.Tag = tag].Tag = tag
  BY <1>2 DEF Block
<1>4. \A x \in DOMAIN h : g[x] \in Block
  BY <1>1, <1>2, <1>3
<1>5. Typed(g)
  BY <1>1, <1>4 DEF Typed
<1>6. QED
  BY <1>1, <1>3, <1>5

(* A free block put behind b keeps the ring in order, if it fits between b *)
(* and next: what came after b, or what came after that.                   *)
LEMMA FollowedSane ==
  ASSUME NEW h, Sane(h), NEW b \in DOMAIN h \ {Main}, NEW n \in Nat,
         n >= Header + 1, NEW size \in Nat, size >= Header,
         NEW next \in DOMAIN h,
         \/ next = h[b].pNext
         \/ h[b].pNext # Main /\ next = h[h[b].pNext].pNext,
         b + n + size <= (IF next = Main THEN HeapSize ELSE next),
         NEW g, g = Followed(h, b, n, size, next),
         NEW gone, gone = IF next = h[b].pNext THEN {} ELSE {h[b].pNext}
  PROVE  /\ Sane(g)
         /\ IsFollowed(g, h, b, n, size, next)
         /\ b + n \notin DOMAIN h \ gone
<1>1. /\ b \in Int /\ n > 0 /\ n >= 3 /\ size >= 2 /\ next \in Int
      /\ next # Main => next <= HeapSize - 1
      /\ b >= 0
  BY BlockFields, HeapAssumption DEF Sane, Ordered, Header
<1>2. b + n \in 0..HeapSize /\ b + n \in Nat /\ b + n < HeapSize
  <2>1. (IF next = Main THEN HeapSize ELSE next) <= HeapSize
    BY <1>1, HeapAssumption
  <2>2. b + n + size <= HeapSize
    <3>1. CASE next = Main
      BY <3>1
    <3>2. CASE next # Main
      <4>1. b + n + size <= next
        BY <3>2
      <4>2. QED
        BY <3>2, <4>1, <1>1, HeapAssumption
    <3>3. QED
      BY <3>1, <3>2
  <2>3. QED
    BY <2>2, <1>1, HeapAssumption
<1>3. next # b /\ b \notin gone /\ next \notin gone
      /\ (next # Main => next > b + n)
  <2>1. CASE next = h[b].pNext
    BY <1>1, <2>1, NextIsAbove
  <2>2. CASE h[b].pNext # Main /\ next = h[h[b].pNext].pNext
    <3>1. h[b].pNext \in DOMAIN h /\ h[b].pNext > b /\ h[b].pNext \in Int
      BY <2>2, NextIsAbove, BlockFields DEF Sane
    <3>2. next # h[b].pNext /\ (next # Main => next > h[b].pNext)
      BY <2>2, <3>1, NextIsAbove
    <3>3. QED
      BY <1>1, <2>2, <3>1, <3>2
  <2>3. QED
    BY <2>1, <2>2
<1>4. /\ IsFollowed(g, h, b, n, size, next)
      /\ Typed(g)
      /\ DOMAIN g = (DOMAIN h \ gone) \cup {b + n}
      /\ g[b + n].nSize = size /\ g[b + n].pNext = next
      /\ g[b + n].pPrevious = b /\ g[b + n].Tag = Free
      /\ \A x \in DOMAIN g \ {b + n} :
           /\ x \in DOMAIN h
           /\ g[x].nSize = IF x = b THEN n ELSE h[x].nSize
           /\ g[x].pNext = IF x = b THEN b + n ELSE h[x].pNext
           /\ g[x].pPrevious = IF x = next THEN b + n ELSE h[x].pPrevious
           /\ g[x].Tag = h[x].Tag
  <2>1. Typed(h) /\ b \in DOMAIN h
    BY DEF Sane
  <2>2. IsFollowed(g, h, b, n, size, next)
    BY <2>1, <1>1, <1>2, <1>3, FollowedFields
  <2>3. QED
    BY <2>2 DEF IsFollowed, Gone
(* What comes after b comes at next, or is gone.                           *)
<1>5. \A c \in DOMAIN h \ gone : c > b => next # Main /\ c >= next
  <2>1. CASE next = h[b].pNext
    BY <2>1, NextIsAbove
  <2>2. CASE next # h[b].pNext
    <3>1. ASSUME NEW c \in DOMAIN h \ gone, c > b
          PROVE  next # Main /\ c >= next
      <4>1. c \in Int /\ h[b].pNext \in Int /\ h[b].pNext \in DOMAIN h
        BY BlockFields, NextIsAbove DEF Sane
      <4>2. c >= h[b].pNext /\ c # h[b].pNext
        BY <2>2, <3>1, NextIsAbove
      <4>3. c > h[b].pNext
        BY <4>1, <4>2
      <4>4. QED
        BY <2>2, <4>1, <4>3, NextIsAbove
    <3>2. QED
      BY <3>1
  <2>3. QED
    BY <2>1, <2>2
<1>6. b + n \notin DOMAIN h \ gone
  BY <1>1, <1>2, <1>3, <1>5
<1>7. /\ b \in DOMAIN g /\ next \in DOMAIN g /\ b + n \in DOMAIN g
      /\ b # b + n /\ next # b + n /\ b + n # Main
      /\ g[b].pNext = b + n /\ g[next].pPrevious = b + n
  BY <1>1, <1>2, <1>3, <1>4 DEF Main
(* The neighbours of the other blocks stay.                                *)
<1>8. \A x \in DOMAIN h \ gone : x # b => h[x].pNext \notin gone
                                          /\ h[x].pNext # next
  <2>1. CASE next = h[b].pNext
    BY <2>1, Ring DEF Sane
  <2>2. CASE next # h[b].pNext
    <3>1. h[b].pNext \in DOMAIN h
      BY NextIsAbove
    <3>2. \A x \in DOMAIN h : /\ h[x].pNext = h[b].pNext => x = b
                              /\ h[x].pNext = next => x = h[b].pNext
      <4>1. \A x \in DOMAIN h : h[x].pNext = h[b].pNext => x = b
        BY Ring DEF Sane
      <4>2. next = h[h[b].pNext].pNext
        BY <2>2
      <4>3. \A x \in DOMAIN h : h[x].pNext = next => x = h[b].pNext
        BY <3>1, <4>2, Ring DEF Sane
      <4>4. QED
        BY <4>1, <4>3
    <3>3. QED
      BY <3>2, <2>2
  <2>3. QED
    BY <2>1, <2>2
<1>9. \A x \in DOMAIN h \ gone : x # next => h[x].pPrevious \notin gone
                                             /\ h[x].pPrevious # b
  <2>1. CASE next = h[b].pNext
    BY <2>1, Ring DEF Sane
  <2>2. CASE next # h[b].pNext
    <3>1. h[b].pNext \in DOMAIN h
      BY NextIsAbove
    <3>2. \A x \in DOMAIN h : /\ h[x].pPrevious = h[b].pNext => x = next
                              /\ h[x].pPrevious = b => x = h[b].pNext
      <4>1. next = h[h[b].pNext].pNext
        BY <2>2
      <4>2. h[next].pPrevious = h[b].pNext /\ h[h[b].pNext].pPrevious = b
        BY <3>1, <4>1, Ring DEF Sane
      <4>3. QED
        <5>1. \A x \in DOMAIN h : h[x].pPrevious = h[next].pPrevious => x = next
          BY Ring DEF Sane
        <5>2. \A x \in DOMAIN h :
                h[x].pPrevious = h[h[b].pNext].pPrevious => x = h[b].pNext
          BY <3>1, Ring DEF Sane
        <5>3. \A x \in DOMAIN h : h[x].pPrevious = h[b].pNext => x = next
          BY <4>2, <5>1
        <5>4. \A x \in DOMAIN h : h[x].pPrevious = b => x = h[b].pNext
          BY <4>2, <5>2
        <5>5. QED
          BY <5>3, <5>4
    <3>3. QED
      BY <3>2, <2>2
  <2>3. QED
    BY <2>1, <2>2
<1>10. Linked(g)
  <2>1. {Main, 0} \subseteq DOMAIN g /\ g[Main].pNext = 0
        /\ ~IsFree(g, Main)
    <3>1. /\ Main \in DOMAIN h /\ h[Main].pNext = 0 /\ ~IsFree(h, Main)
          /\ 0 \in DOMAIN h
      BY DEF Sane, Linked
    <3>2. Main \notin gone
      BY <1>4
    <3>3. 0 \notin gone
      BY <3>1, <1>8, <3>2
    <3>4. QED
      BY <1>4, <1>7, <3>1, <3>2, <3>3 DEF IsFree
  <2>2. g[0].pPrevious = Main
    <3>1. /\ h[0].pPrevious = Main /\ h[Main].pNext = 0 /\ Main \in DOMAIN h
          /\ Main \notin gone
      BY <1>4 DEF Sane, Linked
    <3>2. 0 # next
      BY <1>8, <3>1
    <3>3. 0 # b + n
      BY <1>1, <1>2
    <3>4. QED
      BY <2>1, <3>1, <3>2, <3>3, <1>4
  <2>3. ASSUME NEW x \in DOMAIN g
        PROVE  /\ g[x].pNext \in DOMAIN g /\ g[x].pPrevious \in DOMAIN g
               /\ g[g[x].pNext].pPrevious = x /\ g[g[x].pPrevious].pNext = x
    <3>1. CASE x = b + n
      BY <3>1, <1>4, <1>7
    <3>2. CASE x # b + n
      <4>1. x \in DOMAIN h \ gone
        BY <3>2, <1>4
      <4>2. /\ h[x].pNext \in DOMAIN h /\ h[x].pPrevious \in DOMAIN h
            /\ h[h[x].pNext].pPrevious = x /\ h[h[x].pPrevious].pNext = x
        BY <4>1, Ring DEF Sane
      <4>3. g[x].pNext \in DOMAIN g /\ g[g[x].pNext].pPrevious = x
        <5>1. CASE x = b
          BY <5>1, <1>4, <1>7
        <5>2. CASE x # b
          <6>1. g[x].pNext = h[x].pNext /\ h[x].pNext \in DOMAIN h \ gone
                /\ h[x].pNext # next
            BY <5>2, <3>2, <4>1, <4>2, <1>4, <1>8
          <6>2. h[x].pNext # b + n
            BY <6>1, <1>6
          <6>3. QED
            BY <6>1, <6>2, <4>2, <1>4
        <5>3. QED
          BY <5>1, <5>2
      <4>4. g[x].pPrevious \in DOMAIN g /\ g[g[x].pPrevious].pNext = x
        <5>1. CASE x = next
          BY <5>1, <1>4, <1>7
        <5>2. CASE x # next
          <6>1. g[x].pPrevious = h[x].pPrevious /\ h[x].pPrevious # b
                /\ h[x].pPrevious \in DOMAIN h \ gone
            BY <5>2, <3>2, <4>1, <4>2, <1>4, <1>9
          <6>2. h[x].pPrevious # b + n
            BY <6>1, <1>6
          <6>3. QED
            BY <6>1, <6>2, <4>2, <1>4
        <5>3. QED
          BY <5>1, <5>2
      <4>5. QED
        BY <4>3, <4>4
    <3>3. QED
      BY <3>1, <3>2
  <2>4. QED
    BY <2>1, <2>2, <2>3 DEF Linked
<1>11. Ordered(g)
  <2> SUFFICES ASSUME NEW x \in DOMAIN g \ {Main}
               PROVE  /\ x \in 0..(HeapSize - 1)
                      /\ g[x].nSize >= (IF IsFree(g, x) THEN Header
                                                        ELSE Header + 1)
                      /\ x + g[x].nSize <= Limit(g, x)
                      /\ \A c \in DOMAIN g : c > x => c >= Limit(g, x)
    BY DEF Ordered
  <2>1. CASE x = b + n
    <3>1. Limit(g, x) = IF next = Main THEN HeapSize ELSE next
      BY <2>1, <1>4 DEF Limit
    <3>2. \A c \in DOMAIN g : c > b + n => c >= next /\ next # Main
      <4>1. \A c \in DOMAIN g : c > b + n => c > b /\ c \in DOMAIN h \ gone
        BY <1>1, <1>4, BlockFields
      <4>2. QED
        BY <4>1, <1>5
    <3>3. QED
      <4>1. g[x].nSize = size /\ IsFree(g, x) /\ Limit(g, x) \in Int
            /\ x \in 0..(HeapSize - 1)
        BY <2>1, <3>1, <1>1, <1>2, <1>4, HeapAssumption DEF IsFree
      <4>2. x + size <= Limit(g, x)
        BY <2>1, <3>1
      <4>3. \A c \in DOMAIN g : c > x => c >= Limit(g, x)
        BY <2>1, <3>1, <3>2
      <4>4. QED
        BY <4>1, <4>2, <4>3
  <2>2. CASE x = b
    <3>1. Limit(g, x) = b + n
      BY <2>2, <1>7 DEF Limit
    <3>2. g[x].nSize = n
      BY <2>2, <1>4, <1>7
    <3>3. \A c \in DOMAIN g : c > b => c >= b + n
      <4>1. ASSUME NEW c \in DOMAIN g, c > b PROVE c >= b + n
        <5>1. CASE c = b + n
          BY <5>1, <1>2
        <5>2. CASE c # b + n
          <6>1. next # Main /\ c >= next /\ c \in Int
            BY <4>1, <5>2, <1>4, <1>5, BlockFields
          <6>2. QED
            BY <6>1, <1>1, <1>2, <1>3
        <5>3. QED
          BY <5>1, <5>2
      <4>2. QED
        BY <4>1
    <3>4. QED
      BY <2>2, <3>1, <3>2, <3>3, <1>1, <1>2, HeapAssumption
         DEF Header, IsFree
  <2>3. CASE x # b /\ x # b + n
    <3>1. /\ x \in DOMAIN h \ {Main} /\ x \in DOMAIN h \ gone
          /\ g[x].nSize = h[x].nSize /\ g[x].pNext = h[x].pNext
          /\ g[x].Tag = h[x].Tag
      BY <2>3, <1>4
    <3>2. /\ x \in 0..(HeapSize - 1) /\ x \in Int
          /\ h[x].nSize >= (IF IsFree(h, x) THEN Header ELSE Header + 1)
          /\ x + h[x].nSize <= Limit(h, x)
          /\ \A c \in DOMAIN h : c > x => c >= Limit(h, x)
      BY <3>1, HeapAssumption DEF Sane, Ordered
    <3>3. Limit(g, x) = Limit(h, x)
      BY <3>1 DEF Limit
    <3>4. b + n > x => b + n >= Limit(h, x)
      <4>1. CASE x < b
        <5>1. b >= Limit(h, x)
          BY <3>2, <4>1
        <5>2. Limit(h, x) \in Int
          BY <3>1, BlockFields, HeapAssumption DEF Limit, Sane
        <5>3. QED
          BY <5>1, <5>2, <1>1
      <4>2. CASE x > b
        <5>1. x >= next /\ next # Main
          BY <3>1, <4>2, <1>5
        <5>2. QED
          BY <5>1, <1>1, <1>2, <1>3, <3>2
      <4>3. QED
        BY <4>1, <4>2, <2>3, <3>2, <1>1
    <3>5. \A c \in DOMAIN g : c > x => c >= Limit(h, x)
      BY <3>2, <3>4, <1>4
    <3>6. QED
      BY <3>1, <3>2, <3>3, <3>5 DEF IsFree
  <2>4. QED
    BY <2>1, <2>2, <2>3
<1>12. QED
  BY <1>4, <1>6, <1>10, <1>11 DEF Sane

(* A block that takes in the one after it keeps the ring in order. *)
LEMMA JoinedSane ==
  ASSUME NEW h, Sane(h), NEW a \in DOMAIN h \ {Main}, h[a].pNext # Main,
         NEW g, g = Joined(h, a)
  PROVE  /\ Sane(g) /\ IsJoined(g, h, a)
<1> DEFINE b == h[a].pNext
           next == h[b].pNext
<1>1. /\ b \in DOMAIN h \ {Main} /\ next \in DOMAIN h
      /\ a \in Int /\ b \in Int /\ next \in Int /\ a >= 0 /\ b > a
      /\ b # a /\ next # b /\ (next # Main => next > b)
  BY NextIsAbove, BlockFields, HeapAssumption DEF Sane, Ordered
<1>2. next # a
  BY <1>1
<1> HIDE DEF b, next
<1>3. IsJoined(g, h, a)
  BY <1>1, <1>2, JoinedFields DEF Sane, b, next
<1>4. /\ Typed(g)
      /\ DOMAIN g = DOMAIN h \ {b}
      /\ \A x \in DOMAIN g :
           /\ g[x].nSize = IF x = a THEN h[a].nSize + h[b].nSize
                                    ELSE h[x].nSize
           /\ g[x].pNext = IF x = a THEN next ELSE h[x].pNext
           /\ g[x].pPrevious = IF x = next THEN a ELSE h[x].pPrevious
           /\ g[x].Tag = h[x].Tag
  BY <1>3 DEF IsJoined, b, next
<1>5. /\ \A x \in DOMAIN h : h[x].pNext = b => x = a
      /\ \A x \in DOMAIN h : h[x].pNext = next => x = b
      /\ \A x \in DOMAIN h : h[x].pPrevious = a => x = b
      /\ \A x \in DOMAIN h : h[x].pPrevious = b => x = next
  <2>1. h[b].pPrevious = a /\ h[next].pPrevious = b
    BY <1>1, Ring DEF Sane, b, next
  <2>2. /\ \A x \in DOMAIN h : h[x].pPrevious = h[b].pPrevious => x = b
        /\ \A x \in DOMAIN h : h[x].pPrevious = h[next].pPrevious => x = next
    BY <1>1, Ring DEF Sane
  <2>3. /\ \A x \in DOMAIN h : h[x].pNext = h[a].pNext => x = a
        /\ \A x \in DOMAIN h : h[x].pNext = h[b].pNext => x = b
    BY <1>1, Ring DEF Sane
  <2>4. QED
    BY <2>1, <2>2, <2>3 DEF b, next
<1>6. Linked(g)
  <2>1. {Main, 0} \subseteq DOMAIN g /\ g[Main].pNext = 0
        /\ ~IsFree(g, Main)
    <3>1. /\ {Main, 0} \subseteq DOMAIN h /\ h[Main].pNext = 0
          /\ ~IsFree(h, Main)
      BY DEF Sane, Linked
    <3>2. b # 0
      BY <1>1
    <3>3. QED
      BY <1>1, <1>4, <3>1, <3>2 DEF IsFree
  <2>2. g[0].pPrevious = Main
    <3>1. /\ h[0].pPrevious = Main /\ h[Main].pNext = 0 /\ Main \in DOMAIN h
      BY DEF Sane, Linked
    <3>2. 0 # next
      BY <1>1, <1>5, <3>1
    <3>3. QED
      BY <1>4, <2>1, <3>1, <3>2
  <2>3. ASSUME NEW x \in DOMAIN g
        PROVE  /\ g[x].pNext \in DOMAIN g /\ g[x].pPrevious \in DOMAIN g
               /\ g[g[x].pNext].pPrevious = x /\ g[g[x].pPrevious].pNext = x
    <3>1. /\ x \in DOMAIN h /\ x # b
          /\ h[x].pNext \in DOMAIN h /\ h[x].pPrevious \in DOMAIN h
          /\ h[h[x].pNext].pPrevious = x /\ h[h[x].pPrevious].pNext = x
      BY <1>4, Ring DEF Sane
    <3>2. g[x].pNext \in DOMAIN g /\ g[g[x].pNext].pPrevious = x
      <4>1. CASE x = a
        BY <4>1, <1>1, <1>4
      <4>2. CASE x # a
        BY <4>2, <3>1, <1>1, <1>4, <1>5
      <4>3. QED
        BY <4>1, <4>2
    <3>3. g[x].pPrevious \in DOMAIN g /\ g[g[x].pPrevious].pNext = x
      <4>1. CASE x = next
        BY <4>1, <1>1, <1>2, <1>4
      <4>2. CASE x # next
        BY <4>2, <3>1, <1>1, <1>4, <1>5
      <4>3. QED
        BY <4>1, <4>2
    <3>4. QED
      BY <3>2, <3>3
  <2>4. QED
    BY <2>1, <2>2, <2>3 DEF Linked
<1>7. Ordered(g)
  <2> SUFFICES ASSUME NEW x \in DOMAIN g \ {Main}
               PROVE  /\ x \in 0..(HeapSize - 1)
                      /\ g[x].nSize >= (IF IsFree(g, x) THEN Header
                                                        ELSE Header + 1)
                      /\ x + g[x].nSize <= Limit(g, x)
                      /\ \A c \in DOMAIN g : c > x => c >= Limit(g, x)
    BY DEF Ordered
  <2>1. /\ x \in 0..(HeapSize - 1) /\ x \in Int /\ h[x].nSize \in Nat
        /\ h[x].nSize >= (IF IsFree(h, x) THEN Header ELSE Header + 1)
        /\ x + h[x].nSize <= Limit(h, x)
        /\ \A c \in DOMAIN h : c > x => c >= Limit(h, x)
    BY <1>4, BlockFields, HeapAssumption DEF Sane, Ordered
  <2>2. CASE x = a
    <3>1. Limit(h, x) = b
      BY <2>2, <1>1 DEF Limit, b
    <3>2. /\ Limit(g, x) = Limit(h, b) /\ Limit(g, x) \in Int
      BY <2>2, <1>1, <1>4, HeapAssumption DEF Limit, next
    <3>3. /\ b + h[b].nSize <= Limit(h, b) /\ h[b].nSize \in Nat
          /\ \A c \in DOMAIN h : c > b => c >= Limit(h, b)
      BY <1>1, BlockFields DEF Sane, Ordered
    <3>4. g[x].nSize = h[x].nSize + h[b].nSize
      BY <2>2, <1>4
    <3>5. x + g[x].nSize <= Limit(g, x)
      BY <2>1, <3>1, <3>2, <3>3, <3>4, <1>1
    <3>6. \A c \in DOMAIN g : c > x => c >= Limit(g, x)
      <4>1. \A c \in DOMAIN g : c > x => c >= b /\ c # b /\ c \in Int
        BY <2>1, <3>1, <1>4, BlockFields DEF Sane
      <4>2. \A c \in DOMAIN g : c > x => c > b
        BY <4>1, <1>1
      <4>3. QED
        BY <4>2, <3>2, <3>3, <1>4
    <3>7. g[x].nSize >= (IF IsFree(g, x) THEN Header ELSE Header + 1)
      BY <2>1, <2>2, <3>3, <3>4, <1>4 DEF IsFree, Header
    <3>8. QED
      BY <2>1, <3>5, <3>6, <3>7
  <2>3. CASE x # a
    <3>1. /\ g[x].nSize = h[x].nSize /\ Limit(g, x) = Limit(h, x)
          /\ IsFree(g, x) <=> IsFree(h, x)
      BY <2>3, <1>4 DEF Limit, IsFree
    <3>2. QED
      BY <2>1, <3>1, <1>4
  <2>4. QED
    BY <2>2, <2>3
<1>8. QED
  BY <1>3, <1>4, <1>6, <1>7 DEF Sane

(* Tagging a block that has room for its end magic keeps the ring. *)
LEMMA TaggedSane ==
  ASSUME NEW h, Sane(h), NEW b \in DOMAIN h \ {Main},
         NEW tag \in Tags \cup {Free},
         tag # Free => h[b].nSize >= Header + 1,
         NEW g, g = Tagged(h, b, tag)
  PROVE  Sane(g)
<1>1. /\ Typed(g) /\ DOMAIN g = DOMAIN h
      /\ \A x \in DOMAIN h :
           /\ g[x].nSize = h[x].nSize /\ g[x].pNext = h[x].pNext
           /\ g[x].pPrevious = h[x].pPrevious
           /\ g[x].Tag = IF x = b THEN tag ELSE h[x].Tag
  BY TaggedFields DEF Sane
<1>2. Linked(g)
  <2>1. /\ {Main, 0} \subseteq DOMAIN h /\ h[Main].pNext = 0
        /\ h[0].pPrevious = Main /\ ~IsFree(h, Main)
    BY DEF Sane, Linked
  <2>2. \A x \in DOMAIN h :
          /\ h[x].pNext \in DOMAIN h /\ h[x].pPrevious \in DOMAIN h
          /\ h[h[x].pNext].pPrevious = x /\ h[h[x].pPrevious].pNext = x
    BY DEF Sane, Linked
  <2>3. \A x \in DOMAIN g :
          /\ g[x].pNext \in DOMAIN g /\ g[x].pPrevious \in DOMAIN g
          /\ g[g[x].pNext].pPrevious = x /\ g[g[x].pPrevious].pNext = x
    <3>1. ASSUME NEW x \in DOMAIN h
          PROVE  /\ g[x].pNext \in DOMAIN g /\ g[x].pPrevious \in DOMAIN g
                 /\ g[g[x].pNext].pPrevious = x /\ g[g[x].pPrevious].pNext = x
      <4>1. g[x].pNext = h[x].pNext /\ g[x].pPrevious = h[x].pPrevious
        BY <1>1
      <4>2. h[x].pNext \in DOMAIN h /\ h[x].pPrevious \in DOMAIN h
        BY <2>2
      <4>3. /\ g[h[x].pNext].pPrevious = h[h[x].pNext].pPrevious
            /\ g[h[x].pPrevious].pNext = h[h[x].pPrevious].pNext
        BY <1>1, <4>2
      <4>4. QED
        BY <1>1, <2>2, <4>1, <4>2, <4>3
    <3>2. QED
      BY <1>1, <3>1
  <2>4. QED
    BY <1>1, <2>1, <2>3 DEF Linked, IsFree
<1>3. Ordered(g)
  <2>1. \A x \in DOMAIN h : Limit(g, x) = Limit(h, x)
    BY <1>1 DEF Limit
  <2>2. h[b].nSize \in Nat /\ h[b].nSize >= Header
    BY BlockFields DEF Sane, Ordered, Header
  <2>3. \A x \in DOMAIN h \ {Main} :
          g[x].nSize >= (IF IsFree(g, x) THEN Header ELSE Header + 1)
    BY <1>1, <2>2 DEF Sane, Ordered, IsFree
  <2>4. QED
    BY <1>1, <2>1, <2>3 DEF Sane, Ordered
<1>4. QED
  BY <1>1, <1>2, <1>3 DEF Sane

----------------------------------------------------------------------------
(* Free. *)

(* Blocks that are free and followed by a free block. *)
FreePairs(h) == {x \in DOMAIN h : IsFree(h, x) /\ IsFree(h, h[x].pNext)}

(* The blocks in use in g are those in use in h apart from those in gone,  *)
(* with their sizes and tags.                                              *)
SameUsed(g, h, gone) ==
  /\ Used(g) = Used(h) \ gone
  /\ \A x \in Used(g) : g[x].nSize = h[x].nSize /\ g[x].Tag = h[x].Tag

(* A free block that takes in the next, which is free, disturbs no block   *)
(* in use, and leaves no other free neighbours than its own.               *)
LEMMA JoinedFree ==
  ASSUME NEW h, Sane(h), NEW a \in DOMAIN h, IsFree(h, a),
         IsFree(h, h[a].pNext), NEW g, g = Joined(h, a)
  PROVE  /\ Sane(g) /\ a \in DOMAIN g /\ IsFree(g, a)
         /\ SameUsed(g, h, {})
         /\ FreePairs(h) \subseteq {a, h[a].pNext} => FreePairs(g) \subseteq {a}
         /\ FreePairs(h) \subseteq {a} => FreePairs(g) = {}
<1> DEFINE b == h[a].pNext
<1>1. /\ a # Main /\ b # Main /\ b \in DOMAIN h /\ b # a
      /\ h[b].pNext \in DOMAIN h
  BY NextIsAbove DEF Sane, Linked
<1>2. Sane(g) /\ IsJoined(g, h, a)
  BY <1>1, JoinedSane
<1>3. /\ DOMAIN g = DOMAIN h \ {b}
      /\ \A x \in DOMAIN g :
           /\ g[x].Tag = h[x].Tag
           /\ x # a => g[x].nSize = h[x].nSize /\ g[x].pNext = h[x].pNext
      /\ g[a].pNext = h[b].pNext
  BY <1>1, <1>2 DEF IsJoined
<1>4. SameUsed(g, h, {})
  BY <1>1, <1>3 DEF SameUsed, Used, IsFree
<1>5. \A x \in DOMAIN g : x # a => g[x].pNext # b
  <2>1. \A x \in DOMAIN h : h[x].pNext = h[a].pNext => x = a
    BY Ring DEF Sane
  <2>2. QED
    BY <1>3, <2>1
<1>6. \A x \in FreePairs(g) : x # a => x \in FreePairs(h) /\ x # b
  <2>1. \A x \in DOMAIN g : g[x].pNext \in DOMAIN g
    BY <1>2 DEF Sane, Linked
  <2>2. QED
    BY <1>3, <2>1 DEF FreePairs, IsFree
<1>7. ASSUME FreePairs(h) \subseteq {a} PROVE a \notin FreePairs(g)
  <2>1. ~IsFree(h, h[b].pNext)
    BY <1>1, <1>7 DEF FreePairs
  <2>2. g[a].pNext \in DOMAIN g
    BY <1>1, <1>2, <1>3 DEF Sane, Linked
  <2>3. QED
    BY <1>3, <2>1, <2>2 DEF FreePairs, IsFree
<1>8. QED
  BY <1>1, <1>2, <1>3, <1>4, <1>6, <1>7 DEF IsFree

(* Free gives back one block and disturbs no other in use, and joins it to *)
(* its free neighbours.                                                    *)
LEMMA FreedBlock ==
  ASSUME NEW h, Sane(h), NoFreeNeighbours(h), NEW b \in Used(h),
         NEW g, g = Freed(h, b)
  PROVE  /\ Sane(g) /\ NoFreeNeighbours(g)
         /\ SameUsed(g, h, {b})
         /\ FreeFrom(h, b) \in DOMAIN g
<1> DEFINE t == Tagged(h, b, Free)
           p == h[b].pPrevious
           f == FreeFrom(h, b)
           j == JoinedPrevious(t, b)
<1>1. /\ b \in DOMAIN h \ {Main} /\ ~IsFree(h, b)
      /\ p \in DOMAIN h /\ h[p].pNext = b /\ h[b].pNext \in DOMAIN h
      /\ p # b
  <2>1. b \in DOMAIN h \ {Main} /\ ~IsFree(h, b)
    BY DEF Used
  <2>2. p \in DOMAIN h /\ h[p].pNext = b /\ h[b].pNext \in DOMAIN h
    BY <2>1, Ring DEF Sane
  <2>3. h[p].pNext # p
    BY <2>2, NextIsAbove
  <2>4. QED
    BY <2>1, <2>2, <2>3
<1>2. /\ Sane(t) /\ Typed(t) /\ DOMAIN t = DOMAIN h
      /\ \A x \in DOMAIN h :
           /\ t[x].nSize = h[x].nSize /\ t[x].pNext = h[x].pNext
           /\ t[x].pPrevious = h[x].pPrevious
           /\ t[x].Tag = IF x = b THEN Free ELSE h[x].Tag
  BY <1>1, TaggedSane, TaggedFields DEF Sane
<1>3. SameUsed(t, h, {b})
  BY <1>2 DEF SameUsed, Used, IsFree
<1> HIDE DEF t
<1>4. FreePairs(t) \subseteq {b, p}
  <2>1. \A x \in DOMAIN h : h[x].pNext = h[p].pNext => x = p
    BY <1>1, Ring DEF Sane
  <2>2. \A x \in DOMAIN h : h[x].pNext \in DOMAIN h
    BY DEF Sane, Linked
  <2>3. \A x \in FreePairs(t) :
          x \notin {b, p} => IsFree(h, x) /\ IsFree(h, h[x].pNext)
    <3>1. ASSUME NEW x \in DOMAIN h, IsFree(t, x), IsFree(t, t[x].pNext),
                 x # b, x # p
          PROVE  IsFree(h, x) /\ IsFree(h, h[x].pNext)
      <4>1. t[x].pNext = h[x].pNext /\ h[x].pNext # b
        BY <1>1, <1>2, <2>1, <3>1
      <4>2. QED
        BY <1>2, <2>2, <3>1, <4>1 DEF IsFree
    <3>2. QED
      BY <1>2, <3>1 DEF FreePairs
  <2>4. QED
    BY <2>3, <1>2 DEF FreePairs, NoFreeNeighbours
<1>5. /\ Sane(j) /\ f \in DOMAIN j /\ IsFree(j, f)
      /\ SameUsed(j, t, {}) /\ FreePairs(j) \subseteq {f}
  <2>1. IsFree(t, p) <=> IsFree(h, p)
    BY <1>1, <1>2 DEF IsFree
  <2>2. CASE IsFree(h, p)
    <3>1. f = p /\ j = Joined(t, p)
      BY <1>1, <1>2, <2>1, <2>2 DEF FreeFrom, JoinedPrevious
    <3>2. IsFree(t, t[p].pNext) /\ t[p].pNext = b
      BY <1>1, <1>2 DEF IsFree
    <3>3. QED
      BY <1>1, <1>2, <1>4, <2>1, <2>2, <3>1, <3>2, JoinedFree
  <2>3. CASE ~IsFree(h, p)
    <3>1. f = b /\ j = t
      BY <1>1, <1>2, <2>1, <2>3 DEF FreeFrom, JoinedPrevious
    <3>2. FreePairs(t) \subseteq {b}
      BY <1>4, <2>1, <2>3 DEF FreePairs
    <3>3. SameUsed(t, t, {})
      BY DEF SameUsed
    <3>4. QED
      BY <1>1, <1>2, <3>1, <3>2, <3>3 DEF IsFree
  <2>4. QED
    BY <2>2, <2>3
<1>6. g = JoinedNext(j, f)
  BY DEF Freed, t
<1> HIDE DEF j, f
<1>7. /\ Sane(g) /\ f \in DOMAIN g /\ SameUsed(g, j, {}) /\ FreePairs(g) = {}
  <2>1. CASE IsFree(j, j[f].pNext)
    BY <1>5, <1>6, <2>1, JoinedFree DEF JoinedNext
  <2>2. CASE ~IsFree(j, j[f].pNext)
    <3>1. g = j
      BY <1>6, <2>2 DEF JoinedNext
    <3>2. FreePairs(j) = {}
      BY <1>5, <2>2 DEF FreePairs
    <3>3. QED
      BY <1>5, <3>1, <3>2 DEF SameUsed
  <2>3. QED
    BY <2>1, <2>2
<1>8. NoFreeNeighbours(g)
  BY <1>7 DEF NoFreeNeighbours, FreePairs
<1>9. SameUsed(g, h, {b})
  BY <1>3, <1>5, <1>7 DEF SameUsed
<1>10. QED
  BY <1>7, <1>8, <1>9 DEF f

----------------------------------------------------------------------------
(* Alloc and Realloc. *)

(* The blocks in use in g are those in use in h, without those in gone and *)
(* with b; the others have kept their sizes and tags.                      *)
Lends(g, h, gone, b) ==
  /\ Used(g) = (Used(h) \ gone) \cup {b}
  /\ \A x \in Used(h) \ (gone \cup {b}) :
       g[x].nSize = h[x].nSize /\ g[x].Tag = h[x].Tag

(* Header, end magic and rounding are enough for what was asked. *)
LEMMA PaddedEnough ==
  ASSUME NEW n \in Requests
  PROVE  /\ Padded(n) \in Nat /\ Padded(n) >= Header + 1
         /\ n \in Nat \ {0} /\ 16 * (Padded(n) - Header) - 4 >= n
<1>1. n \in Nat \ {0}
  BY RequestAssumption
<1>2. QED
  BY <1>1 DEF Padded, Header

(* Block b may keep n units, with a free block of the given size before    *)
(* next: where there was a free block or a part of b, and next is in use.  *)
MaySplit(h, b, n, size, next) ==
  /\ b \in DOMAIN h \ {Main}
  /\ n \in Nat /\ n >= Header + 1 /\ size \in Nat /\ size >= Header
  /\ next \in DOMAIN h /\ ~IsFree(h, next)
  /\ \/ next = h[b].pNext
     \/ IsFree(h, h[b].pNext) /\ next = h[h[b].pNext].pNext
  /\ b + n + size <= (IF next = Main THEN HeapSize ELSE next)

(* g is the list h in which b is in use with n units, and a free block     *)
(* follows it before next.                                                 *)
IsSplit(g, h, b, n, next, tag) ==
  /\ Sane(g) /\ NoFreeNeighbours(g)
  /\ Lends(g, h, {}, b)
  /\ g[b].nSize = n /\ g[b].Tag = tag
  /\ DOMAIN g = (DOMAIN h \ Gone(h, b, next)) \cup {b + n}

(* That is what Followed and Tagged make of a list. *)
LEMMA SplitBlock ==
  ASSUME NEW h, Sane(h), NoFreeNeighbours(h), NEW b, NEW n, NEW size,
         NEW next, MaySplit(h, b, n, size, next), NEW tag \in Tags
  PROVE  IsSplit(Tagged(Followed(h, b, n, size, next), b, tag),
                 h, b, n, next, tag)
<1> USE DEF MaySplit
<1> DEFINE f == Followed(h, b, n, size, next)
           g == Tagged(f, b, tag)
           gone == Gone(h, b, next)
<1>1. /\ h[b].pNext \in DOMAIN h /\ (IsFree(h, h[b].pNext) => h[b].pNext # Main)
      /\ Main \in DOMAIN h
  BY DEF Sane, Linked
<1>2. /\ Sane(f) /\ IsFollowed(f, h, b, n, size, next)
      /\ b + n \notin DOMAIN h \ gone
  BY <1>1, FollowedSane DEF Gone
<1>3. /\ DOMAIN f = (DOMAIN h \ gone) \cup {b + n}
      /\ f[b + n].pNext = next /\ f[b + n].Tag = Free
      /\ \A x \in DOMAIN f \ {b + n} :
           /\ x \in DOMAIN h
           /\ f[x].nSize = IF x = b THEN n ELSE h[x].nSize
           /\ f[x].pNext = IF x = b THEN b + n ELSE h[x].pNext
           /\ f[x].Tag = h[x].Tag
  BY <1>2 DEF IsFollowed
<1>4. \A x \in gone : x \in DOMAIN h /\ IsFree(h, x) /\ x # b /\ x # next
  <2>1. CASE next = h[b].pNext
    BY <2>1 DEF Gone
  <2>2. CASE next # h[b].pNext
    <3>1. gone = {h[b].pNext} /\ IsFree(h, h[b].pNext)
      BY <2>2 DEF Gone
    <3>2. h[b].pNext # b
      BY NextIsAbove
    <3>3. QED
      BY <1>1, <2>2, <3>1, <3>2
  <2>3. QED
    BY <2>1, <2>2
<1>5. /\ b + n # b /\ b \in DOMAIN f /\ b + n # Main
  BY <1>3, <1>4, BlockFields, HeapAssumption DEF Sane, Ordered, Header, Main
<1> HIDE DEF f, g, gone
<1>6. /\ Sane(g) /\ DOMAIN g = DOMAIN f
      /\ \A x \in DOMAIN f :
           /\ g[x].nSize = f[x].nSize /\ g[x].pNext = f[x].pNext
           /\ g[x].Tag = IF x = b THEN tag ELSE f[x].Tag
  <2>1. f[b].nSize >= Header + 1
    BY <1>3, <1>5
  <2>2. g = Tagged(f, b, tag) /\ tag \in Tags \cup {Free} /\ Typed(f)
    BY <1>2 DEF f, g, Sane
  <2>3. Sane(g)
    BY <1>2, <1>5, <2>1, <2>2, TaggedSane
  <2>4. QED
    BY <1>5, <2>2, <2>3, TaggedFields
<1>7. g[b].nSize = n /\ g[b].Tag = tag
  BY <1>3, <1>5, <1>6
<1>8. Lends(g, h, {}, b)
  <2>1. ASSUME NEW x \in DOMAIN g, x # Main, ~IsFree(g, x)
        PROVE  x \in Used(h) \cup {b}
    <3>1. x = b \/ x # b + n
      BY <1>3, <1>5, <1>6, <2>1 DEF IsFree
    <3>2. QED
      BY <1>3, <1>6, <2>1, <3>1 DEF IsFree, Used
  <2>2. ASSUME NEW x \in Used(h), x # b
        PROVE  /\ x \in Used(g)
               /\ g[x].nSize = h[x].nSize /\ g[x].Tag = h[x].Tag
    <3>1. x \in DOMAIN h \ gone
      BY <1>4, <2>2 DEF Used
    <3>2. x \in DOMAIN f \ {b + n}
      BY <3>1, <1>2, <1>3 DEF gone
    <3>3. QED
      BY <1>3, <1>6, <2>2, <3>1, <3>2 DEF IsFree, Used
  <2>3. b \in Used(g)
    BY <1>5, <1>6, <1>7, TagsInUse DEF Used, IsFree
  <2>4. QED
    BY <2>1, <2>2, <2>3 DEF Lends, Used
<1>9. NoFreeNeighbours(g)
  <2> SUFFICES ASSUME NEW x \in DOMAIN g, IsFree(g, x)
               PROVE  ~IsFree(g, g[x].pNext)
    BY DEF NoFreeNeighbours
  <2>1. x # b
    BY <1>7, TagsInUse DEF IsFree
  <2>2. CASE x = b + n
    <3>1. next \in DOMAIN h \ gone /\ next # b + n
      BY <1>2, <1>4 DEF gone
    <3>2. g[x].pNext = next /\ next \in DOMAIN f
      BY <2>2, <3>1, <1>3, <1>5, <1>6
    <3>3. g[next].Tag # Free
      BY <3>1, <3>2, <1>3, <1>6, TagsInUse DEF IsFree
    <3>4. QED
      BY <3>2, <3>3 DEF IsFree
  <2>3. CASE x # b + n
    <3>1. /\ x \in DOMAIN h /\ g[x].pNext = h[x].pNext /\ IsFree(h, x)
      BY <2>1, <2>3, <1>3, <1>6 DEF IsFree
    <3>2. ~IsFree(h, h[x].pNext)
      BY <3>1 DEF NoFreeNeighbours
    <3>3. g[x].pNext \in DOMAIN g /\ g[b].pNext = b + n
      BY <1>3, <1>5, <1>6 DEF Sane, Linked
    <3>4. g[x].pNext # b + n
      <4>1. \A c \in DOMAIN g : g[c].pNext = g[b].pNext => c = b
        BY <1>5, <1>6, Ring DEF Sane
      <4>2. QED
        BY <2>1, <3>3, <4>1
    <3>5. QED
      BY <1>3, <1>6, <3>1, <3>2, <3>3, <3>4, TagsInUse DEF IsFree
  <2>4. QED
    BY <2>2, <2>3
<1>10. QED
  BY <1>3, <1>6, <1>7, <1>8, <1>9 DEF gone, f, g, IsSplit

(* The block Alloc takes was free, and is as large as was asked. *)
LEMMA TakenBlock ==
  ASSUME Sane(heap), NoFreeNeighbours(heap), call.Tag \in Tags,
         NEW b \in DOMAIN heap, IsFree(heap, b),
         NEW n \in Nat, n >= Header + 1, heap[b].nSize >= n,
         NEW g, g = Taken(b, n)
  PROVE  /\ Sane(g) /\ NoFreeNeighbours(g)
         /\ Lends(g, heap, {}, b)
         /\ g[b].nSize >= n /\ g[b].nSize <= heap[b].nSize
         /\ g[b].Tag = call.Tag
<1> DEFINE next == heap[b].pNext
           nRemaining == heap[b].nSize - n
<1>1. /\ b \in DOMAIN heap \ {Main} /\ b \in Int /\ heap[b].nSize \in Nat
      /\ next \in DOMAIN heap /\ ~IsFree(heap, next)
      /\ b + heap[b].nSize <= (IF next = Main THEN HeapSize ELSE next)
  BY BlockFields DEF Sane, Linked, NoFreeNeighbours, Ordered, Limit
<1>2. CASE nRemaining > MinFragmentSize
  <2>1. /\ nRemaining \in Nat /\ nRemaining >= Header
        /\ b + n + nRemaining = b + heap[b].nSize
    BY <1>1, <1>2 DEF MinFragmentSize, Header
  <2>2. g = Tagged(Followed(heap, b, n, nRemaining, next), b, call.Tag)
    BY <1>2 DEF Taken
  <2>3. MaySplit(heap, b, n, nRemaining, next)
    BY <1>1, <2>1 DEF MaySplit
  <2>4. IsSplit(g, heap, b, n, next, call.Tag)
    BY <2>2, <2>3, SplitBlock
  <2>5. QED
    BY <2>4 DEF IsSplit
<1>3. CASE ~(nRemaining > MinFragmentSize)
  <2>1. g = Tagged(heap, b, call.Tag) /\ call.Tag \in Tags \cup {Free}
    BY <1>3 DEF Taken
  <2>2. Sane(g)
    <3>1. heap[b].nSize >= Header + 1
      BY <1>1 DEF Header
    <3>2. QED
      BY <1>1, <2>1, <3>1, TaggedSane
  <2>3. /\ DOMAIN g = DOMAIN heap
        /\ \A x \in DOMAIN heap :
             /\ g[x].nSize = heap[x].nSize /\ g[x].pNext = heap[x].pNext
             /\ g[x].Tag = IF x = b THEN call.Tag ELSE heap[x].Tag
    BY <1>1, <2>1, TaggedFields DEF Sane
  <2>4. Lends(g, heap, {}, b)
    BY <1>1, <2>3, TagsInUse DEF Lends, Used, IsFree
  <2>5. NoFreeNeighbours(g)
    <3> SUFFICES ASSUME NEW x \in DOMAIN g, IsFree(g, x)
                 PROVE  ~IsFree(g, g[x].pNext)
      BY DEF NoFreeNeighbours
    <3>1. /\ x \in DOMAIN heap /\ IsFree(heap, x)
          /\ g[x].pNext = heap[x].pNext
      BY <2>3, TagsInUse DEF IsFree
    <3>2. heap[x].pNext \in DOMAIN heap /\ ~IsFree(heap, heap[x].pNext)
      BY <3>1 DEF NoFreeNeighbours, Sane, Linked
    <3>3. QED
      BY <2>3, <3>1, <3>2, TagsInUse DEF IsFree
  <2>6. QED
    BY <1>1, <2>2, <2>3, <2>4, <2>5
<1>4. QED
  BY <1>2, <1>3

----------------------------------------------------------------------------
(* The invariant.  Until a header is smashed the list is in order; from    *)
(* then on no call is taken.  A call in progress is about blocks that are  *)
(* in the list: those it found, and one in use that it moves or resizes.   *)
Books ==
  /\ Typed(heap) /\ m_pCurrentBlock \in DOMAIN heap /\ m_nAllocCount \in Nat
  /\ ~smashed => /\ Sane(heap) /\ NoFreeNeighbours(heap)
                 /\ m_nAllocCount = Cardinality(Used(heap))

Registers ==
  /\ pc \in {"idle", "alloc", "found", "realloc", "freeTag"}
  /\ call \in [nSize : Requests \cup {0}, Tag : Tags \cup {Free}, pPtr : Int]
  /\ pNextBlock \in Int /\ pCandidateBlock \in Int /\ pBlock \in Int
  /\ lost \in Nat
  /\ smashed \in BOOLEAN

CallInv ==
  /\ smashed => pc = "idle"
  /\ pc # "idle" => call.Tag \in Tags
  /\ pc \in {"alloc", "found"} =>
       /\ call.nSize \in Requests
       /\ {pNextBlock, pCandidateBlock} \subseteq DOMAIN heap
       /\ call.pPtr \in Used(heap) \cup {Nil}
  /\ pc = "found" => Candidate(pCandidateBlock)
  /\ pc = "realloc" => call.nSize \in Requests /\ call.pPtr \in Used(heap)
  /\ pc = "freeTag" => pBlock \in DOMAIN heap \ {Main}

IInv == Books /\ Registers /\ CallInv

(* The blocks in use, in the words of the program. *)
LEMMA InUseIsUsed == InUse = Used(heap) /\ InUse' = Used(heap')
  BY DEF InUse, Used

(* The invariant says what ZoneInv says, and more. *)
LEMMA InvariantImplies == IInv => ZoneInv
  BY InUseIsUsed DEF IInv, Books, Registers, ZoneInv, TypeOK, Typed, Sane

(* Only finitely many blocks are in use. *)
LEMMA UsedFinite ==
  ASSUME NEW h, Typed(h)
  PROVE  /\ IsFiniteSet(Used(h)) /\ Cardinality(Used(h)) \in Nat
         /\ \A b \in Used(h) :
              /\ Cardinality(Used(h) \ {b}) = Cardinality(Used(h)) - 1
              /\ Cardinality(Used(h)) >= 1
         /\ \A b : b \notin Used(h) =>
              Cardinality(Used(h) \cup {b}) = Cardinality(Used(h)) + 1
<1>1. IsFiniteSet(0..HeapSize)
  BY HeapAssumption, FS_Interval
<1>2. Used(h) \in SUBSET (0..HeapSize)
  BY DEF Used, Typed
<1>3. IsFiniteSet(Used(h))
  BY <1>1, <1>2, FS_Subset
<1>4. Cardinality(Used(h)) \in Nat
  BY <1>3, FS_CardinalityType
<1>5. ASSUME NEW b \in Used(h)
      PROVE  /\ Cardinality(Used(h) \ {b}) = Cardinality(Used(h)) - 1
             /\ Cardinality(Used(h)) >= 1
  <2>1. Cardinality(Used(h) \ {b}) = Cardinality(Used(h)) - 1
    BY <1>3, FS_RemoveElement
  <2>2. Cardinality(Used(h)) # 0
    BY <1>3, FS_EmptySet
  <2>3. QED
    BY <1>4, <2>1, <2>2
<1>6. \A b : b \notin Used(h) =>
        Cardinality(Used(h) \cup {b}) = Cardinality(Used(h)) + 1
  <2>1. ASSUME NEW b, b \notin Used(h)
        PROVE  Cardinality(Used(h) \cup {b}) = Cardinality(Used(h)) + 1
    BY <1>3, <2>1, FS_AddElement
  <2>2. QED
    BY <2>1
<1>7. QED
  BY <1>3, <1>4, <1>5, <1>6

(* The block of a FreePtr, or of a turn of FreeTag, is given back. *)
LEMMA FreeBlockEffect ==
  ASSUME IInv, ~smashed, NEW b \in Used(heap), FreeBlock(b),
         UNCHANGED smashed
  PROVE  Books' /\ SameUsed(heap', heap, {b})
<1>1. Sane(heap) /\ NoFreeNeighbours(heap)
      /\ m_nAllocCount = Cardinality(Used(heap))
  BY DEF IInv, Books
<1>2. /\ Sane(heap') /\ NoFreeNeighbours(heap')
      /\ SameUsed(heap', heap, {b}) /\ FreeFrom(heap, b) \in DOMAIN heap'
  BY <1>1, FreedBlock DEF FreeBlock
<1>3. m_pCurrentBlock' \in DOMAIN heap'
  BY <1>2 DEF FreeBlock, CurrentFreed
<1>4. /\ m_nAllocCount' \in Nat
      /\ m_nAllocCount' = Cardinality(Used(heap'))
  <2>1. Used(heap') = Used(heap) \ {b}
    BY <1>2 DEF SameUsed
  <2>2. /\ Cardinality(Used(heap) \ {b}) = m_nAllocCount - 1
        /\ m_nAllocCount \in Nat /\ m_nAllocCount >= 1
    BY <1>1, UsedFinite DEF Sane
  <2>3. QED
    BY <2>1, <2>2 DEF FreeBlock
<1>5. QED
  BY <1>2, <1>3, <1>4 DEF Books, Sane

(* What Alloc takes, and what a Realloc that called it gives back. *)
LEMMA AllocTakesEffect ==
  ASSUME IInv, AllocTakes, NEW gone,
         gone = IF call.pPtr = Nil THEN {} ELSE {call.pPtr}
  PROVE  /\ Books' /\ call.nSize \in Requests /\ call.Tag \in Tags
         /\ gone \subseteq Used(heap)
         /\ pCandidateBlock \notin Used(heap)
         /\ pCandidateBlock \in Used(heap')
         /\ Lends(heap', heap, gone, pCandidateBlock)
         /\ heap'[pCandidateBlock].nSize >= Padded(call.nSize)
         /\ heap'[pCandidateBlock].nSize <= heap[pCandidateBlock].nSize
         /\ heap'[pCandidateBlock].Tag = call.Tag
         /\ pCandidateBlock \in DOMAIN heap \ {Main} /\ Sane(heap)
<1> DEFINE b == pCandidateBlock
           n == Padded(call.nSize)
           h == Taken(b, n)
           current == h[b].pNext
<1>1. /\ pc = "found" /\ ~smashed /\ ~smashed'
      /\ call.nSize \in Requests /\ call.Tag \in Tags
      /\ gone \subseteq Used(heap) /\ b \in DOMAIN heap
      /\ IsFree(heap, b) /\ heap[b].nSize >= n
      /\ Sane(heap) /\ NoFreeNeighbours(heap) /\ b # Main
      /\ m_nAllocCount = Cardinality(Used(heap)) /\ m_nAllocCount \in Nat
  BY DEF AllocTakes, IInv, Books, CallInv, Candidate, Sane, Linked
<1>2. n \in Nat /\ n >= Header + 1
  BY <1>1, PaddedEnough
<1>3. b \notin Used(heap)
  BY <1>1 DEF Used
<1> HIDE DEF n
<1>4. /\ Sane(h) /\ NoFreeNeighbours(h) /\ Lends(h, heap, {}, b)
      /\ h[b].nSize >= n /\ h[b].nSize <= heap[b].nSize /\ h[b].Tag = call.Tag
  BY <1>1, <1>2, TakenBlock
<1> HIDE DEF h
<1>5. /\ b \in Used(h) /\ h[b].pNext \in DOMAIN h
      /\ Cardinality(Used(h)) = m_nAllocCount + 1
  <2>1. b \in Used(h) /\ Used(h) = Used(heap) \cup {b}
    BY <1>4 DEF Lends
  <2>2. h[b].pNext \in DOMAIN h
    BY <1>4, <2>1, NextIsAbove DEF Used
  <2>3. Cardinality(Used(heap) \cup {b}) = m_nAllocCount + 1
    BY <1>1, <1>3, UsedFinite DEF Sane
  <2>4. QED
    BY <2>1, <2>2, <2>3
<1>6. CASE call.pPtr = Nil
  <2>1. /\ heap' = h /\ m_pCurrentBlock' = current
        /\ m_nAllocCount' = m_nAllocCount + 1
    BY <1>6 DEF AllocTakes, h, n
  <2>2. Books'
    BY <1>1, <1>4, <1>5, <2>1 DEF Books, Sane
  <2>3. QED
    BY <1>1, <1>3, <1>4, <1>5, <1>6, <2>1, <2>2 DEF n
<1>7. CASE call.pPtr # Nil
  <2> DEFINE p == call.pPtr
  <2>1. /\ heap' = Freed(h, p) /\ m_pCurrentBlock' = CurrentFreed(h, p, current)
        /\ m_nAllocCount' = m_nAllocCount
    BY <1>7 DEF AllocTakes, h, n
  <2>2. gone = {p} /\ p \in Used(heap) /\ p \in Used(h) /\ p # b
    BY <1>1, <1>3, <1>4, <1>7 DEF Lends
  <2>3. /\ Sane(heap') /\ NoFreeNeighbours(heap')
        /\ SameUsed(heap', h, {p}) /\ FreeFrom(h, p) \in DOMAIN heap'
    BY <1>4, <2>1, <2>2, FreedBlock
  <2>4. m_pCurrentBlock' \in DOMAIN heap'
    BY <2>1, <2>3 DEF CurrentFreed
  <2>5. m_nAllocCount = Cardinality(Used(heap'))
    <3>1. Used(heap') = Used(h) \ {p}
      BY <2>3 DEF SameUsed
    <3>2. Cardinality(Used(h) \ {p}) = Cardinality(Used(h)) - 1
      BY <1>4, <2>2, UsedFinite DEF Sane
    <3>3. QED
      BY <1>1, <1>5, <3>1, <3>2
  <2>6. Books'
    BY <1>1, <2>1, <2>3, <2>4, <2>5 DEF Books, Sane
  <2>7. Lends(heap', heap, gone, b) /\ b \in Used(heap')
    BY <1>4, <1>5, <2>2, <2>3 DEF Lends, SameUsed
  <2>8. /\ heap'[b].nSize >= n /\ heap'[b].nSize <= heap[b].nSize
        /\ heap'[b].Tag = call.Tag
    BY <1>4, <2>3, <2>7 DEF SameUsed
  <2>9. QED
    BY <1>1, <1>3, <2>6, <2>7, <2>8 DEF n
<1>8. QED
  BY <1>6, <1>7

(* What the invariant says of a block that is about to be resized. *)
LEMMA ReallocBlock ==
  ASSUME IInv, pc = "realloc", NEW b, b = call.pPtr,
         NEW next, next = heap[b].pNext
  PROVE  /\ ~smashed /\ Sane(heap) /\ NoFreeNeighbours(heap)
         /\ m_nAllocCount = Cardinality(Used(heap))
         /\ call.nSize \in Requests /\ call.Tag \in Tags
         /\ b \in Used(heap) /\ b \in DOMAIN heap \ {Main} /\ b \in Int
         /\ ~IsFree(heap, b)
         /\ heap[b].nSize \in Nat /\ heap[b].nSize >= Header + 1
         /\ next \in DOMAIN heap /\ next # b
         /\ b + heap[b].nSize <= (IF next = Main THEN HeapSize ELSE next)
<1>1. /\ ~smashed /\ Sane(heap) /\ NoFreeNeighbours(heap)
      /\ m_nAllocCount = Cardinality(Used(heap))
      /\ call.nSize \in Requests /\ call.Tag \in Tags /\ b \in Used(heap)
  BY DEF IInv, Books, CallInv
<1>2. b \in DOMAIN heap \ {Main} /\ ~IsFree(heap, b)
  BY <1>1 DEF Used
<1>3. b \in Int /\ heap[b].nSize \in Nat /\ next \in DOMAIN heap /\ next # b
  BY <1>1, <1>2, BlockFields, NextIsAbove DEF Sane
<1>4. /\ heap[b].nSize >= Header + 1
      /\ b + heap[b].nSize <= (IF next = Main THEN HeapSize ELSE next)
  BY <1>1, <1>2 DEF Sane, Ordered, Limit
<1>5. QED
  BY <1>1, <1>2, <1>3, <1>4

(* A split of a block in use keeps the books: their blocks are the same.   *)
LEMMA SplitKeepsBooks ==
  ASSUME IInv, ~smashed, NEW b \in Used(heap), NEW n, NEW size, NEW next,
         MaySplit(heap, b, n, size, next), call.Tag \in Tags,
         heap' = Tagged(Followed(heap, b, n, size, next), b, call.Tag),
         m_pCurrentBlock' = CurrentMoved(b, b + n), UNCHANGED m_nAllocCount
  PROVE  /\ Books' /\ Lends(heap', heap, {}, b)
         /\ heap'[b].nSize = n /\ heap'[b].Tag = call.Tag
<1>1. /\ Sane(heap) /\ NoFreeNeighbours(heap) /\ m_pCurrentBlock \in DOMAIN heap
      /\ m_nAllocCount = Cardinality(Used(heap)) /\ m_nAllocCount \in Nat
  BY DEF IInv, Books
<1>2. IsSplit(heap', heap, b, n, next, call.Tag)
  BY <1>1, SplitBlock
<1>3. /\ Sane(heap') /\ NoFreeNeighbours(heap') /\ Lends(heap', heap, {}, b)
      /\ heap'[b].nSize = n /\ heap'[b].Tag = call.Tag
      /\ DOMAIN heap' = (DOMAIN heap \ Gone(heap, b, next)) \cup {b + n}
  BY <1>2 DEF IsSplit
<1>4. Used(heap') = Used(heap)
  BY <1>3 DEF Lends
<1>5. m_pCurrentBlock' \in DOMAIN heap'
  BY <1>1, <1>3 DEF CurrentMoved, Gone
<1>6. QED
  BY <1>1, <1>3, <1>4, <1>5 DEF Books, Sane

(* Realloc in place leaves the other blocks alone, and its own in use, as  *)
(* large as was asked, unless it smashes a header.                         *)
LEMMA ReallocGrowsEffect ==
  ASSUME IInv, ReallocGrows
  PROVE  /\ Books'
         /\ ~smashed' => /\ Lends(heap', heap, {}, call.pPtr)
                         /\ heap'[call.pPtr].nSize = Padded(call.nSize)
                         /\ heap'[call.pPtr].Tag = call.Tag
<1> DEFINE b == call.pPtr
           n == Padded(call.nSize)
           next == heap[b].pNext
           last == heap[next].pNext
           rest == heap[next].nSize - (n - heap[b].nSize)
<1>1. /\ ~smashed /\ Sane(heap) /\ NoFreeNeighbours(heap)
      /\ m_nAllocCount = Cardinality(Used(heap))
      /\ call.nSize \in Requests /\ call.Tag \in Tags
      /\ b \in Used(heap) /\ b \in DOMAIN heap \ {Main} /\ b \in Int
      /\ heap[b].nSize \in Nat /\ heap[b].nSize >= Header + 1
      /\ next \in DOMAIN heap /\ next # b
      /\ b + heap[b].nSize <= (IF next = Main THEN HeapSize ELSE next)
  BY ReallocBlock DEF ReallocGrows
<1>2. n \in Nat /\ n >= Header + 1
  BY <1>1, PaddedEnough
<1>3. /\ n > heap[b].nSize /\ IsFree(heap, next)
      /\ heap[next].nSize >= n - heap[b].nSize
      /\ heap' = Tagged(Followed(heap, b, n, rest, last), b, call.Tag)
      /\ m_pCurrentBlock' = CurrentMoved(b, b + n)
      /\ smashed' = (rest < Header)
      /\ UNCHANGED m_nAllocCount
  BY DEF ReallocGrows, CanGrow
<1>4. /\ next # Main /\ next \in Int /\ heap[next].nSize \in Nat
      /\ last \in DOMAIN heap /\ ~IsFree(heap, last)
      /\ next + heap[next].nSize <= (IF last = Main THEN HeapSize ELSE last)
      /\ last # b /\ (last # Main => last <= HeapSize - 1)
  <2>1. next # Main /\ next \in Int /\ heap[next].nSize \in Nat
    BY <1>1, <1>3, BlockFields DEF Sane, Linked
  <2>2. /\ last \in DOMAIN heap /\ (last # Main => last > next)
        /\ next > b
    BY <1>1, <2>1, NextIsAbove
  <2>3. last \in Int /\ b # Main /\ (last # Main => last <= HeapSize - 1)
    BY <1>1, <2>2, BlockFields, HeapAssumption DEF Sane, Ordered
  <2>4. /\ ~IsFree(heap, last)
        /\ next + heap[next].nSize <= (IF last = Main THEN HeapSize ELSE last)
    BY <1>1, <1>3, <2>1 DEF NoFreeNeighbours, Sane, Ordered, Limit
  <2>5. QED
    BY <1>1, <2>1, <2>2, <2>3, <2>4
<1>5. /\ rest \in Nat
      /\ b + n + rest <= next + heap[next].nSize
  BY <1>1, <1>2, <1>3, <1>4
<1>6. b + n + rest <= (IF last = Main THEN HeapSize ELSE last)
  <2>1. CASE last = Main
    BY <1>1, <1>2, <1>4, <1>5, <2>1, HeapAssumption
  <2>2. CASE last # Main
    <3>1. last \in Int /\ next + heap[next].nSize <= last
      BY <1>1, <1>4, <2>2, BlockFields DEF Sane
    <3>2. QED
      BY <1>1, <1>2, <1>4, <1>5, <2>2, <3>1
  <2>3. QED
    BY <2>1, <2>2
<1> HIDE DEF n, rest
<1>7. CASE rest < Header
  <2>1. b + n \in 0..HeapSize /\ n > 0 /\ last \in Int
    <3>1. last \in Int /\ b >= 0 /\ n > 0
      BY <1>1, <1>2, <1>4, BlockFields, HeapAssumption DEF Sane, Ordered, Header
    <3>2. b + n + rest <= HeapSize
      BY <1>1, <1>2, <1>4, <1>5, <1>6, <3>1, HeapAssumption
    <3>3. QED
      BY <3>1, <3>2, <1>1, <1>2, <1>5, HeapAssumption
  <2>2. IsFollowed(Followed(heap, b, n, rest, last), heap, b, n, rest, last)
    BY <1>1, <1>2, <1>4, <1>5, <2>1, FollowedFields DEF Sane
  <2>3. /\ Typed(Followed(heap, b, n, rest, last))
        /\ DOMAIN Followed(heap, b, n, rest, last) =
             (DOMAIN heap \ Gone(heap, b, last)) \cup {b + n}
    BY <2>2 DEF IsFollowed
  <2>4. b \in DOMAIN Followed(heap, b, n, rest, last)
    BY <1>1, <2>3 DEF Gone
  <2>5. /\ Typed(heap')
        /\ DOMAIN heap' = (DOMAIN heap \ Gone(heap, b, last)) \cup {b + n}
    <3> DEFINE f == Followed(heap, b, n, rest, last)
    <3>1. heap' = Tagged(f, b, call.Tag) /\ call.Tag \in Tags \cup {Free}
      BY <1>1, <1>3
    <3>2. Typed(f) /\ b \in DOMAIN f
      BY <2>3, <2>4
    <3> HIDE DEF f
    <3>3. Typed(heap') /\ DOMAIN heap' = DOMAIN f
      BY <3>1, <3>2, TaggedFields
    <3>4. QED
      BY <2>3, <3>3 DEF f
  <2>6. m_pCurrentBlock' \in DOMAIN heap'
    BY <1>3, <2>5 DEF IInv, Books, CurrentMoved, Gone
  <2>7. QED
    BY <1>3, <1>7, <2>5, <2>6 DEF IInv, Books
<1>8. CASE ~(rest < Header)
  <2>1. MaySplit(heap, b, n, rest, last)
    BY <1>1, <1>2, <1>3, <1>4, <1>5, <1>6, <1>8 DEF MaySplit, Header
  <2>2. QED
    BY <1>1, <1>3, <2>1, SplitKeepsBooks DEF n
<1>9. QED
  BY <1>7, <1>8

(* So does a Realloc that shrinks its block and splits the rest off. *)
LEMMA ReallocShrinksEffect ==
  ASSUME IInv, ReallocShrinks
  PROVE  /\ Books' /\ Lends(heap', heap, {}, call.pPtr)
         /\ heap'[call.pPtr].nSize = Padded(call.nSize)
         /\ heap'[call.pPtr].Tag = call.Tag
<1> DEFINE b == call.pPtr
           n == Padded(call.nSize)
           nRemain == heap[b].nSize - n
           next == heap[b].pNext
<1>1. /\ ~smashed /\ Sane(heap) /\ NoFreeNeighbours(heap)
      /\ m_nAllocCount = Cardinality(Used(heap))
      /\ call.nSize \in Requests /\ call.Tag \in Tags
      /\ b \in Used(heap) /\ b \in DOMAIN heap \ {Main} /\ b \in Int
      /\ heap[b].nSize \in Nat /\ heap[b].nSize >= Header + 1
      /\ next \in DOMAIN heap /\ next # b
      /\ b + heap[b].nSize <= (IF next = Main THEN HeapSize ELSE next)
  BY ReallocBlock DEF ReallocShrinks
<1>2. n \in Nat /\ n >= Header + 1
  BY <1>1, PaddedEnough
<1>3. nRemain \in Nat /\ nRemain >= Header /\ n + nRemain = heap[b].nSize
  BY <1>1, <1>2 DEF ReallocShrinks, MinFragmentSize, Header
<1> HIDE DEF n
<1>4. CASE IsFree(heap, next)
  <2> DEFINE last == heap[next].pNext
             size == heap[next].nSize + nRemain
  <2>1. next # Main /\ next \in Int /\ heap[next].nSize \in Nat
    BY <1>1, <1>4, BlockFields DEF Sane, Linked
  <2>2. /\ last \in DOMAIN heap /\ ~IsFree(heap, last)
        /\ next + heap[next].nSize <= (IF last = Main THEN HeapSize ELSE last)
    BY <1>1, <1>4, <2>1 DEF NoFreeNeighbours, Sane, Linked, Ordered, Limit
  <2>3. size \in Nat /\ size >= Header /\ b + n + size <= next + heap[next].nSize
    BY <1>1, <1>2, <1>3, <2>1 DEF Header
  <2>4. last \in Int
    BY <1>1, <2>2, BlockFields DEF Sane
  <2>5. b + n + size <= (IF last = Main THEN HeapSize ELSE last)
    BY <1>1, <1>2, <2>1, <2>2, <2>3, <2>4, HeapAssumption
  <2>6. /\ heap' = Tagged(Followed(heap, b, n, size, last), b, call.Tag)
        /\ m_pCurrentBlock' = CurrentMoved(b, b + n)
        /\ UNCHANGED m_nAllocCount
    BY <1>4 DEF ReallocShrinks, n
  <2> HIDE DEF size, last
  <2>7. MaySplit(heap, b, n, size, last)
    BY <1>1, <1>2, <1>4, <2>2, <2>3, <2>5 DEF MaySplit, last
  <2>8. QED
    BY <1>1, <2>6, <2>7, SplitKeepsBooks DEF n
<1>5. CASE ~IsFree(heap, next)
  <2>1. b + n + nRemain <= (IF next = Main THEN HeapSize ELSE next)
    BY <1>1, <1>2, <1>3
  <2>2. /\ heap' = Tagged(Followed(heap, b, n, nRemain, next), b, call.Tag)
        /\ m_pCurrentBlock' = CurrentMoved(b, b + n)
        /\ UNCHANGED m_nAllocCount
    BY <1>5 DEF ReallocShrinks, n
  <2> HIDE DEF nRemain
  <2>3. MaySplit(heap, b, n, nRemain, next)
    BY <1>1, <1>2, <1>3, <1>5, <2>1 DEF MaySplit
  <2>4. QED
    BY <1>1, <2>2, <2>3, SplitKeepsBooks DEF n
<1>6. QED
  BY <1>4, <1>5

(* And one that leaves the block as it is, or cuts off too little for one. *)
LEMMA ReallocKeepsEffect ==
  ASSUME IInv, ReallocKeeps
  PROVE  /\ Books' /\ Lends(heap', heap, {}, call.pPtr)
         /\ heap'[call.pPtr].nSize = Padded(call.nSize)
         /\ heap'[call.pPtr].Tag = call.Tag
         /\ lost' \in Nat /\ call.pPtr \in Used(heap)
<1> DEFINE b == call.pPtr
           n == Padded(call.nSize)
           nRemain == heap[b].nSize - n
<1>1. /\ ~smashed /\ Sane(heap) /\ NoFreeNeighbours(heap)
      /\ m_nAllocCount = Cardinality(Used(heap))
      /\ call.nSize \in Requests /\ call.Tag \in Tags
      /\ b \in Used(heap) /\ b \in DOMAIN heap \ {Main} /\ b \in Int
      /\ heap[b].nSize \in Nat /\ heap[b].nSize >= Header + 1
  BY ReallocBlock DEF ReallocKeeps
<1>2. n \in Nat /\ n >= Header + 1
  BY <1>1, PaddedEnough
<1>3. nRemain \in Nat /\ heap[b].nSize - nRemain = n
  BY <1>1, <1>2 DEF ReallocKeeps, MinFragmentSize
<1>4. /\ heap' = [heap EXCEPT ![b].Tag = call.Tag, ![b].nSize = @ - nRemain]
      /\ UNCHANGED <<m_pCurrentBlock, m_nAllocCount, smashed>>
      /\ lost' = lost + nRemain
  BY DEF ReallocKeeps
<1> HIDE DEF n
<1>5. /\ DOMAIN heap' = DOMAIN heap /\ Typed(heap')
      /\ heap'[b].nSize = n /\ heap'[b].Tag = call.Tag
      /\ \A x \in DOMAIN heap :
           /\ heap'[x].pNext = heap[x].pNext
           /\ heap'[x].pPrevious = heap[x].pPrevious
           /\ x # b => heap'[x].nSize = heap[x].nSize
                       /\ heap'[x].Tag = heap[x].Tag
  <2>1. Typed(heap) /\ heap[b] \in Block
    BY <1>1 DEF Sane, Typed
  <2> DEFINE r == [heap[b] EXCEPT !.Tag = call.Tag, !.nSize = n]
  <2>2. /\ r \in Block /\ r.nSize = n /\ r.Tag = call.Tag
        /\ r.pNext = heap[b].pNext /\ r.pPrevious = heap[b].pPrevious
    BY <1>1, <1>2, <2>1 DEF Block
  <2>3. /\ DOMAIN heap' = DOMAIN heap
        /\ heap' = [x \in DOMAIN heap |-> heap'[x]]
        /\ \A x \in DOMAIN heap : x # b => heap'[x] = heap[x]
    BY <1>4, <2>1 DEF Typed
  <2>4. heap'[b] = r
    BY <1>1, <1>3, <1>4, <2>1 DEF Typed, Block
  <2> HIDE DEF r
  <2>5. \A x \in DOMAIN heap : heap'[x] \in Block
    BY <2>1, <2>2, <2>3, <2>4 DEF Typed
  <2>6. Typed(heap')
    BY <2>1, <2>3, <2>5 DEF Typed
  <2>7. QED
    BY <2>2, <2>3, <2>4, <2>6
<1>6. Linked(heap')
  <2>1. /\ {Main, 0} \subseteq DOMAIN heap /\ heap[Main].pNext = 0
        /\ heap[0].pPrevious = Main /\ ~IsFree(heap, Main)
    BY <1>1 DEF Sane, Linked
  <2>2. ASSUME NEW x \in DOMAIN heap
        PROVE  /\ heap'[x].pNext \in DOMAIN heap
               /\ heap'[x].pPrevious \in DOMAIN heap
               /\ heap'[heap'[x].pNext].pPrevious = x
               /\ heap'[heap'[x].pPrevious].pNext = x
    <3>1. /\ heap[x].pNext \in DOMAIN heap /\ heap[x].pPrevious \in DOMAIN heap
          /\ heap[heap[x].pNext].pPrevious = x
          /\ heap[heap[x].pPrevious].pNext = x
      BY <1>1 DEF Sane, Linked
    <3>2. QED
      BY <1>5, <3>1
  <2>3. QED
    BY <1>1, <1>5, <2>1, <2>2 DEF Linked, IsFree
<1>7. Ordered(heap')
  <2> SUFFICES ASSUME NEW x \in DOMAIN heap \ {Main}
               PROVE  /\ x \in 0..(HeapSize - 1)
                      /\ heap'[x].nSize >= (IF IsFree(heap', x) THEN Header
                                                            ELSE Header + 1)
                      /\ x + heap'[x].nSize <= Limit(heap', x)
                      /\ \A c \in DOMAIN heap : c > x => c >= Limit(heap', x)
    BY <1>5 DEF Ordered
  <2>1. /\ x \in 0..(HeapSize - 1) /\ x \in Int /\ heap[x].nSize \in Nat
        /\ heap[x].nSize >= (IF IsFree(heap, x) THEN Header ELSE Header + 1)
        /\ x + heap[x].nSize <= Limit(heap, x)
        /\ \A c \in DOMAIN heap : c > x => c >= Limit(heap, x)
    BY <1>1, BlockFields, HeapAssumption DEF Sane, Ordered
  <2>2. Limit(heap', x) = Limit(heap, x) /\ Limit(heap, x) \in Int
    BY <1>1, <1>5, BlockFields, HeapAssumption DEF Limit, Sane
  <2>3. CASE x = b
    <3>1. heap'[x].nSize = n /\ n <= heap[x].nSize
      BY <2>3, <1>1, <1>2, <1>3, <1>5
    <3>2. x + n <= Limit(heap', x) /\ n >= Header
      BY <1>2, <2>1, <2>2, <3>1 DEF Header
    <3>3. QED
      BY <1>2, <2>1, <2>2, <3>1, <3>2
  <2>4. CASE x # b
    BY <2>1, <2>2, <2>4, <1>5 DEF IsFree
  <2>5. QED
    BY <2>3, <2>4
<1>8. \A x \in DOMAIN heap : IsFree(heap', x) <=> IsFree(heap, x)
  BY <1>1, <1>5, TagsInUse DEF IsFree, Used
<1>9. NoFreeNeighbours(heap')
  <2>1. \A x \in DOMAIN heap : heap[x].pNext \in DOMAIN heap
    BY <1>1 DEF Sane, Linked
  <2>2. QED
    BY <1>1, <1>5, <1>8, <2>1 DEF NoFreeNeighbours
<1>10. Used(heap') = Used(heap)
  BY <1>5, <1>8 DEF Used
<1>11. Lends(heap', heap, {}, b)
  BY <1>1, <1>5, <1>10 DEF Lends, Used
<1>12. Books'
  BY <1>1, <1>4, <1>5, <1>6, <1>7, <1>9, <1>10 DEF Books, Sane, IInv
<1>13. QED
  BY <1>1, <1>3, <1>4, <1>5, <1>11, <1>12 DEF IInv, Registers, n

(* Where FreeTag's walk goes on is a block still, though the next one may  *)
(* have been taken in by the one just freed.                               *)
LEMMA FreeTagTurnEffect ==
  ASSUME IInv, FreeTagTurn
  PROVE  /\ Books' /\ CallInv' /\ Registers'
         /\ \/ heap[pBlock].Tag = call.Tag /\ pBlock \in Used(heap)
               /\ SameUsed(heap', heap, {pBlock})
            \/ UNCHANGED heap
<1> DEFINE next == heap[pBlock].pNext
           to == IF next \in DOMAIN heap' THEN next ELSE heap[next].pNext
<1>1. /\ pc = "freeTag" /\ ~smashed /\ call.Tag \in Tags
      /\ pBlock \in DOMAIN heap \ {Main}
      /\ Sane(heap) /\ NoFreeNeighbours(heap)
      /\ UNCHANGED <<search, lost, smashed>>
  BY DEF FreeTagTurn, IInv, Books, CallInv
<1>2. /\ Books'
      /\ \/ heap[pBlock].Tag = call.Tag /\ pBlock \in Used(heap)
            /\ SameUsed(heap', heap, {pBlock})
         \/ UNCHANGED heap
  <2>1. CASE heap[pBlock].Tag = call.Tag
    <3>1. pBlock \in Used(heap) /\ FreeBlock(pBlock)
      BY <1>1, <2>1, TagsInUse DEF FreeTagTurn, Used, IsFree
    <3>2. QED
      BY <1>1, <2>1, <3>1, FreeBlockEffect
  <2>2. CASE heap[pBlock].Tag # call.Tag
    <3>1. UNCHANGED <<heap, m_pCurrentBlock, m_nAllocCount>>
      BY <2>2 DEF FreeTagTurn
    <3>2. QED
      BY <1>1, <3>1 DEF Books, IInv
  <2>3. QED
    BY <2>1, <2>2
<1>3. to \in DOMAIN heap'
  <2>1. next \in DOMAIN heap /\ next # pBlock
    BY <1>1, NextIsAbove
  <2>2. CASE next \in DOMAIN heap'
    BY <2>2
  <2>3. CASE next \notin DOMAIN heap'
    <3>1. SameUsed(heap', heap, {pBlock})
      BY <1>2, <2>1, <2>3
    <3>2. Used(heap) \ {pBlock} \subseteq DOMAIN heap' /\ Main \in DOMAIN heap'
      BY <1>1, <1>2, <3>1 DEF SameUsed, Used, Books, Sane, Linked
    <3>3. IsFree(heap, next) /\ next # Main
      BY <2>1, <2>3, <3>2 DEF Used
    <3>4. /\ heap[next].pNext \in DOMAIN heap /\ ~IsFree(heap, heap[next].pNext)
          /\ heap[next].pNext # Main => heap[next].pNext > next
          /\ next > pBlock
      BY <1>1, <2>1, <3>3, NextIsAbove DEF NoFreeNeighbours
    <3>5. heap[next].pNext # pBlock
      BY <1>1, <2>1, <3>4, BlockFields DEF Sane
    <3>6. QED
      BY <2>3, <3>2, <3>4, <3>5 DEF Used
  <2>4. QED
    BY <2>2, <2>3
<1>4. \/ to = Main /\ pc' = "idle" /\ call' = NoCall /\ pBlock' = Nil
      \/ to # Main /\ pBlock' = to /\ UNCHANGED <<pc, call>>
  BY DEF FreeTagTurn, Return
<1>5. Registers'
  <2>1. to \in Int
    BY <1>2, <1>3, BlockFields DEF Books
  <2>2. QED
    BY <1>1, <1>4, <2>1 DEF IInv, Registers, NoCall, Nil, search
<1>6. CallInv'
  BY <1>1, <1>3, <1>4 DEF IInv, CallInv, NoCall
<1>7. QED
  BY <1>2, <1>5, <1>6

(* The heap starts as one free block. *)
LEMMA ZoneStarts == Init => IInv
<1> SUFFICES ASSUME Init PROVE IInv
  OBVIOUS
<1>1. /\ heap = Clear /\ m_pCurrentBlock = 0 /\ m_nAllocCount = 0
      /\ pc = "idle" /\ call = NoCall /\ smashed = FALSE
  BY DEF Init
<1>2. /\ DOMAIN heap = {-1, 0} /\ Main = -1
      /\ heap = [b \in DOMAIN heap |-> heap[b]]
      /\ heap[-1] = [nSize |-> 0, pNext |-> 0, pPrevious |-> 0,
                     Tag |-> Uncategorized]
      /\ heap[0] = [nSize |-> HeapSize, pNext |-> -1, pPrevious |-> -1,
                    Tag |-> Free]
  BY <1>1 DEF Clear, Main
<1>3. heap[-1] \in Block /\ heap[0] \in Block
  BY <1>2, HeapAssumption DEF Block, Tags
<1>4. Typed(heap)
  BY <1>2, <1>3, HeapAssumption DEF Typed
<1>5. ~IsFree(heap, -1) /\ IsFree(heap, 0)
  BY <1>2, TagAssumption DEF IsFree
<1>6. Linked(heap)
  BY <1>2, <1>5 DEF Linked
<1>7. Ordered(heap)
  BY <1>2, <1>5, HeapAssumption DEF Ordered, Limit, Header
<1>8. NoFreeNeighbours(heap)
  BY <1>2, <1>5 DEF NoFreeNeighbours
<1>9. Used(heap) = {}
  BY <1>2, <1>5 DEF Used
<1>10. Books
  BY <1>1, <1>2, <1>4, <1>6, <1>7, <1>8, <1>9, FS_EmptySet DEF Books, Sane
<1>11. Registers /\ CallInv
  <2>1. /\ pNextBlock = -2 /\ pCandidateBlock = -2 /\ pBlock = -2 /\ lost = 0
        /\ call = [nSize |-> 0, Tag |-> Free, pPtr |-> -2]
    BY <1>1 DEF Init, NoCall, Nil
  <2>2. Registers
    <3>1. call \in [nSize : Requests \cup {0}, Tag : Tags \cup {Free}, pPtr : Int]
      BY <2>1
    <3>2. /\ pc \in {"idle", "alloc", "found", "realloc", "freeTag"}
          /\ smashed \in BOOLEAN
      BY <1>1
    <3>3. QED
      BY <2>1, <3>1, <3>2 DEF Registers
  <2>3. CallInv
    BY <1>1 DEF CallInv
  <2>4. QED
    BY <2>2, <2>3
<1>12. QED
  BY <1>10, <1>11 DEF IInv

(* Alloc's and Realloc's calls and the turns of the search leave the list  *)
(* alone.                                                                  *)
LEMMA CallsKeepInvariant ==
  ASSUME IInv, Alloc \/ Realloc \/ FreeTag \/ ReallocMoves \/ SearchFails
  PROVE  IInv'
<1>1. /\ UNCHANGED <<heap, m_pCurrentBlock, m_nAllocCount, lost, smashed>>
      /\ ~smashed
  BY DEF Alloc, Realloc, FreeTag, ReallocMoves, SearchFails, Call, IInv, CallInv
<1>2. Books'
  BY <1>1 DEF IInv, Books
<1>3. /\ Sane(heap) /\ heap[Main].pNext \in DOMAIN heap \ {Main}
      /\ m_pCurrentBlock \in DOMAIN heap /\ m_pCurrentBlock \in Int
  <2>1. Sane(heap) /\ m_pCurrentBlock \in DOMAIN heap
    BY <1>1 DEF IInv, Books
  <2>2. heap[Main].pNext = 0 /\ 0 \in DOMAIN heap
    BY <2>1 DEF Sane, Linked
  <2>3. QED
    BY <2>1, <2>2, BlockFields DEF Sane, Main
<1>4. CASE Alloc
  <2>1. PICK nSize \in Requests, tag \in Tags :
               /\ pc' = "alloc"
               /\ call' = [nSize |-> nSize, Tag |-> tag, pPtr |-> Nil]
    BY <1>4 DEF Alloc, Call
  <2>2. pNextBlock' = m_pCurrentBlock /\ pCandidateBlock' = m_pCurrentBlock
        /\ UNCHANGED pBlock
    BY <1>4 DEF Alloc, StartSearch
  <2>3. Registers'
    BY <1>1, <1>3, <2>1, <2>2 DEF IInv, Registers, Nil
  <2>4. CallInv'
    BY <1>1, <1>3, <2>1, <2>2 DEF CallInv
  <2>5. QED
    BY <1>2, <2>3, <2>4 DEF IInv
<1>5. CASE Realloc
  <2>1. PICK nSize \in Requests, tag \in Tags, p \in Used(heap) :
               /\ pc' = "realloc"
               /\ call' = [nSize |-> nSize, Tag |-> tag, pPtr |-> p]
    BY <1>5, InUseIsUsed DEF Realloc, Call
  <2>2. p \in Int
    BY <1>3, <2>1, BlockFields DEF Used, Sane
  <2>3. Registers'
    BY <1>1, <1>5, <2>1, <2>2 DEF IInv, Registers, Realloc, search
  <2>4. CallInv'
    BY <1>1, <2>1 DEF CallInv
  <2>5. QED
    BY <1>2, <2>3, <2>4 DEF IInv
<1>6. CASE FreeTag
  <2>1. PICK tag \in Tags :
               /\ pc' = "freeTag"
               /\ call' = [nSize |-> 0, Tag |-> tag, pPtr |-> Nil]
    BY <1>6 DEF FreeTag, Call
  <2>2. pBlock' = heap[Main].pNext /\ UNCHANGED search
    BY <1>6 DEF FreeTag
  <2>3. pBlock' \in Int
    BY <1>3, <2>2, BlockFields DEF Sane
  <2>4. Registers'
    BY <1>1, <2>1, <2>2, <2>3 DEF IInv, Registers, Nil, search
  <2>5. CallInv'
    BY <1>1, <1>3, <2>1, <2>2 DEF CallInv
  <2>6. QED
    BY <1>2, <2>4, <2>5 DEF IInv
<1>7. CASE ReallocMoves
  <2>1. /\ pc = "realloc" /\ pc' = "alloc" /\ UNCHANGED <<call, pBlock>>
        /\ pNextBlock' = m_pCurrentBlock /\ pCandidateBlock' = m_pCurrentBlock
    BY <1>7 DEF ReallocMoves, StartSearch
  <2>2. Registers'
    BY <1>1, <1>3, <2>1 DEF IInv, Registers
  <2>3. CallInv'
    BY <1>1, <1>3, <2>1 DEF IInv, CallInv
  <2>4. QED
    BY <1>2, <2>2, <2>3 DEF IInv
<1>8. CASE SearchFails
  <2>1. pc' = "idle" /\ call' = NoCall /\ UNCHANGED pBlock
        /\ pNextBlock' = Nil /\ pCandidateBlock' = Nil
    BY <1>8 DEF SearchFails, Return, EndSearch
  <2>2. Registers' /\ CallInv'
    BY <1>1, <2>1 DEF IInv, Registers, CallInv, NoCall, Nil
  <2>3. QED
    BY <1>2, <2>2 DEF IInv
<1>9. QED
  BY <1>4, <1>5, <1>6, <1>7, <1>8

(* The search stays in the list, and what it has found is large enough.    *)
LEMMA SearchKeepsInvariant ==
  ASSUME IInv, SearchTurn
  PROVE  IInv'
<1>1. /\ pc = "alloc" /\ pc' \in {"alloc", "found"}
      /\ pNextBlock' = heap[pNextBlock].pNext
      /\ pCandidateBlock' \in {pCandidateBlock, pNextBlock'}
      /\ pc' = "found" => Candidate(pCandidateBlock')
      /\ UNCHANGED <<heap, m_pCurrentBlock, m_nAllocCount, call, pBlock, lost,
                     smashed>>
  BY DEF SearchTurn
<1>2. /\ ~smashed /\ Sane(heap)
      /\ {pNextBlock, pCandidateBlock} \subseteq DOMAIN heap
  BY <1>1 DEF IInv, Books, CallInv
<1>3. {pNextBlock', pCandidateBlock'} \subseteq DOMAIN heap
  BY <1>1, <1>2, NextIsAbove
<1>4. pNextBlock' \in Int /\ pCandidateBlock' \in Int
  BY <1>2, <1>3, BlockFields DEF Sane
<1>5. Books'
  BY <1>1 DEF IInv, Books
<1>6. Registers'
  BY <1>1, <1>4 DEF IInv, Registers
<1>7. (pc = "found" => Candidate(pCandidateBlock))'
  BY <1>1 DEF Candidate
<1>8. CallInv'
  BY <1>1, <1>2, <1>3, <1>7 DEF IInv, CallInv
<1>9. QED
  BY <1>5, <1>6, <1>8 DEF IInv

(* Every step keeps the invariant. *)
LEMMA ZoneSteps == IInv /\ [Next]_vars => IInv'
<1> SUFFICES ASSUME IInv, [Next]_vars PROVE IInv'
  OBVIOUS
<1>1. CASE Alloc \/ Realloc \/ FreeTag \/ ReallocMoves \/ SearchFails
  BY <1>1, CallsKeepInvariant
<1>2. CASE SearchTurn
  BY <1>2, SearchKeepsInvariant
<1>3. CASE AllocTakes
  <2>1. Books'
    BY <1>3, AllocTakesEffect
  <2>2. /\ pc = "found" /\ pc' = "idle" /\ call' = NoCall
        /\ pNextBlock' = Nil /\ pCandidateBlock' = Nil
        /\ UNCHANGED <<pBlock, lost, smashed>>
    BY <1>3 DEF AllocTakes, Return, EndSearch
  <2>3. Registers' /\ CallInv'
    BY <2>2 DEF IInv, Registers, CallInv, NoCall, Nil
  <2>4. QED
    BY <2>1, <2>3 DEF IInv
<1>4. CASE ReallocGrows \/ ReallocShrinks \/ ReallocKeeps
  <2>1. Books' /\ lost' \in Nat
    BY <1>4, ReallocGrowsEffect, ReallocShrinksEffect, ReallocKeepsEffect
       DEF ReallocGrows, ReallocShrinks, IInv, Registers
  <2>2. /\ pc = "realloc" /\ pc' = "idle" /\ call' = NoCall
        /\ smashed' \in BOOLEAN
        /\ UNCHANGED <<search, pBlock>>
    <3>1. CASE ReallocGrows
      BY <3>1 DEF ReallocGrows, Return
    <3>2. CASE ReallocShrinks
      BY <3>2 DEF ReallocShrinks, Return, IInv, Registers
    <3>3. CASE ReallocKeeps
      BY <3>3 DEF ReallocKeeps, Return, IInv, Registers
    <3>4. QED
      BY <1>4, <3>1, <3>2, <3>3
  <2>3. Registers' /\ CallInv'
    BY <2>1, <2>2 DEF IInv, Registers, CallInv, NoCall, Nil, search
  <2>4. QED
    BY <2>1, <2>3 DEF IInv
<1>5. CASE FreePtr
  <2>1. PICK b \in Used(heap) : FreeBlock(b)
    BY <1>5, InUseIsUsed DEF FreePtr
  <2>2. /\ pc = "idle" /\ ~smashed
        /\ UNCHANGED <<pc, call, search, pBlock, lost, smashed>>
    BY <1>5 DEF FreePtr
  <2>3. Books'
    BY <2>1, <2>2, FreeBlockEffect
  <2>4. Registers' /\ CallInv'
    BY <2>2 DEF IInv, Registers, CallInv, search
  <2>5. QED
    BY <2>3, <2>4 DEF IInv
<1>6. CASE FreeTagTurn
  BY <1>6, FreeTagTurnEffect DEF IInv
<1>7. CASE UNCHANGED vars
  <2>1. Books'
    BY <1>7 DEF IInv, Books, vars
  <2>2. Registers' /\ CallInv'
    BY <1>7 DEF IInv, Registers, CallInv, Candidate, vars, search
  <2>3. QED
    BY <2>1, <2>2 DEF IInv
<1>8. QED
  BY <1>1, <1>2, <1>3, <1>4, <1>5, <1>6, <1>7 DEF Next

(* For any heap and any calls: the list is a ring of blocks in address     *)
(* order that do not overlap, free neighbours are joined, the blocks in    *)
(* use are counted, and m_pCurrentBlock is a block, until Realloc expands  *)
(* a block so that less than a header is left behind it.                   *)
THEOREM ZoneInvariant == Spec => []ZoneInv
<1>1. Spec => []IInv
  BY ZoneStarts, ZoneSteps, PTL DEF Spec
<1>2. QED
  BY <1>1, InvariantImplies, PTL

----------------------------------------------------------------------------
(* Memory that belongs to no block. *)

(* Where the memory of blocks is; of all blocks but those in gone. *)
Covered(h, gone) ==
  UNION {Units(h, x) : x \in DOMAIN h \ ({Main} \cup gone)}

(* Ownerless memory is finite. *)
LEMMA OwnerlessFinite ==
  ASSUME NEW h
  PROVE  /\ IsFiniteSet(Ownerless(h)) /\ Cardinality(Ownerless(h)) \in Nat
<1>1. IsFiniteSet(0..(HeapSize - 1))
  BY HeapAssumption, FS_Interval
<1>2. Ownerless(h) \in SUBSET (0..(HeapSize - 1))
  BY DEF Ownerless
<1>3. IsFiniteSet(Ownerless(h))
  BY <1>1, <1>2, FS_Subset
<1>4. QED
  BY <1>3, FS_CardinalityType

(* A set that loses an interval and wins one of the same length is as     *)
(* large as before.                                                       *)
LEMMA Exchange ==
  ASSUME NEW S, IsFiniteSet(S), NEW a \in Int, NEW b \in Int, NEW n \in Nat,
         a..(a + n - 1) \subseteq S,
         (b..(b + n - 1)) \cap (S \ (a..(a + n - 1))) = {}
  PROVE  Cardinality((S \ (a..(a + n - 1))) \cup b..(b + n - 1)) = Cardinality(S)
<1> DEFINE A == a..(a + n - 1)
           B == b..(b + n - 1)
<1>1. /\ IsFiniteSet(A) /\ IsFiniteSet(B)
      /\ Cardinality(A) = n /\ Cardinality(B) = n
  <2>1. a + n - 1 \in Int /\ b + n - 1 \in Int
    OBVIOUS
  <2>2. /\ IsFiniteSet(A) /\ IsFiniteSet(B)
        /\ Cardinality(A) = IF a > a + n - 1 THEN 0 ELSE a + n - 1 - a + 1
        /\ Cardinality(B) = IF b > b + n - 1 THEN 0 ELSE b + n - 1 - b + 1
    BY <2>1, FS_Interval
  <2>3. QED
    BY <2>2
<1>2. S \cap A = A /\ (S \ A) \cap B = {}
  OBVIOUS
<1>3. /\ IsFiniteSet(S \ A) /\ Cardinality(S \ A) = Cardinality(S) - n
  <2>1. /\ IsFiniteSet(S \ A)
        /\ Cardinality(S \ A) = Cardinality(S) - Cardinality(S \cap A)
    BY FS_Difference
  <2>2. QED
    BY <1>1, <1>2, <2>1
<1> HIDE DEF A, B
<1>4. Cardinality((S \ A) \cup B)
        = Cardinality(S \ A) + Cardinality(B) - Cardinality((S \ A) \cap B)
  BY <1>1, <1>3, FS_Union
<1>5. Cardinality(S) \in Nat /\ Cardinality({}) = 0
  BY FS_CardinalityType, FS_EmptySet
<1>6. Cardinality((S \ A) \cap B) = 0
  BY <1>2, <1>5
<1>7. Cardinality((S \ A) \cup B) = Cardinality(S)
  BY <1>1, <1>3, <1>4, <1>5, <1>6
<1>8. QED
  BY <1>7 DEF A, B

(* The memory of a block and the one after it reaches to no other block's. *)
LEMMA PairApart ==
  ASSUME NEW h, Sane(h), NEW b \in DOMAIN h \ {Main},
         NEW c, c = h[b].pNext, c # Main
  PROVE  /\ b \in Int /\ c \in Int /\ h[b].nSize \in Nat /\ h[c].nSize \in Nat
         /\ 0 <= b /\ b + h[b].nSize <= c /\ c + h[c].nSize <= HeapSize
         /\ \A x \in DOMAIN h \ {Main, b, c} : \A u \in b..(c + h[c].nSize - 1) :
              u \notin Units(h, x)
<1>1. c \in DOMAIN h /\ Main \in DOMAIN h
  BY DEF Sane, Linked
<1>2. /\ b \in Int /\ c \in Int /\ h[b].nSize \in Nat /\ h[c].nSize \in Nat
      /\ 0 <= b /\ Limit(h, b) = c
  BY <1>1, BlockFields DEF Sane, Ordered, Limit
<1>3. ASSUME NEW x \in DOMAIN h \ {Main}
      PROVE  /\ x \in 0..(HeapSize - 1) /\ h[x].nSize \in Nat /\ Limit(h, x) \in Int
             /\ Limit(h, x) <= HeapSize /\ x + h[x].nSize <= Limit(h, x)
             /\ \A y \in DOMAIN h : y > x => y >= Limit(h, x)
  <2>1. /\ x \in 0..(HeapSize - 1) /\ x + h[x].nSize <= Limit(h, x)
        /\ \A y \in DOMAIN h : y > x => y >= Limit(h, x)
    BY DEF Sane, Ordered
  <2>2. h[x].nSize \in Nat
    BY BlockFields DEF Sane
  <2>3. h[x].pNext \in DOMAIN h
    BY DEF Sane, Linked
  <2>4. h[x].pNext # Main => h[x].pNext \in 0..(HeapSize - 1)
    BY <2>3 DEF Sane, Ordered
  <2>5. QED
    BY <2>1, <2>2, <2>4, HeapAssumption DEF Limit
<1>4. /\ b + h[b].nSize <= c /\ c + h[c].nSize <= HeapSize
      /\ c + h[c].nSize <= Limit(h, c) /\ Limit(h, c) \in Int
  BY <1>1, <1>2, <1>3, HeapAssumption
<1>5. ASSUME NEW x \in DOMAIN h \ {Main, b, c}, NEW u \in b..(c + h[c].nSize - 1)
      PROVE  u \notin Units(h, x)
  <2>1. x \in Int /\ h[x].nSize \in Nat
    BY <1>3
  <2>2. CASE x < b
    <3>1. x + h[x].nSize <= b
      BY <1>2, <1>3, <2>1, <2>2
    <3>2. QED
      BY <1>2, <2>1, <3>1 DEF Units
  <2>3. CASE x > b
    <3>1. x > c
      BY <1>2, <1>3, <2>1, <2>3
    <3>2. x >= Limit(h, c)
      BY <1>1, <1>3, <3>1
    <3>3. QED
      BY <1>2, <1>4, <2>1, <3>2 DEF Units
  <2>4. QED
    BY <1>2, <2>1, <2>2, <2>3
<1>6. QED
  BY <1>2, <1>4, <1>5

(* Where the memory of a block and the one after it become one, what lay   *)
(* between the two lies behind them: no less and no more is ownerless.     *)
LEMMA PairCloses ==
  ASSUME NEW h, Sane(h), NEW b \in DOMAIN h \ {Main},
         NEW c, c = h[b].pNext, c # Main, NEW g,
         Covered(g, {}) = Covered(h, {b, c})
                          \cup b..(b + h[b].nSize + h[c].nSize - 1)
  PROVE  Cardinality(Ownerless(g)) = Cardinality(Ownerless(h))
<1> DEFINE p == h[b].nSize
           q == h[c].nSize
           n == c - b - p
           C == Covered(h, {b, c})
           A == (b + p)..(b + p + n - 1)
           B == (b + p + q)..(b + p + q + n - 1)
<1>1. /\ b \in Int /\ c \in Int /\ p \in Nat /\ q \in Nat /\ n \in Nat
      /\ 0 <= b /\ b + p <= c /\ c + q <= HeapSize
      /\ \A x \in DOMAIN h \ {Main, b, c} : \A u \in b..(c + q - 1) :
           u \notin Units(h, x)
  <2>1. /\ b \in Int /\ c \in Int /\ p \in Nat /\ q \in Nat
        /\ 0 <= b /\ b + p <= c /\ c + q <= HeapSize
        /\ \A x \in DOMAIN h \ {Main, b, c} : \A u \in b..(c + q - 1) :
             u \notin Units(h, x)
    BY PairApart
  <2>2. n \in Nat
    BY <2>1
  <2>3. QED
    BY <2>1, <2>2
<1>2. \A u \in b..(c + q - 1) : u \notin C
  BY <1>1 DEF Covered
<1>3. Ownerless(h)
        = (0..(HeapSize - 1)) \ (C \cup b..(b + p - 1) \cup c..(c + q - 1))
  <2>1. c \in DOMAIN h
    BY DEF Sane, Linked
  <2>2. UNION {Units(h, x) : x \in DOMAIN h \ {Main}}
          = C \cup Units(h, b) \cup Units(h, c)
    BY <2>1 DEF Covered
  <2>3. QED
    BY <2>2 DEF Ownerless, Units
<1>4. Ownerless(g) = (0..(HeapSize - 1)) \ (C \cup b..(b + p + q - 1))
  BY DEF Ownerless, Covered
<1> HIDE DEF p, q, C
<1>5. A \subseteq Ownerless(h)
  BY <1>1, <1>2, <1>3, HeapAssumption
<1>6. B \cap (Ownerless(h) \ A) = {}
  BY <1>1, <1>3
<1>7. Ownerless(g) = (Ownerless(h) \ A) \cup B
  <2>1. ASSUME NEW u \in 0..(HeapSize - 1)
        PROVE  u \in Ownerless(g) <=> u \in (Ownerless(h) \ A) \cup B
    BY <1>1, <1>2, <1>3, <1>4, HeapAssumption
  <2>2. B \subseteq 0..(HeapSize - 1)
    BY <1>1, HeapAssumption
  <2>3. QED
    BY <2>1, <2>2, <1>3, <1>4
<1>8. Cardinality((Ownerless(h) \ A) \cup B) = Cardinality(Ownerless(h))
  <2>1. b + p \in Int /\ b + p + q \in Int /\ n \in Nat
    BY <1>1
  <2>2. IsFiniteSet(Ownerless(h))
    BY OwnerlessFinite
  <2> HIDE DEF n
  <2>3. QED
    BY <1>5, <1>6, <2>1, <2>2, Exchange
<1>9. QED
  BY <1>7, <1>8

(* A tag moves no memory. *)
LEMMA TaggedOwnerless ==
  ASSUME NEW h, Typed(h), NEW b \in DOMAIN h, NEW tag \in Tags \cup {Free},
         NEW g, g = Tagged(h, b, tag)
  PROVE  Ownerless(g) = Ownerless(h)
<1>1. /\ DOMAIN g = DOMAIN h
      /\ \A x \in DOMAIN h : g[x].nSize = h[x].nSize
  BY TaggedFields
<1>2. \A x \in DOMAIN h : Units(g, x) = Units(h, x)
  BY <1>1 DEF Units
<1>3. QED
  BY <1>1, <1>2 DEF Ownerless

(* A block that takes in the next takes in its memory. *)
LEMMA JoinedOwnerless ==
  ASSUME NEW h, Sane(h), NEW a \in DOMAIN h \ {Main}, h[a].pNext # Main,
         NEW g, g = Joined(h, a)
  PROVE  Cardinality(Ownerless(g)) = Cardinality(Ownerless(h))
<1> DEFINE b == h[a].pNext
<1>1. IsJoined(g, h, a)
  BY JoinedSane
<1>2. b # a
  BY NextIsAbove
<1>3. /\ DOMAIN g = DOMAIN h \ {b}
      /\ \A x \in DOMAIN g :
           g[x].nSize = IF x = a THEN h[a].nSize + h[b].nSize ELSE h[x].nSize
  BY <1>1 DEF IsJoined
<1>4. Units(g, a) = a..(a + h[a].nSize + h[b].nSize - 1)
  <2>1. g[a].nSize = h[a].nSize + h[b].nSize
    BY <1>2, <1>3
  <2>2. a \in Int /\ h[a].nSize \in Nat /\ h[b].nSize \in Nat
    BY PairApart
  <2>3. QED
    BY <2>1, <2>2 DEF Units
<1>5. \A x \in DOMAIN h \ {Main, a, b} : Units(g, x) = Units(h, x)
  BY <1>3 DEF Units
<1>6. Covered(g, {}) = Covered(h, {a, b})
                       \cup a..(a + h[a].nSize + h[b].nSize - 1)
  <2>1. DOMAIN g \ {Main} = (DOMAIN h \ {Main, a, b}) \cup {a}
    BY <1>2, <1>3
  <2> DEFINE Rest == DOMAIN h \ {Main, a, b}
  <2>2. Covered(g, {}) = UNION {Units(g, x) : x \in Rest \cup {a}}
    BY <2>1 DEF Covered
  <2>3. Covered(h, {a, b}) = UNION {Units(g, x) : x \in Rest}
    <3>1. DOMAIN h \ ({Main} \cup {a, b}) = Rest
      OBVIOUS
    <3>2. QED
      BY <1>5, <3>1 DEF Covered
  <2> HIDE DEF Rest, b
  <2>4. QED
    BY <1>4, <2>2, <2>3
<1>7. QED
  BY <1>6, PairCloses

(* A block and the free one split off from it, or put where there was one, *)
(* hold what was there.                                                    *)
LEMMA SplitOwnerless ==
  ASSUME NEW h, Sane(h), NoFreeNeighbours(h), NEW b, NEW n, NEW size,
         NEW next, MaySplit(h, b, n, size, next), NEW tag \in Tags,
         NEW c, c = h[b].pNext,
         n + size = h[b].nSize + IF next = c THEN 0 ELSE h[c].nSize,
         NEW g, g = Tagged(Followed(h, b, n, size, next), b, tag)
  PROVE  Cardinality(Ownerless(g)) = Cardinality(Ownerless(h))
<1> USE DEF MaySplit
<1> DEFINE f == Followed(h, b, n, size, next)
           gone == Gone(h, b, next)
<1>1. /\ c \in DOMAIN h /\ (IsFree(h, c) => c # Main) /\ c # b
      /\ b \in Int /\ h[b].nSize \in Nat /\ h[c].nSize \in Nat
      /\ n \in Nat /\ size \in Nat /\ n > 0 /\ b \in DOMAIN h \ {Main}
  <2>1. /\ b \in DOMAIN h \ {Main} /\ n \in Nat /\ n >= Header + 1 /\ size \in Nat
    OBVIOUS
  <2>2. c \in DOMAIN h /\ c # b /\ (IsFree(h, c) => c # Main)
    BY <2>1, NextIsAbove DEF Sane, Linked
  <2>3. b \in Int /\ h[b].nSize \in Nat /\ h[c].nSize \in Nat
    BY <2>1, <2>2, BlockFields DEF Sane
  <2> HIDE DEF MaySplit
  <2>4. QED
    BY <2>1, <2>2, <2>3 DEF Header
<1>2. Sane(f) /\ IsFollowed(f, h, b, n, size, next) /\ b + n \notin DOMAIN h \ gone
  <2>1. \/ next = h[b].pNext
        \/ h[b].pNext # Main /\ next = h[h[b].pNext].pNext
    BY <1>1
  <2>2. gone = IF next = h[b].pNext THEN {} ELSE {h[b].pNext}
    BY DEF Gone
  <2>3. /\ b \in DOMAIN h \ {Main} /\ n \in Nat /\ n >= Header + 1
        /\ size \in Nat /\ size >= Header /\ next \in DOMAIN h
        /\ b + n + size <= (IF next = Main THEN HeapSize ELSE next)
    OBVIOUS
  <2>4. f = Followed(h, b, n, size, next)
    OBVIOUS
  <2> HIDE DEF f, gone, MaySplit
  <2>5. QED
    BY ONLY <2>1, <2>2, <2>3, <2>4, Sane(h), FollowedSane
<1>3. /\ DOMAIN f = (DOMAIN h \ gone) \cup {b + n}
      /\ f[b + n].nSize = size
      /\ \A x \in DOMAIN f \ {b + n} :
           f[x].nSize = IF x = b THEN n ELSE h[x].nSize
      /\ b + n \notin DOMAIN h \ gone
  BY <1>2 DEF IsFollowed
<1>4. gone = (IF next = c THEN {} ELSE {c}) /\ b \in DOMAIN h \ gone /\ b + n # b
      /\ b + n # Main
  <2>1. b >= 0 /\ Main < 0
    BY <1>1 DEF Sane, Ordered, Main
  <2>2. QED
    BY <1>1, <2>1 DEF Gone
<1> HIDE DEF f, gone
<1>5. Ownerless(g) = Ownerless(f)
  <2>1. Typed(f) /\ b \in DOMAIN f /\ tag \in Tags \cup {Free}
    BY <1>2, <1>3, <1>4 DEF Sane
  <2>2. g = Tagged(f, b, tag)
    BY DEF f
  <2>3. QED
    BY <2>1, <2>2, TaggedOwnerless
<1>6. Covered(f, {}) = Covered(h, gone \cup {b}) \cup b..(b + n + size - 1)
  <2>1. DOMAIN f \ {Main} = (DOMAIN h \ ({Main} \cup gone \cup {b})) \cup {b, b + n}
    BY <1>1, <1>3, <1>4
  <2>2. Units(f, b) = b..(b + n - 1) /\ Units(f, b + n) = (b + n)..(b + n + size - 1)
    BY <1>1, <1>3, <1>4 DEF Units
  <2>3. Units(f, b) \cup Units(f, b + n) = b..(b + n + size - 1)
    BY <1>1, <2>2
  <2>4. \A x \in DOMAIN h \ ({Main} \cup gone \cup {b}) : Units(f, x) = Units(h, x)
    BY <1>3, <1>4 DEF Units
  <2> DEFINE Rest == DOMAIN h \ ({Main} \cup gone \cup {b})
  <2>5. Covered(f, {}) = UNION {Units(f, x) : x \in Rest \cup {b, b + n}}
    BY <2>1 DEF Covered
  <2>6. Covered(h, gone \cup {b}) = UNION {Units(f, x) : x \in Rest}
    <3>1. DOMAIN h \ ({Main} \cup (gone \cup {b})) = Rest
      OBVIOUS
    <3>2. QED
      BY <2>4, <3>1 DEF Covered
  <2> HIDE DEF Rest
  <2>7. QED
    BY <2>3, <2>5, <2>6
<1>7. CASE next = c
  <2>1. b + n + size - 1 = b + h[b].nSize - 1 /\ gone = {}
    BY <1>1, <1>4, <1>7
  <2>2. Covered(f, {}) = Covered(h, {})
    <3>1. Covered(h, {}) = Covered(h, {b}) \cup Units(h, b)
      BY <1>1 DEF Covered
    <3>2. QED
      BY <1>6, <2>1, <3>1 DEF Units
  <2>3. QED
    BY <1>5, <2>2 DEF Ownerless, Covered
<1>8. CASE next # c
  <2>1. /\ b + n + size - 1 = b + h[b].nSize + h[c].nSize - 1
        /\ gone \cup {b} = {b, c} /\ c # Main
    BY <1>1, <1>4, <1>8
  <2>2. Covered(f, {}) = Covered(h, {b, c})
                         \cup b..(b + h[b].nSize + h[c].nSize - 1)
    BY <1>6, <2>1
  <2>3. Cardinality(Ownerless(f)) = Cardinality(Ownerless(h))
    BY <1>1, <2>1, <2>2, PairCloses
  <2>4. QED
    BY <1>5, <2>3
<1>9. QED
  BY <1>7, <1>8

(* Free gives back the memory of the block. *)
LEMMA FreedOwnerless ==
  ASSUME NEW h, Sane(h), NoFreeNeighbours(h), NEW b \in Used(h),
         NEW g, g = Freed(h, b)
  PROVE  Cardinality(Ownerless(g)) = Cardinality(Ownerless(h))
<1> DEFINE t == Tagged(h, b, Free)
           p == h[b].pPrevious
           f == FreeFrom(h, b)
           j == JoinedPrevious(t, b)
<1>1. /\ b \in DOMAIN h \ {Main} /\ p \in DOMAIN h /\ h[p].pNext = b /\ p # b
  <2>1. b \in DOMAIN h \ {Main}
    BY DEF Used
  <2>2. p \in DOMAIN h /\ h[p].pNext = b
    BY <2>1, Ring DEF Sane
  <2>3. QED
    BY <2>1, <2>2, NextIsAbove
<1>2. /\ Sane(t) /\ DOMAIN t = DOMAIN h /\ Ownerless(t) = Ownerless(h)
      /\ \A x \in DOMAIN h :
           /\ t[x].pNext = h[x].pNext /\ t[x].pPrevious = h[x].pPrevious
           /\ t[x].Tag = IF x = b THEN Free ELSE h[x].Tag
  BY <1>1, TaggedSane, TaggedFields, TaggedOwnerless DEF Sane
<1>3. g = JoinedNext(j, f)
  BY DEF Freed
<1> HIDE DEF t
<1>4. IsFree(t, b) /\ (IsFree(t, p) <=> IsFree(h, p)) /\ t[b].pPrevious = p
  BY <1>1, <1>2 DEF IsFree
<1>5. /\ Sane(j) /\ f \in DOMAIN j \ {Main}
      /\ Cardinality(Ownerless(j)) = Cardinality(Ownerless(h))
  <2>1. CASE IsFree(h, p)
    <3>1. f = p /\ j = Joined(t, p)
      BY <1>4, <2>1 DEF FreeFrom, JoinedPrevious
    <3>2. p # Main /\ t[p].pNext = b
      BY <1>1, <1>2, <2>1 DEF Sane, Linked
    <3>3. Sane(j) /\ p \in DOMAIN j
      BY <1>1, <1>2, <1>4, <2>1, <3>1, <3>2, JoinedFree
    <3>4. Cardinality(Ownerless(j)) = Cardinality(Ownerless(t))
      BY <1>1, <1>2, <3>1, <3>2, JoinedOwnerless
    <3>5. QED
      BY <1>2, <3>1, <3>2, <3>3, <3>4
  <2>2. CASE ~IsFree(h, p)
    <3>1. f = b /\ j = t
      BY <1>4, <2>2 DEF FreeFrom, JoinedPrevious
    <3>2. QED
      BY <1>1, <1>2, <3>1
  <2>3. QED
    BY <2>1, <2>2
<1> HIDE DEF j, f
<1>6. CASE IsFree(j, j[f].pNext)
  <2>1. g = Joined(j, f) /\ j[f].pNext # Main
    BY <1>3, <1>5, <1>6 DEF JoinedNext, Sane, Linked
  <2>2. QED
    BY <1>5, <2>1, JoinedOwnerless
<1>7. CASE ~IsFree(j, j[f].pNext)
  BY <1>3, <1>5, <1>7 DEF JoinedNext
<1>8. QED
  BY <1>6, <1>7

(* A Realloc that resizes its block leaves no less and no more ownerless   *)
(* than before.                                                            *)
LEMMA GrowsOwnerless ==
  ASSUME IInv, ReallocGrows, ~smashed'
  PROVE  Cardinality(Ownerless(heap')) = Cardinality(Ownerless(heap))
<1> DEFINE b == call.pPtr
           n == Padded(call.nSize)
           next == heap[b].pNext
           last == heap[next].pNext
           rest == heap[next].nSize - (n - heap[b].nSize)
<1>1. /\ Sane(heap) /\ NoFreeNeighbours(heap)
      /\ call.nSize \in Requests /\ call.Tag \in Tags
      /\ b \in DOMAIN heap \ {Main} /\ heap[b].nSize \in Nat
      /\ next \in DOMAIN heap
  BY ReallocBlock DEF ReallocGrows
<1>2. n \in Nat /\ n >= Header + 1
  BY <1>1, PaddedEnough
<1>3. /\ n > heap[b].nSize /\ IsFree(heap, next)
      /\ heap[next].nSize >= n - heap[b].nSize
      /\ heap' = Tagged(Followed(heap, b, n, rest, last), b, call.Tag)
      /\ ~(rest < Header)
  BY DEF ReallocGrows, CanGrow
<1>4. /\ next # Main /\ heap[next].nSize \in Nat
      /\ last \in DOMAIN heap /\ ~IsFree(heap, last) /\ last # next
      /\ next + heap[next].nSize <= (IF last = Main THEN HeapSize ELSE last)
      /\ b \in Int /\ next \in Int /\ b + heap[b].nSize <= next
  <2>1. next # Main
    BY <1>1, <1>3 DEF Sane, Linked
  <2>2. b + heap[b].nSize <= next
    BY <1>1, <2>1, PairApart
  <2>3. /\ last \in DOMAIN heap /\ ~IsFree(heap, last) /\ last # next
        /\ next + heap[next].nSize <= (IF last = Main THEN HeapSize ELSE last)
    BY <1>1, <1>3, <2>1, NextIsAbove
       DEF NoFreeNeighbours, Sane, Linked, Ordered, Limit
  <2>4. b \in Int /\ next \in Int /\ heap[next].nSize \in Nat
    BY <1>1, BlockFields DEF Sane
  <2>5. QED
    BY <2>1, <2>2, <2>3, <2>4
<1>5. /\ rest \in Nat /\ rest >= Header
      /\ n + rest = heap[b].nSize + heap[next].nSize
      /\ b + n + rest <= next + heap[next].nSize
  BY <1>1, <1>2, <1>3, <1>4 DEF Header
<1>6. b + n + rest <= (IF last = Main THEN HeapSize ELSE last)
  <2>1. last # Main => last \in Int
    BY <1>1, <1>4, BlockFields DEF Sane
  <2> HIDE DEF n, next, last, rest
  <2>2. QED
    BY <2>1, <1>2, <1>4, <1>5, HeapAssumption
<1> HIDE DEF n, rest, last
<1>7. MaySplit(heap, b, n, rest, last)
  BY <1>1, <1>2, <1>3, <1>4, <1>5, <1>6 DEF MaySplit, last
<1>8. QED
  BY <1>1, <1>3, <1>4, <1>5, <1>7, SplitOwnerless

LEMMA ShrinksOwnerless ==
  ASSUME IInv, ReallocShrinks
  PROVE  Cardinality(Ownerless(heap')) = Cardinality(Ownerless(heap))
<1> DEFINE b == call.pPtr
           n == Padded(call.nSize)
           nRemain == heap[b].nSize - n
           next == heap[b].pNext
<1>1. /\ Sane(heap) /\ NoFreeNeighbours(heap)
      /\ call.nSize \in Requests /\ call.Tag \in Tags
      /\ b \in DOMAIN heap \ {Main} /\ b \in Int /\ heap[b].nSize \in Nat
      /\ next \in DOMAIN heap
      /\ b + heap[b].nSize <= (IF next = Main THEN HeapSize ELSE next)
  BY ReallocBlock DEF ReallocShrinks
<1>2. n \in Nat /\ n >= Header + 1
  BY <1>1, PaddedEnough
<1>3. nRemain \in Nat /\ nRemain >= Header /\ n + nRemain = heap[b].nSize
  BY <1>1, <1>2 DEF ReallocShrinks, MinFragmentSize, Header
<1> HIDE DEF n
<1>4. CASE IsFree(heap, next)
  <2> DEFINE last == heap[next].pNext
             size == heap[next].nSize + nRemain
  <2>1. /\ next # Main /\ next \in Int /\ heap[next].nSize \in Nat
        /\ b + heap[b].nSize <= next
    BY <1>1, <1>4, BlockFields DEF Sane, Linked
  <2>2. /\ last \in DOMAIN heap /\ ~IsFree(heap, last) /\ last # next
        /\ next + heap[next].nSize <= (IF last = Main THEN HeapSize ELSE last)
        /\ last # Main => last \in Int
    BY <1>1, <1>4, <2>1, NextIsAbove, BlockFields
       DEF NoFreeNeighbours, Sane, Linked, Ordered, Limit
  <2>3. /\ size \in Nat /\ size >= Header
        /\ n + size = heap[b].nSize + heap[next].nSize
        /\ b + n + size <= next + heap[next].nSize
    BY <1>1, <1>2, <1>3, <2>1 DEF Header
  <2>4. heap' = Tagged(Followed(heap, b, n, size, last), b, call.Tag)
    BY <1>4 DEF ReallocShrinks, n
  <2> HIDE DEF size, last, next
  <2>5. b + n + size <= (IF last = Main THEN HeapSize ELSE last)
    BY <1>1, <1>2, <2>1, <2>2, <2>3, HeapAssumption
  <2>6. MaySplit(heap, b, n, size, last)
    BY <1>1, <1>2, <1>4, <2>2, <2>3, <2>5 DEF MaySplit, last, next
  <2>7. QED
    BY <1>1, <2>2, <2>3, <2>4, <2>6, SplitOwnerless DEF next
<1>5. CASE ~IsFree(heap, next)
  <2>1. b + n + nRemain <= (IF next = Main THEN HeapSize ELSE next)
    BY <1>1, <1>2, <1>3
  <2>2. heap' = Tagged(Followed(heap, b, n, nRemain, next), b, call.Tag)
    BY <1>5 DEF ReallocShrinks, n
  <2> HIDE DEF nRemain
  <2>3. MaySplit(heap, b, n, nRemain, next)
    BY <1>1, <1>2, <1>3, <1>5, <2>1 DEF MaySplit
  <2>4. n + nRemain = heap[b].nSize + IF next = next THEN 0 ELSE heap[next].nSize
    BY <1>1, <1>3
  <2>5. QED
    BY <1>1, <2>2, <2>3, <2>4, SplitOwnerless
<1>6. QED
  BY <1>4, <1>5

(* A Realloc that cuts off too little for a block leaves that much without *)
(* an owner.                                                               *)
LEMMA KeepsOwnerless ==
  ASSUME IInv, ReallocKeeps
  PROVE  Cardinality(Ownerless(heap)) = lost
           => Cardinality(Ownerless(heap')) = lost'
<1> DEFINE b == call.pPtr
           n == Padded(call.nSize)
           r == heap[b].nSize - n
           S == Ownerless(heap)
           B == (b + n)..(b + heap[b].nSize - 1)
<1>1. /\ Sane(heap) /\ call.nSize \in Requests
      /\ b \in DOMAIN heap \ {Main} /\ b \in Int /\ heap[b].nSize \in Nat
  BY ReallocBlock DEF ReallocKeeps
<1>2. n \in Nat /\ r \in Nat
  BY <1>1, PaddedEnough DEF ReallocKeeps, MinFragmentSize
<1>3. /\ heap' = [heap EXCEPT ![b].Tag = call.Tag, ![b].nSize = @ - r]
      /\ heap[b] \in Block
  BY <1>1 DEF ReallocKeeps, Sane, Typed
<1>4. /\ DOMAIN heap' = DOMAIN heap
      /\ heap'[b].nSize = n
      /\ \A x \in DOMAIN heap \ {b} : heap'[x] = heap[x]
  <2>1. heap[b].nSize - r = n
    BY <1>1, <1>2
  <2>2. /\ DOMAIN heap' = DOMAIN heap /\ heap'[b].nSize = heap[b].nSize - r
        /\ \A x \in DOMAIN heap \ {b} : heap'[x] = heap[x]
    BY <1>1, <1>3 DEF Block
  <2>3. QED
    BY <2>1, <2>2
<1> HIDE DEF n
<1>5. \A x \in DOMAIN heap \ {Main, b} :
        \A u \in Units(heap, b) : u \notin Units(heap, x)
  <2> SUFFICES ASSUME NEW x \in DOMAIN heap \ {Main, b}
               PROVE  \A u \in Units(heap, b) : u \notin Units(heap, x)
    OBVIOUS
  <2>1. /\ x \in Int /\ heap[x].nSize \in Nat
        /\ x < b => x + heap[x].nSize <= Limit(heap, x) /\ b >= Limit(heap, x)
        /\ x > b => b + heap[b].nSize <= Limit(heap, b) /\ x >= Limit(heap, b)
    BY <1>1, BlockFields DEF Sane, Ordered
  <2>2. Limit(heap, x) \in Int /\ Limit(heap, b) \in Int
    BY <1>1, HeapAssumption, BlockFields DEF Sane, Limit
  <2>3. QED
    BY <1>1, <2>1, <2>2 DEF Units
<1>6. b >= 0 /\ b + heap[b].nSize <= HeapSize
  <2>1. b >= 0 /\ b + heap[b].nSize <= Limit(heap, b)
    BY <1>1 DEF Sane, Ordered
  <2>2. heap[b].pNext # Main => heap[b].pNext \in 0..(HeapSize - 1)
    BY <1>1 DEF Sane, Linked, Ordered
  <2>3. QED
    BY <1>1, <2>1, <2>2, HeapAssumption DEF Limit
<1>7. Ownerless(heap') = S \cup B /\ S \cap B = {}
  <2> DEFINE C == Covered(heap, {b})
  <2>1. /\ Units(heap, b) = b..(b + heap[b].nSize - 1)
        /\ Units(heap', b) = b..(b + n - 1)
        /\ \A x \in DOMAIN heap \ {Main, b} : Units(heap', x) = Units(heap, x)
    BY <1>4 DEF Units
  <2>2. Covered(heap', {b}) = C
    BY <1>4, <2>1 DEF Covered
  <2>3. /\ Ownerless(heap) = (0..(HeapSize - 1)) \ (C \cup Units(heap, b))
        /\ Ownerless(heap') = (0..(HeapSize - 1)) \ (C \cup Units(heap', b))
    BY <1>1, <1>4, <2>2 DEF Ownerless, Covered
  <2>4. \A u \in Units(heap, b) : u \notin C
    BY <1>5 DEF Covered
  <2>5. Units(heap, b) = Units(heap', b) \cup B /\ Units(heap', b) \cap B = {}
    BY <1>1, <1>2, <2>1
  <2>6. B \subseteq 0..(HeapSize - 1)
    BY <1>1, <1>2, <1>6, HeapAssumption
  <2> HIDE DEF B, C
  <2>7. QED
    BY <2>3, <2>4, <2>5, <2>6
<1>8. IsFiniteSet(B) /\ Cardinality(B) = r
  <2> DEFINE low == b + n
             high == b + heap[b].nSize - 1
  <2>1. low \in Int /\ high \in Int /\ high - low + 1 = r /\ (low > high => r = 0)
    BY <1>1, <1>2
  <2> HIDE DEF low, high, r
  <2>2. IsFiniteSet(low..high) /\ Cardinality(low..high) = r
    BY <2>1, FS_Interval
  <2>3. QED
    BY <2>2 DEF low, high
<1> HIDE DEF B, S, r
<1>9. Cardinality(S \cup B) = Cardinality(S) + Cardinality(B) - Cardinality(S \cap B)
  BY <1>8, OwnerlessFinite, FS_Union DEF S
<1>10. Cardinality(S \cap B) = 0 /\ Cardinality(S) \in Nat
  BY <1>7, OwnerlessFinite, FS_EmptySet DEF S
<1>11. lost' = lost + r
  BY DEF ReallocKeeps, r, n
<1>12. Cardinality(S \cup B) = Cardinality(S) + r
  BY <1>2, <1>8, <1>9, <1>10
<1>13. QED
  BY <1>7, <1>11, <1>12, Zenon DEF S

(* Nothing but that changes how much is ownerless. *)
LEMMA AccountedSteps == IInv /\ Accounted /\ [Next]_vars => Accounted'
<1> SUFFICES ASSUME IInv, Accounted, [Next]_vars PROVE Accounted'
  OBVIOUS
<1> USE DEF Accounted
<1>1. ASSUME UNCHANGED <<heap, lost, smashed>> PROVE Accounted'
  BY <1>1
<1>2. ASSUME Cardinality(Ownerless(heap')) = Cardinality(Ownerless(heap)),
             UNCHANGED lost, ~smashed
      PROVE  Accounted'
  BY <1>2
<1>3. CASE Alloc \/ Realloc \/ FreeTag \/ ReallocMoves \/ SearchFails
           \/ SearchTurn \/ UNCHANGED vars
  BY <1>1, <1>3 DEF Alloc, Realloc, FreeTag, ReallocMoves, SearchFails,
                    SearchTurn, vars
<1>4. CASE AllocTakes
  <2> DEFINE b == pCandidateBlock
             n == Padded(call.nSize)
             h == Taken(b, n)
             next == heap[b].pNext
  <2>1. /\ ~smashed /\ UNCHANGED lost /\ Sane(heap) /\ NoFreeNeighbours(heap)
        /\ call.nSize \in Requests /\ call.Tag \in Tags
        /\ call.pPtr \in Used(heap) \cup {Nil} /\ b \in DOMAIN heap
        /\ IsFree(heap, b) /\ heap[b].nSize >= n
    BY <1>4 DEF AllocTakes, IInv, Books, CallInv, Candidate
  <2>2. /\ n \in Nat /\ n >= Header + 1 /\ heap[b].nSize \in Nat /\ b \in Int
        /\ b # Main /\ next \in DOMAIN heap /\ ~IsFree(heap, next)
        /\ b + heap[b].nSize <= (IF next = Main THEN HeapSize ELSE next)
    BY <2>1, PaddedEnough, BlockFields
       DEF Sane, Linked, Ordered, Limit, NoFreeNeighbours
  <2> HIDE DEF n
  <2>3. Cardinality(Ownerless(h)) = Cardinality(Ownerless(heap))
    <3> DEFINE nRemaining == heap[b].nSize - n
    <3>1. CASE nRemaining > MinFragmentSize
      <4>1. h = Tagged(Followed(heap, b, n, nRemaining, next), b, call.Tag)
        BY <3>1 DEF Taken
      <4>2. /\ nRemaining \in Nat /\ nRemaining >= Header
            /\ n + nRemaining = heap[b].nSize
            /\ n + nRemaining
                 = heap[b].nSize + IF next = next THEN 0 ELSE heap[next].nSize
            /\ b + n + nRemaining = b + heap[b].nSize
        BY <2>1, <2>2, <3>1 DEF MinFragmentSize, Header
      <4> HIDE DEF nRemaining
      <4>3. MaySplit(heap, b, n, nRemaining, next)
        BY <2>1, <2>2, <4>2 DEF MaySplit
      <4>4. QED
        BY <2>1, <4>1, <4>2, <4>3, SplitOwnerless
    <3>2. CASE ~(nRemaining > MinFragmentSize)
      <4>1. h = Tagged(heap, b, call.Tag) /\ call.Tag \in Tags \cup {Free}
        BY <2>1, <3>2 DEF Taken
      <4>2. QED
        BY <2>1, <4>1, TaggedOwnerless DEF Sane
    <3>3. QED
      BY <3>1, <3>2
  <2>4. Sane(h) /\ NoFreeNeighbours(h) /\ Lends(h, heap, {}, b)
    BY <2>1, <2>2, TakenBlock
  <2>5. heap' = h \/ (call.pPtr \in Used(h) /\ heap' = Freed(h, call.pPtr))
    <3>1. Used(heap) \subseteq Used(h)
      BY <2>4 DEF Lends
    <3>2. QED
      BY <1>4, <2>1, <3>1 DEF AllocTakes, n
  <2> HIDE DEF h
  <2>6. Cardinality(Ownerless(heap')) = Cardinality(Ownerless(h))
    BY <2>4, <2>5, FreedOwnerless
  <2>7. QED
    BY <1>2, <2>1, <2>3, <2>6
<1>5. CASE ReallocGrows
  <2>1. ~smashed /\ UNCHANGED lost
    BY <1>5, ReallocBlock DEF ReallocGrows
  <2>2. CASE smashed'
    BY <2>2
  <2>3. CASE ~smashed'
    BY <1>2, <1>5, <2>1, <2>3, GrowsOwnerless
  <2>4. QED
    BY <2>2, <2>3
<1>6. CASE ReallocShrinks
  <2>1. ~smashed /\ UNCHANGED lost
    BY <1>6, ReallocBlock DEF ReallocShrinks
  <2>2. QED
    BY <1>2, <1>6, <2>1, ShrinksOwnerless
<1>7. CASE ReallocKeeps
  <2>1. ~smashed
    BY <1>7, ReallocBlock DEF ReallocKeeps
  <2>2. Cardinality(Ownerless(heap)) = lost /\ UNCHANGED smashed
    BY <1>7, <2>1 DEF ReallocKeeps
  <2>3. QED
    BY <1>7, <2>2, KeepsOwnerless
<1>8. CASE FreePtr \/ FreeTagTurn
  <2>1. UNCHANGED lost /\ ~smashed
    BY <1>8 DEF FreePtr, FreeTagTurn, IInv, CallInv
  <2>2. \/ UNCHANGED <<heap, smashed>>
        \/ \E b \in Used(heap) : heap' = Freed(heap, b)
    <3>1. CASE FreePtr
      BY <3>1, InUseIsUsed DEF FreePtr, FreeBlock
    <3>2. CASE FreeTagTurn
      <4>1. call.Tag \in Tags /\ pBlock \in DOMAIN heap \ {Main}
        BY <3>2 DEF FreeTagTurn, IInv, CallInv
      <4>2. heap[pBlock].Tag = call.Tag => pBlock \in Used(heap)
        BY <4>1, TagsInUse DEF Used, IsFree
      <4>3. QED
        BY <3>2, <4>2 DEF FreeTagTurn, FreeBlock
    <3>3. QED
      BY <1>8, <3>1, <3>2
  <2>3. CASE UNCHANGED <<heap, smashed>>
    BY <1>1, <2>1, <2>3
  <2>4. CASE \E b \in Used(heap) : heap' = Freed(heap, b)
    <3>1. PICK b \in Used(heap) : heap' = Freed(heap, b)
      BY <2>4
    <3>2. Sane(heap) /\ NoFreeNeighbours(heap)
      BY <2>1 DEF IInv, Books
    <3>3. Cardinality(Ownerless(heap')) = Cardinality(Ownerless(heap))
      BY <3>1, <3>2, FreedOwnerless
    <3>4. QED
      BY <1>2, <2>1, <3>3
  <2>5. QED
    BY <2>2, <2>3, <2>4
<1>9. QED
  BY <1>3, <1>4, <1>5, <1>6, <1>7, <1>8 DEF Next

(* For any heap and any calls, until a header is smashed: the units that   *)
(* belong to no block are as many as Reallocs have cut off because they    *)
(* were too few for a block; no other call loses memory.                   *)
THEOREM MemoryAccounted == Spec => []Accounted
<1>1. Init => Accounted
  <2> SUFFICES ASSUME Init PROVE Cardinality(Ownerless(heap)) = 0
    BY DEF Init, Accounted
  <2>1. DOMAIN heap \ {Main} = {0} /\ heap[0].nSize = HeapSize
    BY DEF Init, Clear, Main
  <2>2. UNION {Units(heap, x) : x \in DOMAIN heap \ {Main}} = 0..(HeapSize - 1)
    BY <2>1, HeapAssumption DEF Units
  <2>3. Ownerless(heap) = {}
    BY <2>2 DEF Ownerless
  <2>4. QED
    BY <2>3, FS_EmptySet
<1>2. Spec => []IInv
  BY ZoneStarts, ZoneSteps, PTL DEF Spec
<1>3. QED
  BY <1>1, <1>2, AccountedSteps, PTL DEF Spec

----------------------------------------------------------------------------
(* Alloc's search. *)

(* The blocks the search has come by, in the order of the ring: upwards    *)
(* from m_pCurrentBlock, and from the main block on after the last.        *)
Seen(b) == IF m_pCurrentBlock <= pNextBlock
           THEN m_pCurrentBlock <= b /\ b <= pNextBlock
           ELSE b >= m_pCurrentBlock \/ b <= pNextBlock

(* None of them is large enough.  The first one is looked at in the first  *)
(* turn only.                                                              *)
SearchInv ==
  pc = "alloc" =>
    IF pNextBlock = m_pCurrentBlock
    THEN pCandidateBlock = m_pCurrentBlock
    ELSE \A b \in DOMAIN heap : Seen(b) => ~Candidate(b)

(* A turn adds the next block to those seen, and no other. *)
LEMMA SeenNext ==
  ASSUME Sane(heap), m_pCurrentBlock \in DOMAIN heap,
         pNextBlock \in DOMAIN heap, pNextBlock # pStartBlock,
         pNextBlock' = heap[pNextBlock].pNext, UNCHANGED m_pCurrentBlock,
         NEW b \in DOMAIN heap, Seen(b)'
  PROVE  /\ pNextBlock' # m_pCurrentBlock
         /\ Seen(b) \/ b = pNextBlock'
<1> DEFINE current == m_pCurrentBlock
           v == pNextBlock
           w == heap[v].pNext
<1>1. /\ current \in Int /\ v \in Int /\ w \in Int /\ b \in Int
      /\ w \in DOMAIN heap /\ current >= -1 /\ v >= -1 /\ w >= -1 /\ b >= -1
      /\ Main = -1
  BY NextIsAbove, BlockFields DEF Sane, Main
<1>2. w # current
  <2>1. heap[w].pPrevious = v
    BY Ring DEF Sane
  <2>2. QED
    BY <2>1 DEF pStartBlock
<1>3. /\ w # Main => w > v
      /\ \A c \in DOMAIN heap : c > v => w # Main /\ c >= w
  BY NextIsAbove
<1>4. Seen(b)' <=> IF current <= w THEN current <= b /\ b <= w
                                   ELSE b >= current \/ b <= w
  BY DEF Seen
<1>5. Seen(b) <=> IF current <= v THEN current <= b /\ b <= v
                                  ELSE b >= current \/ b <= v
  BY DEF Seen
<1> HIDE DEF current, v, w
<1>6. b > v => w # Main /\ b >= w
  BY <1>3
<1>7. current > v => w # Main /\ current >= w
  BY <1>3 DEF current
<1>8. CASE w = Main
  <2>1. b <= v /\ current <= v /\ current # -1
    BY <1>1, <1>2, <1>6, <1>7, <1>8
  <2>2. b >= current \/ b = w
    BY <1>1, <1>4, <1>8, <2>1
  <2>3. QED
    BY <1>1, <1>2, <1>5, <2>1, <2>2 DEF current, w, v
<1>9. CASE w # Main
  <2>1. w > v
    BY <1>3, <1>9
  <2>2. Seen(b) \/ b = w
    <3>1. CASE current <= v
      BY <1>1, <1>4, <1>5, <1>6, <2>1, <3>1
    <3>2. CASE ~(current <= v)
      <4>1. current > w
        BY <1>1, <1>2, <1>7, <3>2
      <4>2. QED
        BY <1>1, <1>4, <1>5, <1>6, <2>1, <3>2, <4>1
    <3>3. QED
      BY <3>1, <3>2
  <2>3. QED
    BY <1>2, <2>2 DEF current, w, v
<1>10. QED
  BY <1>8, <1>9

(* When the search is back at the block before its first, it has seen all. *)
LEMMA SeenAll ==
  ASSUME Sane(heap), m_pCurrentBlock \in DOMAIN heap,
         pNextBlock = pStartBlock, NEW b \in DOMAIN heap
  PROVE  Seen(b) /\ pNextBlock # m_pCurrentBlock
<1> DEFINE current == m_pCurrentBlock
           v == pNextBlock
<1>1. /\ v \in DOMAIN heap /\ heap[v].pNext = current
  BY Ring DEF Sane, pStartBlock
<1>2. /\ current \in Int /\ v \in Int /\ b \in Int /\ current >= -1 /\ b >= -1
      /\ v >= -1 /\ Main = -1
  BY <1>1, BlockFields DEF Sane, Main
<1>3. /\ current # Main => current > v
      /\ \A c \in DOMAIN heap : c > v => current # Main /\ c >= current
      /\ v # current
  BY <1>1, NextIsAbove
<1>4. Seen(b) <=> IF current <= v THEN current <= b /\ b <= v
                                  ELSE b >= current \/ b <= v
  BY DEF Seen
<1>5. b > v => current # Main /\ b >= current
  BY <1>3
<1> HIDE DEF current, v
<1>6. Seen(b) /\ v # current
  BY <1>2, <1>3, <1>4, <1>5
<1>7. QED
  BY <1>6 DEF current, v

(* A turn of the search finds the next block, or leaves it behind. *)
LEMMA SearchTurnEffect ==
  ASSUME IInv, SearchInv, SearchTurn
  PROVE  SearchInv'
<1> SUFFICES ASSUME pc' = "alloc" PROVE SearchInv'
  BY DEF SearchInv
<1> DEFINE v == pNextBlock
           w == heap[v].pNext
<1>1. /\ pc = "alloc" /\ v # pStartBlock /\ pNextBlock' = w
      /\ pCandidateBlock' = IF IsFree(heap, v) THEN pCandidateBlock ELSE w
      /\ ~Candidate(pCandidateBlock')
      /\ UNCHANGED <<heap, m_pCurrentBlock, call>>
  BY DEF SearchTurn
<1>2. /\ Sane(heap) /\ NoFreeNeighbours(heap) /\ v \in DOMAIN heap
      /\ m_pCurrentBlock \in DOMAIN heap
  BY <1>1 DEF IInv, Books, CallInv
<1>3. w \in DOMAIN heap /\ w # m_pCurrentBlock
  <2>1. w \in DOMAIN heap /\ heap[w].pPrevious = v
    BY <1>2, Ring DEF Sane
  <2>2. v # heap[m_pCurrentBlock].pPrevious
    BY <1>1 DEF pStartBlock
  <2>3. QED
    BY <2>1, <2>2
(* If v is free its next is not; if it is in use, that is the candidate.   *)
<1>4. ~Candidate(w)
  BY <1>1, <1>2 DEF Candidate, NoFreeNeighbours
<1>5. v = m_pCurrentBlock => ~Candidate(v)
  BY <1>1 DEF Candidate, SearchInv
<1>6. ASSUME NEW b \in DOMAIN heap, Seen(b)'
      PROVE  ~Candidate(b)
  <2>1. Seen(b) \/ b = w
    BY <1>1, <1>2, <1>6, SeenNext
  <2>2. CASE b = w
    BY <1>4, <2>2
  <2>3. CASE Seen(b) /\ v = m_pCurrentBlock
    <3>1. b = v
      BY <1>2, <2>3, BlockFields DEF Seen, Sane
    <3>2. QED
      BY <1>5, <2>3, <3>1
  <2>4. CASE Seen(b) /\ v # m_pCurrentBlock
    BY <1>1, <1>6, <2>4 DEF SearchInv
  <2>5. QED
    BY <2>1, <2>2, <2>3, <2>4
<1>7. \A b \in DOMAIN heap' : Seen(b)' => ~Candidate(b)'
  BY <1>1, <1>6 DEF Candidate
<1>8. QED
  BY <1>1, <1>3, <1>7 DEF SearchInv

(* A search that fails has seen every block. *)
LEMMA SearchFailsEffect ==
  ASSUME IInv, SearchInv, SearchFails
  PROVE  \A b \in DOMAIN heap : ~Candidate(b)
<1>1. /\ pc = "alloc" /\ pNextBlock = pStartBlock
  BY DEF SearchFails
<1>2. Sane(heap) /\ m_pCurrentBlock \in DOMAIN heap
  BY <1>1 DEF IInv, Books, CallInv
<1>3. pNextBlock # m_pCurrentBlock
  BY <1>1, <1>2, SeenAll
<1>4. \A b \in DOMAIN heap : Seen(b)
  BY <1>1, <1>2, SeenAll
<1>5. QED
  BY <1>1, <1>3, <1>4 DEF SearchInv

(* The other steps start a search, or leave none under way. *)
LEMMA SearchSteps == IInv /\ SearchInv /\ [Next]_vars => SearchInv'
<1> SUFFICES ASSUME IInv, SearchInv, [Next]_vars PROVE SearchInv'
  OBVIOUS
<1>1. CASE SearchTurn
  BY <1>1, SearchTurnEffect
<1>2. CASE Alloc \/ ReallocMoves
  <2>1. /\ pNextBlock' = m_pCurrentBlock /\ pCandidateBlock' = m_pCurrentBlock
        /\ UNCHANGED m_pCurrentBlock
    BY <1>2 DEF Alloc, ReallocMoves, StartSearch
  <2>2. QED
    BY <2>1 DEF SearchInv
<1>3. CASE UNCHANGED vars
  BY <1>3 DEF SearchInv, Seen, Candidate, vars, search
<1>4. CASE \/ SearchFails \/ AllocTakes \/ Realloc \/ ReallocGrows
           \/ ReallocShrinks \/ ReallocKeeps \/ FreePtr \/ FreeTag
           \/ FreeTagTurn
  <2>1. pc' # "alloc"
    BY <1>4 DEF SearchFails, AllocTakes, Realloc, ReallocGrows,
                ReallocShrinks, ReallocKeeps, FreePtr, FreeTag, FreeTagTurn,
                Call, Return
  <2>2. QED
    BY <2>1 DEF SearchInv
<1>5. QED
  BY <1>1, <1>2, <1>3, <1>4 DEF Next

(* Wherever Alloc's search starts, whatever blocks it skips: it gives up   *)
(* only if no free block is large enough for the request.                  *)
THEOREM AllocSearchesAll == Spec => AllocFailsOnlyWhenFull
<1>1. Init => SearchInv
  BY DEF Init, SearchInv
<1>2. ASSUME IInv, SearchInv, [Next]_vars
      PROVE  [pc = "alloc" /\ pc' = "idle" =>
                \A b \in DOMAIN heap : ~Candidate(b)]_vars
  <2>1. CASE SearchFails
    BY <1>2, <2>1, SearchFailsEffect
  <2>2. CASE SearchTurn
    BY <2>2 DEF SearchTurn
  <2>3. CASE UNCHANGED vars
    BY <2>3
  <2>4. CASE \/ Alloc \/ AllocTakes \/ Realloc \/ ReallocGrows \/ ReallocMoves
             \/ ReallocShrinks \/ ReallocKeeps \/ FreePtr \/ FreeTag
             \/ FreeTagTurn
    <3>1. pc # "alloc"
      BY <2>4 DEF Alloc, AllocTakes, Realloc, ReallocGrows, ReallocMoves,
                  ReallocShrinks, ReallocKeeps, FreePtr, FreeTag, FreeTagTurn,
                  Call
    <3>2. QED
      BY <3>1
  <2>5. QED
    BY <1>2, <2>1, <2>2, <2>3, <2>4 DEF Next
<1>3. QED
  BY <1>1, <1>2, ZoneStarts, ZoneSteps, SearchSteps, PTL
     DEF Spec, AllocFailsOnlyWhenFull

----------------------------------------------------------------------------
(* The allocator is a heap. *)

(* The region of block b, and those of all blocks in use. *)
LentAt(h, b) == [at |-> 16 * (b + Header),
                 bytes |-> 16 * (h[b].nSize - Header) - 4,
                 tag |-> h[b].Tag]
LentBy(h) == {LentAt(h, b) : b \in Used(h)}

(* What is lent out, in the words of the program. *)
LEMMA LiveIsLent == live = LentBy(heap) /\ live' = LentBy(heap')
  BY InUseIsUsed DEF live, Lent, LentBy, LentAt

(* Two blocks do not overlap. *)
LEMMA BlocksApart ==
  ASSUME NEW h, Sane(h), NEW b \in DOMAIN h \ {Main},
         NEW c \in DOMAIN h \ {Main}, b # c
  PROVE  b + h[b].nSize <= c \/ c + h[c].nSize <= b
<1>1. /\ b \in Int /\ c \in Int /\ h[b].nSize \in Nat /\ h[c].nSize \in Nat
      /\ Limit(h, b) \in Int /\ Limit(h, c) \in Int
  BY BlockFields, HeapAssumption DEF Sane, Limit
<1>2. /\ b + h[b].nSize <= Limit(h, b) /\ (c > b => c >= Limit(h, b))
      /\ c + h[c].nSize <= Limit(h, c) /\ (b > c => b >= Limit(h, c))
  BY DEF Sane, Ordered
<1>3. QED
  BY <1>1, <1>2

(* The fields of a region; it lies in the heap. *)
LEMMA RegionFields ==
  ASSUME NEW h, Sane(h), NEW b \in Used(h)
  PROVE  /\ b \in DOMAIN h \ {Main} /\ b \in Int /\ h[b].nSize \in Nat
         /\ LentAt(h, b) \in Zone!Region
         /\ LentAt(h, b).at = 16 * (b + Header)
         /\ LentAt(h, b).bytes = 16 * (h[b].nSize - Header) - 4
         /\ LentAt(h, b).at + LentAt(h, b).bytes <= 16 * HeapSize
<1>1. b \in DOMAIN h \ {Main} /\ ~IsFree(h, b)
  BY DEF Used
<1>2. /\ b \in Nat /\ h[b].nSize \in Nat /\ h[b].nSize >= 3
      /\ h[b].Tag \in Tags /\ Limit(h, b) \in Int /\ Limit(h, b) <= HeapSize
      /\ b + h[b].nSize <= Limit(h, b)
  <2>1. /\ b \in Nat /\ h[b].nSize \in Nat /\ h[b].Tag \in Tags
    BY <1>1, BlockFields, HeapAssumption DEF Sane, Ordered, IsFree
  <2>2. h[b].nSize >= 3 /\ b + h[b].nSize <= Limit(h, b)
    BY <1>1 DEF Sane, Ordered, Header
  <2>3. h[b].pNext \in DOMAIN h
    BY <1>1, NextIsAbove
  <2>4. Limit(h, b) \in Int /\ Limit(h, b) <= HeapSize
    BY <2>3, HeapAssumption DEF Limit, Sane, Ordered
  <2>5. QED
    BY <2>1, <2>2, <2>4
<1>3. /\ 16 * (b + 2) \in Nat /\ 16 * (h[b].nSize - 2) - 4 \in Nat
      /\ 16 * (b + 2) + (16 * (h[b].nSize - 2) - 4) <= 16 * HeapSize
  BY <1>2, HeapAssumption
<1>4. QED
  BY <1>1, <1>2, <1>3 DEF LentAt, Zone!Region, Header

(* Regions of blocks apart are apart. *)
LEMMA RegionsApart ==
  ASSUME NEW b \in Int, NEW m \in Int, NEW c \in Int, NEW n \in Int,
         m > Header, n > Header, b + m <= c \/ c + n <= b,
         NEW r, r.at = 16 * (b + Header), r.bytes = 16 * (m - Header) - 4,
         NEW s, s.at = 16 * (c + Header), s.bytes = 16 * (n - Header) - 4
  PROVE  Zone!Apart(r, s)
  BY DEF Header, Zone!Apart

(* Without one region there are those of the other blocks. *)
LEMMA OtherRegions ==
  ASSUME NEW h, Sane(h), NEW b \in Used(h)
  PROVE  LentBy(h) \ {LentAt(h, b)} = {LentAt(h, x) : x \in Used(h) \ {b}}
<1>1. ASSUME NEW x \in Used(h), LentAt(h, x) = LentAt(h, b) PROVE x = b
  BY <1>1, RegionFields DEF Header
<1>2. QED
  BY <1>1 DEF LentBy

(* A block lent out fits between the regions that stay, and joins them.    *)
LEMMA LentFits ==
  ASSUME NEW h, Sane(h), NEW g, Sane(g), NEW gone, NEW b,
         Lends(g, h, gone, b),
         NEW rest, rest = {LentAt(h, x) : x \in Used(h) \ (gone \cup {b})}
  PROVE  /\ Zone!Fits(LentAt(g, b), rest)
         /\ LentBy(g) = rest \cup {LentAt(g, b)}
<1>1. /\ Used(g) = (Used(h) \ gone) \cup {b} /\ b \in Used(g)
      /\ \A x \in Used(h) \ (gone \cup {b}) :
           x \in Used(g) /\ LentAt(g, x) = LentAt(h, x)
  BY DEF Lends, LentAt
<1>2. LentBy(g) = rest \cup {LentAt(g, b)}
  <2>1. Used(g) = (Used(h) \ (gone \cup {b})) \cup {b}
    BY <1>1
  <2>2. QED
    BY <1>1, <2>1 DEF LentBy
<1>3. ASSUME NEW x \in Used(g), x # b
      PROVE  Zone!Apart(LentAt(g, b), LentAt(g, x))
  <2>1. /\ x \in DOMAIN g \ {Main} /\ b \in DOMAIN g \ {Main}
        /\ x \in Int /\ b \in Int
        /\ g[x].nSize \in Int /\ g[b].nSize \in Int
        /\ g[x].nSize > Header /\ g[b].nSize > Header
    BY <1>1, RegionFields DEF Used, Sane, Ordered, Header
  <2>2. b + g[b].nSize <= x \/ x + g[x].nSize <= b
    BY <1>3, <2>1, BlocksApart
  <2>3. /\ LentAt(g, b).at = 16 * (b + Header)
        /\ LentAt(g, b).bytes = 16 * (g[b].nSize - Header) - 4
        /\ LentAt(g, x).at = 16 * (x + Header)
        /\ LentAt(g, x).bytes = 16 * (g[x].nSize - Header) - 4
    BY <1>1, RegionFields
  <2>4. QED
    BY <2>1, <2>2, <2>3, RegionsApart
<1>4. \A r \in rest : Zone!Apart(LentAt(g, b), r)
  <2>1. ASSUME NEW x \in Used(h) \ (gone \cup {b})
        PROVE  Zone!Apart(LentAt(g, b), LentAt(h, x))
    <3>1. x \in Used(g) /\ x # b /\ LentAt(g, x) = LentAt(h, x)
      BY <1>1
    <3>2. Zone!Apart(LentAt(g, b), LentAt(g, x))
      BY <1>3, <3>1
    <3>3. QED
      BY <3>1, <3>2
  <2>2. QED
    BY <2>1
<1>5. Zone!Fits(LentAt(g, b), rest)
  BY <1>1, <1>4, RegionFields DEF Zone!Fits
<1>6. QED
  BY <1>2, <1>5

(* A region has the bytes that were asked for. *)
LEMMA LentEnough ==
  ASSUME NEW h, Sane(h), NEW b \in Used(h), NEW n \in Requests,
         h[b].nSize >= Padded(n)
  PROVE  LentAt(h, b).bytes >= n
<1>1. /\ Padded(n) \in Nat /\ 16 * (Padded(n) - Header) - 4 >= n /\ n \in Nat
  BY PaddedEnough
<1>2. /\ LentAt(h, b).bytes = 16 * (h[b].nSize - Header) - 4
      /\ h[b].nSize \in Nat
  BY RegionFields
<1>3. QED
  BY <1>1, <1>2 DEF Header

(* Realloc in place resizes a region where it is. *)
LEMMA ResizeInPlace ==
  ASSUME Sane(heap), Sane(heap'), NEW b \in Used(heap),
         Lends(heap', heap, {}, b), call.nSize \in Requests,
         heap'[b].nSize = Padded(call.nSize),
         asked # 0, asked' = 0, asked = call.nSize
  PROVE  Zone!Resize
<1> DEFINE s == LentAt(heap, b)
           r == LentAt(heap', b)
           rest == {LentAt(heap, x) : x \in Used(heap) \ {b}}
<1>1. rest = live \ {s} /\ s \in live
  BY LiveIsLent, OtherRegions DEF LentBy
<1>2. Zone!Fits(r, rest) /\ live' = rest \cup {r}
  <2>1. rest = {LentAt(heap, x) : x \in Used(heap) \ ({} \cup {b})}
    OBVIOUS
  <2> HIDE DEF rest
  <2>2. Zone!Fits(r, rest) /\ LentBy(heap') = rest \cup {r}
    BY <2>1, LentFits
  <2>3. QED
    BY <2>2, LiveIsLent
<1>3. b \in Used(heap')
  BY DEF Lends
<1>4. r.bytes >= asked
  <2>1. heap'[b].nSize >= Padded(call.nSize)
    BY PaddedEnough
  <2>2. QED
    BY <1>3, <2>1, LentEnough
<1>5. r.at = s.at
  BY DEF LentAt
<1> HIDE DEF r, s, rest
<1>6. r \in live'
  BY <1>2
<1>7. QED
  BY <1>1, <1>2, <1>4, <1>5, <1>6 DEF Zone!Resize

(* Giving a block back takes back its region. *)
LEMMA GivenBack ==
  ASSUME Sane(heap), NEW b \in Used(heap), SameUsed(heap', heap, {b}),
         UNCHANGED asked
  PROVE  Zone!TakeBack
<1>1. LentBy(heap') = {LentAt(heap, x) : x \in Used(heap) \ {b}}
  BY DEF LentBy, LentAt, SameUsed
<1>2. /\ live' = live \ {LentAt(heap, b)} /\ LentAt(heap, b) \in live
  BY <1>1, LiveIsLent, OtherRegions DEF LentBy
<1>3. QED
  BY <1>2 DEF Zone!TakeBack

(* Alloc lends a region; a Realloc that called it moves one: its new block *)
(* is apart from the old one, from which the bytes are copied.             *)
LEMMA AllocTakesLends ==
  ASSUME IInv, AllocTakes
  PROVE  Zone!Lend \/ Zone!Resize
<1> DEFINE b == pCandidateBlock
           p == call.pPtr
           gone == IF p = Nil THEN {} ELSE {p}
           r == LentAt(heap', b)
           rest == {LentAt(heap, x) : x \in Used(heap) \ (gone \cup {b})}
<1>1. /\ Books' /\ call.nSize \in Requests /\ Sane(heap)
      /\ gone \subseteq Used(heap) /\ b \notin Used(heap)
      /\ b \in DOMAIN heap \ {Main} /\ b \in Used(heap')
      /\ Lends(heap', heap, gone, b)
      /\ heap'[b].nSize >= Padded(call.nSize)
      /\ heap'[b].nSize <= heap[b].nSize
  BY AllocTakesEffect
<1>2. pc = "found" /\ pc' = "idle" /\ ~smashed'
  BY DEF AllocTakes, Return, IInv, CallInv
<1>3. Sane(heap')
  BY <1>1, <1>2 DEF Books
<1>4. asked = call.nSize /\ asked # 0 /\ asked' = 0
  BY <1>1, <1>2, PaddedEnough DEF asked
<1>5. Zone!Fits(r, rest) /\ live' = rest \cup {r}
  BY <1>1, <1>3, LentFits, LiveIsLent
<1>6. r.bytes >= asked
  BY <1>1, <1>3, <1>4, LentEnough
<1>7. CASE p = Nil
  <2>1. Used(heap) \ (gone \cup {b}) = Used(heap)
    BY <1>1, <1>7
  <2>2. rest = live
    BY <2>1, LiveIsLent DEF LentBy
  <2> HIDE DEF r, rest
  <2>3. QED
    BY <1>4, <1>5, <1>6, <2>2 DEF Zone!Lend
<1>8. CASE p # Nil
  <2> DEFINE s == LentAt(heap, p)
  <2>1. p \in Used(heap) /\ p # b
    BY <1>1, <1>8
  <2>2. Used(heap) \ (gone \cup {b}) = Used(heap) \ {p}
    BY <1>1, <1>8
  <2>3. rest = live \ {s} /\ s \in live
    BY <1>1, <2>1, <2>2, LiveIsLent, OtherRegions DEF LentBy
  <2>4. Zone!Apart(r, s)
    <3>1. /\ p \in DOMAIN heap \ {Main} /\ p \in Int
          /\ heap[p].nSize \in Int /\ heap[p].nSize > Header
          /\ s.at = 16 * (p + Header)
          /\ s.bytes = 16 * (heap[p].nSize - Header) - 4
      BY <1>1, <2>1, RegionFields DEF Used, Sane, Ordered, Header
    <3>2. /\ b \in Int /\ heap'[b].nSize \in Int /\ heap'[b].nSize > Header
          /\ r.at = 16 * (b + Header)
          /\ r.bytes = 16 * (heap'[b].nSize - Header) - 4
      BY <1>1, <1>3, RegionFields DEF Used, Sane, Ordered, Header
    <3>3. b + heap[b].nSize <= p \/ p + heap[p].nSize <= b
      BY <1>1, <2>1, <3>1, BlocksApart
    <3>4. heap[b].nSize \in Int
      BY <1>1, BlockFields DEF Sane
    <3>5. b + heap'[b].nSize <= p \/ p + heap[p].nSize <= b
      BY <1>1, <3>1, <3>2, <3>3, <3>4
    <3> HIDE DEF r, s
    <3>6. QED
      BY <3>1, <3>2, <3>5, RegionsApart
  <2> HIDE DEF r, s, rest
  <2>5. r \in live'
    BY <1>5
  <2>6. QED
    BY <1>4, <1>5, <1>6, <2>3, <2>4, <2>5 DEF Zone!Resize
<1>9. QED
  BY <1>7, <1>8

(* Every step that smashes no header is one of a heap, or none of it sees. *)
LEMMA ZoneStepsAreHeapSteps ==
  ASSUME IInv, IInv', [Next]_vars
  PROVE  [smashed' \/ Zone!Next]_<<live, asked>>
<1>1. asked = IF pc \in {"alloc", "found", "realloc"} THEN call.nSize ELSE 0
  BY DEF asked
<1>2. asked' = IF pc' \in {"alloc", "found", "realloc"} THEN call'.nSize ELSE 0
  BY DEF asked
<1>3. UNCHANGED heap => UNCHANGED live
  BY LiveIsLent
<1>4. /\ ~smashed => Sane(heap)
      /\ ~smashed' => Sane(heap')
  BY DEF IInv, Books
<1>5. pc \in {"alloc", "found", "realloc"} => asked \in Nat \ {0}
  BY <1>1, RequestAssumption DEF IInv, CallInv
<1>6. CASE Alloc \/ Realloc
  <2>1. /\ pc = "idle" /\ pc' \in {"alloc", "realloc"} /\ UNCHANGED heap
    BY <1>6 DEF Alloc, Realloc, Call
  <2>2. asked' \in Nat \ {0}
    BY <1>2, <2>1, RequestAssumption DEF IInv, CallInv
  <2>3. Zone!Ask
    BY <1>1, <1>3, <2>1, <2>2 DEF Zone!Ask
  <2>4. QED
    BY <2>3 DEF Zone!Next
<1>7. CASE SearchFails
  <2>1. pc = "alloc" /\ pc' = "idle" /\ UNCHANGED heap
    BY <1>7 DEF SearchFails, Return
  <2>2. Zone!Refuse
    BY <1>2, <1>3, <1>5, <2>1 DEF Zone!Refuse
  <2>3. QED
    BY <2>2 DEF Zone!Next
<1>8. CASE SearchTurn \/ ReallocMoves
  <2>1. /\ pc \in {"alloc", "found", "realloc"}
        /\ pc' \in {"alloc", "found", "realloc"} /\ UNCHANGED <<heap, call>>
    BY <1>8 DEF SearchTurn, ReallocMoves
  <2>2. QED
    BY <1>1, <1>2, <1>3, <2>1
<1>9. CASE AllocTakes
  BY <1>9, AllocTakesLends DEF Zone!Next
<1>10. CASE (ReallocGrows \/ ReallocShrinks \/ ReallocKeeps) /\ ~smashed'
  <2>1. /\ pc = "realloc" /\ pc' = "idle"
    BY <1>10 DEF ReallocGrows, ReallocShrinks, ReallocKeeps, Return
  <2>2. /\ ~smashed /\ call.nSize \in Requests /\ call.pPtr \in Used(heap)
    BY <2>1 DEF IInv, CallInv
  <2>3. /\ Lends(heap', heap, {}, call.pPtr)
        /\ heap'[call.pPtr].nSize = Padded(call.nSize)
    BY <1>10, ReallocGrowsEffect, ReallocShrinksEffect, ReallocKeepsEffect
  <2>4. asked = call.nSize /\ asked # 0 /\ asked' = 0
    BY <1>1, <1>2, <1>5, <2>1
  <2>5. Zone!Resize
    BY <1>4, <1>10, <2>2, <2>3, <2>4, ResizeInPlace
  <2>6. QED
    BY <2>5 DEF Zone!Next
<1>11. CASE smashed'
  BY <1>11
<1>12. CASE FreePtr
  <2>1. PICK b \in Used(heap) : FreeBlock(b)
    BY <1>12, InUseIsUsed DEF FreePtr
  <2>2. ~smashed /\ UNCHANGED <<pc, call, smashed>>
    BY <1>12 DEF FreePtr
  <2>3. SameUsed(heap', heap, {b})
    BY <2>1, <2>2, FreeBlockEffect
  <2>4. UNCHANGED asked
    BY <1>1, <1>2, <2>2
  <2>5. Zone!TakeBack
    BY <1>4, <2>2, <2>3, <2>4, GivenBack
  <2>6. QED
    BY <2>5 DEF Zone!Next
<1>13. CASE FreeTag
  <2>1. pc = "idle" /\ pc' = "freeTag" /\ UNCHANGED heap
    BY <1>13 DEF FreeTag, Call
  <2>2. QED
    BY <1>1, <1>2, <1>3, <2>1
<1>14. CASE FreeTagTurn
  <2>1. pc = "freeTag" /\ pc' \in {"idle", "freeTag"}
    BY <1>14 DEF FreeTagTurn, Return
  <2>2. ~smashed /\ UNCHANGED asked
    BY <1>1, <1>2, <2>1 DEF IInv, CallInv
  <2>3. CASE UNCHANGED heap
    BY <1>3, <2>2, <2>3
  <2>4. CASE pBlock \in Used(heap) /\ SameUsed(heap', heap, {pBlock})
    <3>1. Zone!TakeBack
      BY <1>4, <2>2, <2>4, GivenBack
    <3>2. QED
      BY <3>1 DEF Zone!Next
  <2>5. QED
    BY <1>14, <2>3, <2>4, FreeTagTurnEffect
<1>15. CASE UNCHANGED vars
  BY <1>1, <1>2, <1>3, <1>15 DEF vars
<1>16. QED
  BY <1>6, <1>7, <1>8, <1>9, <1>10, <1>11, <1>12, <1>13, <1>14, <1>15
     DEF Next

(* The allocator implements the heap, for any size and any requests, until *)
(* a header is smashed: what it lends out lies in the memory, has the      *)
(* bytes asked for, and overlaps no other region; freeing and resizing one *)
(* leaves the others, and a Realloc that fails leaves its block.           *)
THEOREM AllocatorIsAHeap == Spec => HeapSpec
<1>1. Init => Zone!Init
  <2> SUFFICES ASSUME Init PROVE Zone!Init
    OBVIOUS
  <2>1. asked = 0
    BY DEF Init, asked
  <2>2. InUse = {}
    BY TagAssumption DEF Init, Clear, InUse, IsFree, Main
  <2>3. live = {}
    BY <2>2 DEF live
  <2>4. QED
    BY <2>1, <2>3 DEF Zone!Init
<1>2. IInv /\ IInv' /\ [Next]_vars => [smashed' \/ Zone!Next]_<<live, asked>>
  BY ZoneStepsAreHeapSteps
<1>3. QED
  BY <1>1, <1>2, ZoneStarts, ZoneSteps, PTL DEF Spec, HeapSpec

=============================================================================
