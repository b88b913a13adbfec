------------------------------- MODULE Heap -------------------------------
(***************************************************************************)
(* What a heap promises its callers, whatever keeps its books: regions     *)
(* that are lent out lie inside the memory and apart from each other, each *)
(* has the bytes asked for, and only the call about a region disturbs it.  *)
(***************************************************************************)
EXTENDS Integers

CONSTANTS Bytes,   \* of memory
          Tags     \* what callers mark their regions with

VARIABLES live,    \* the regions lent out
          asked    \* bytes asked for by the call in progress, 0 for none

Region == [at : Nat, bytes : Nat, tag : Tags]

Apart(r, s) == r.at + r.bytes <= s.at \/ s.at + s.bytes <= r.at

Fits(r, others) == /\ r \in Region
                   /\ r.at + r.bytes <= Bytes
                   /\ \A s \in others : Apart(r, s)

Init == live = {} /\ asked = 0

Ask == asked = 0 /\ asked' \in Nat \ {0} /\ UNCHANGED live

Refuse == asked # 0 /\ asked' = 0 /\ UNCHANGED live

Lend == /\ asked # 0 /\ asked' = 0
        /\ \E r \in live' : /\ r.bytes >= asked
                            /\ Fits(r, live)
                            /\ live' = live \cup {r}

(* The region stays where it is or moves; then both exist for a moment. *)
Resize == /\ asked # 0 /\ asked' = 0
          /\ \E s \in live : \E r \in live' :
               /\ r.bytes >= asked
               /\ Fits(r, live \ {s})
               /\ r.at = s.at \/ Apart(r, s)
               /\ live' = (live \ {s}) \cup {r}

TakeBack == /\ \E s \in live : live' = live \ {s}
            /\ UNCHANGED asked

Next == Ask \/ Refuse \/ Lend \/ Resize \/ TakeBack

Spec == Init /\ [][Next]_<<live, asked>>
=============================================================================
