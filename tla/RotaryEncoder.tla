--------------------------- MODULE RotaryEncoder ---------------------------
(***************************************************************************)
(* CRotaryEncoder (src/control/rotaryencoder.cpp): which movements the     *)
(* levels of the two pins amount to.  A 4-bit transition is the pair of    *)
(* levels before and after; the transitions seen in a direction are a set, *)
(* where the code has a mask.                                              *)
(***************************************************************************)
EXTENDS Integers, FiniteSets

Types == {"Full", "Half", "Quarter"}

TransitionsPerDetent ==
  [t \in Types |-> CASE t = "Full" -> 4 [] t = "Half" -> 2 [] t = "Quarter" -> 1]

(* Seeded fault: the levels before the transition are not inverted. *)
PreviousTransition_NotInverted(t) == (t \div 4) + 4 * (t % 4)

(* The one before in the same direction. *)
PreviousTransition(t) == (t \div 4) + 4 * (3 - (t % 4))

(* Of every transition: 1 is up, 2 is down, 0 is neither. *)
nTransitions ==
  [t \in 0..15 |-> CASE t \in {2, 4, 11, 13} -> 1
                     [] t \in {1, 7, 8, 14} -> 2
                     [] OTHER -> 0]
Direction(t) == nTransitions[t]

Still == [m_nState |-> 0, previous |-> <<{}, {}>>, moved |-> 0]

(* Anything but a step-wise sequence is switch bounce, and forgotten.      *)
Contiguous(previous, t) ==
  IF PreviousTransition(t) \in previous THEN previous ELSE {}

(* ReadGPIOPins on e, when the pins show levels (DAT and CLK): moved is    *)
(* what there is to add to m_nDelta.                                       *)
ReadGPIOPins(e, levels, type) ==
  LET t == (e.m_nState * 4 + levels) % 16
      d == Direction(t)
      seen == Contiguous(e.previous[d], t) \cup {t}
      Detent == /\ Cardinality(seen) >= TransitionsPerDetent[type]
                /\ type = "Full" => levels = 3
  IN  IF d = 0 THEN [e EXCEPT !.m_nState = t, !.moved = 0]
      ELSE IF ~Detent
      THEN [m_nState |-> t, previous |-> [e.previous EXCEPT ![d] = seen], moved |-> 0]
      ELSE [m_nState |-> t, previous |-> <<{}, {}>>, moved |-> IF d = 1 THEN 1 ELSE -1]

(* AccelThresholdMillis and RotaryAccelLookupTable. *)
Acceleration(ms) == IF ms < 32 THEN 5 + (11 * ms * ms) \div 961 ELSE 1

(* The product is kept in 8 bits with a sign. *)
Signed8(n) == ((n + 128) % 256) - 128
=============================================================================
