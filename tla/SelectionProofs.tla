-------------------------- MODULE SelectionProofs --------------------------
(***************************************************************************)
(* Proofs about the controls and the synths' selection, for any setups,    *)
(* queue size and SoundFonts: a press of a button is reported at most      *)
(* once, a detent of the encoder counts once, what is to hear is what      *)
(* counts as selected, and every variable keeps to its type: the event     *)
(* queue never overflows, and the current synth is one that is there.      *)
(***************************************************************************)
EXTENDS Selection, FiniteSetTheorems, SequenceTheorems, WellFoundedInduction, TLAPS

(* The press is down in m_nButtonState without an event, and Update has yet *)
(* to look at the button, in this round or in the next one.                 *)
Owed(b) ==
  /\ b \in m_nButtonState \ m_nLastButtonState
  /\ mpc = "buttons" => \E j \in k..Len(Buttons) : Buttons[j] = b

(* What makes ReportedOnce inductive: there is a press to report wherever  *)
(* Update still finds an edge.                                             *)
ReportsInv ==
  /\ setup \in Setups
  /\ k \in Nat \ {0}
  /\ unreported \in [Fitted -> Int]
  /\ \A b \in Fitted : unreported[b] >= (IF Owed(b) THEN 1 ELSE 0)

(* Of the steps that change neither the buttons' states nor what is        *)
(* reported, only those outside of Update's loop touch its place.          *)
LEMMA ReportsKept ==
  ASSUME ReportsInv,
         UNCHANGED <<setup, m_nButtonState, m_nLastButtonState, unreported>>,
         (mpc # "buttons" /\ k' \in Nat \ {0}) \/ UNCHANGED <<mpc, k>>
  PROVE  ReportsInv'
<1>1. Buttons' = Buttons /\ Fitted' = Fitted
  BY DEF Buttons, Fitted
<1>2. ASSUME NEW b \in Fitted, Owed(b)' PROVE Owed(b)
  <2>1. b \in m_nButtonState \ m_nLastButtonState
    BY <1>2 DEF Owed
  <2>2. CASE mpc # "buttons"
    BY <2>1, <2>2 DEF Owed
  <2>3. CASE UNCHANGED <<mpc, k>>
    BY <1>1, <1>2, <2>3 DEF Owed
  <2>4. QED
    BY <2>2, <2>3
<1>3. \A b \in Fitted : unreported'[b] >= (IF Owed(b)' THEN 1 ELSE 0)
  <2>1. TAKE b \in Fitted
  <2>2. unreported'[b] \in Int /\ unreported'[b] >= (IF Owed(b) THEN 1 ELSE 0)
    BY DEF ReportsInv
  <2>3. QED
    BY <1>2, <2>2
<1>4. QED
  BY <1>1, <1>3 DEF ReportsInv

(* The interrupt finds a button down that it had not: a press more. *)
LEMMA DebounceReports ==
  ASSUME ReportsInv, InterruptHandler
  PROVE  ReportsInv'
<1> USE DEF InterruptHandler, DebounceButtonState, pins, updating
<1>1. /\ Buttons' = Buttons /\ Fitted' = Fitted
      /\ UNCHANGED <<setup, mpc, k, m_nLastButtonState>>
  BY DEF Buttons, Fitted
<1>2. unreported' = [b \in Fitted |->
         unreported[b] + IF b \in m_nButtonState' \ m_nButtonState THEN 1 ELSE 0]
  OBVIOUS
<1>3. ASSUME NEW b \in Fitted
      PROVE  /\ unreported'[b] \in Int
             /\ unreported'[b] >= (IF Owed(b)' THEN 1 ELSE 0)
  <2>1. unreported[b] \in Int /\ unreported[b] >= (IF Owed(b) THEN 1 ELSE 0)
    BY DEF ReportsInv
  <2>2. unreported'[b] = unreported[b]
                         + IF b \in m_nButtonState' \ m_nButtonState THEN 1 ELSE 0
    BY <1>2
  <2>3. CASE b \in m_nButtonState' \ m_nButtonState
    BY <2>1, <2>2, <2>3
  <2>4. CASE b \notin m_nButtonState' \ m_nButtonState
    <3>1. Owed(b)' => Owed(b)
      BY <1>1, <2>4 DEF Owed
    <3>2. QED
      BY <2>1, <2>2, <2>4, <3>1
  <2>5. QED
    BY <2>3, <2>4
<1>4. unreported' \in [Fitted -> Int]
  BY <1>2, <1>3
<1>5. QED
  BY <1>1, <1>3, <1>4 DEF ReportsInv

(* Update reports the press that it owes, and does not come back to the    *)
(* button before the state has been remembered.                            *)
LEMMA LookingReports ==
  ASSUME ReportsInv, LooksAtButton,
         UNCHANGED <<setup, m_nButtonState>>
  PROVE  ReportsInv'
<1> USE DEF LooksAtButton
<1>1. /\ Buttons' = Buttons /\ Fitted' = Fitted
      /\ UNCHANGED <<mpc, m_nLastButtonState>> /\ mpc = "buttons" /\ k' = k + 1
  BY DEF Buttons, Fitted
<1>2. Buttons \in Seq(Button1..EncoderButton) /\ IsInjective(Buttons)
  BY ButtonsAssumption DEF ReportsInv, Buttons
<1>3. /\ k \in DOMAIN Buttons /\ Buttons[k] \in Fitted
  BY <1>2 DEF ReportsInv, Fitted, Range
<1>4. ASSUME NEW b \in Fitted, Owed(b)' PROVE Owed(b) /\ b # Buttons[k]
  <2>1. PICK j \in k'..Len(Buttons) : Buttons[j] = b
    BY <1>1, <1>4 DEF Owed
  <2>2. j \in k..Len(Buttons) /\ j \in DOMAIN Buttons /\ j # k
    BY <1>1, <1>2, <2>1 DEF ReportsInv
  <2>3. b # Buttons[k]
    BY <1>2, <1>3, <2>1, <2>2 DEF IsInjective
  <2>4. QED
    BY <1>1, <1>4, <2>1, <2>2, <2>3 DEF Owed
<1>5. CASE UNCHANGED unreported
  <2>1. ASSUME NEW b \in Fitted PROVE unreported'[b] >= (IF Owed(b)' THEN 1 ELSE 0)
    <3>1. unreported[b] \in Int /\ unreported[b] >= (IF Owed(b) THEN 1 ELSE 0)
      BY DEF ReportsInv
    <3>2. QED
      BY <1>4, <1>5, <3>1
  <2>2. QED
    BY <1>1, <1>5, <2>1 DEF ReportsInv
<1>6. CASE /\ Buttons[k] \in m_nButtonState \ m_nLastButtonState
           /\ unreported' = [unreported EXCEPT ![Buttons[k]] = @ - 1]
  <2>1. Owed(Buttons[k])
    BY <1>1, <1>2, <1>3, <1>6 DEF Owed, ReportsInv
  <2>2. ASSUME NEW b \in Fitted
        PROVE  /\ unreported'[b] \in Int
               /\ unreported'[b] >= (IF Owed(b)' THEN 1 ELSE 0)
    <3>1. unreported[b] \in Int /\ unreported[b] >= (IF Owed(b) THEN 1 ELSE 0)
      BY DEF ReportsInv
    <3>2. unreported'[b] = IF b = Buttons[k] THEN unreported[b] - 1 ELSE unreported[b]
      BY <1>3, <1>6 DEF ReportsInv
    <3>3. QED
      BY <1>4, <2>1, <3>1, <3>2
  <2>3. unreported' \in [Fitted -> Int]
    BY <1>6, <2>2 DEF ReportsInv
  <2>4. QED
    BY <1>1, <2>2, <2>3 DEF ReportsInv
<1>7. QED
  BY <1>5, <1>6

(* What has been remembered is owed no more. *)
LEMMA RememberingReports ==
  ASSUME ReportsInv, Remembers, UNCHANGED <<setup, m_nButtonState, unreported>>
  PROVE  ReportsInv'
<1> USE DEF Remembers
<1>1. Buttons' = Buttons /\ Fitted' = Fitted
  BY DEF Buttons, Fitted
<1>2. \A b \in Fitted : ~Owed(b)'
  BY DEF Owed
<1>3. ASSUME NEW b \in Fitted PROVE unreported'[b] >= 0
  <2>1. unreported[b] \in Int /\ unreported[b] >= (IF Owed(b) THEN 1 ELSE 0)
    BY DEF ReportsInv
  <2>2. QED
    BY <2>1
<1>4. QED
  BY <1>1, <1>2, <1>3 DEF ReportsInv

(* Nothing is owed at the start. *)
LEMMA ReportsStart == Init => ReportsInv
BY DEF Init, ControlsInit, ReportsInv, Owed

(* A turn of Update. *)
LEMMA UpdateReports ==
  ASSUME ReportsInv, Update
  PROVE  ReportsInv'
<1>1. UNCHANGED <<setup, m_nButtonState>>
  BY DEF Update
<1>2. CASE UpdateBegins /\ UNCHANGED unreported
  BY <1>1, <1>2, ReportsKept DEF UpdateBegins
<1>3. CASE LooksAtButton
  BY <1>1, <1>3, LookingReports
<1>4. CASE Remembers /\ UNCHANGED unreported
  BY <1>1, <1>4, RememberingReports
<1>5. CASE Repeats /\ UNCHANGED unreported
  <2>1. mpc # "buttons" /\ k' \in Nat \ {0} /\ UNCHANGED m_nLastButtonState
    BY <1>5 DEF Repeats, updating, ReportsInv
  <2>2. QED
    BY <1>1, <1>5, <2>1, ReportsKept
<1>6. CASE EncoderReads /\ UNCHANGED unreported
  <2>1. mpc # "buttons" /\ k' \in Nat \ {0} /\ UNCHANGED m_nLastButtonState
    BY <1>6 DEF EncoderReads, ReportsInv
  <2>2. QED
    BY <1>1, <1>6, <2>1, ReportsKept
<1>7. CASE EncoderMoved /\ UNCHANGED unreported
  <2>1. mpc # "buttons" /\ k' \in Nat \ {0} /\ UNCHANGED m_nLastButtonState
    BY <1>7 DEF EncoderMoved, ReportsInv
  <2>2. QED
    BY <1>1, <1>7, <2>1, ReportsKept
<1>8. QED
  BY <1>2, <1>3, <1>4, <1>5, <1>6, <1>7 DEF Update

(* The rest of the main task is not at the buttons; and neither the UI     *)
(* task, nor time, nor the user touches what Update looks at.              *)
LEMMA ReportsStep ==
  ASSUME ReportsInv, [Next]_vars
  PROVE  ReportsInv'
<1> DEFINE Same == UNCHANGED <<setup, m_nButtonState, m_nLastButtonState, unreported, k>>
<1>1. ASSUME Same, mpc # "buttons" \/ UNCHANGED mpc PROVE ReportsInv'
  <2>1. k' \in Nat \ {0}
    BY <1>1 DEF ReportsInv
  <2>2. QED
    BY <1>1, <2>1, ReportsKept
<1>2. ASSUME UNCHANGED <<setup, controls>> PROVE Same
  BY <1>2 DEF controls, sampling, updating
<1>3. CASE MainTask
  <2>1. CASE UpdateControls
    BY <2>1, UpdateReports DEF UpdateControls
  <2>2. CASE ~UpdateControls
    <3>1. mpc # "buttons" /\ UNCHANGED <<setup, controls>>
      BY <1>3, <2>2 DEF MainTask, SysEx, MIDIDone, ProcessEventQueue, ProcessEvent,
         DeferredSwitch, NoUSB, USBAttached, USBNotMounted, USBRemoved
    <3>2. QED
      BY <1>1, <1>2, <3>1
  <2>3. QED
    BY <2>1, <2>2
<1>4. CASE UITask \/ TimePasses
  <2>1. UNCHANGED <<setup, controls, mpc>>
    BY <1>4 DEF UITask, TimePasses
  <2>2. QED
    BY <1>1, <1>2, <2>1
<1>5. CASE Interrupt
  BY <1>5, DebounceReports DEF Interrupt
<1>6. CASE User
  <2>1. Same /\ UNCHANGED mpc
    <3>1. CASE \E b \in Fitted : Press(b) \/ Release(b)
      BY <3>1 DEF Press, Release, sampling, updating
    <3>2. CASE Turn
      BY <3>2 DEF Turn, updating
    <3>3. CASE OSD \/ ResetHangingNotes
      <4>1. UNCHANGED <<setup, controls, mpc>>
        BY <3>3 DEF OSD, ResetHangingNotes
      <4>2. QED
        BY <1>2, <4>1
    <3>4. QED
      BY <1>6, <3>1, <3>2, <3>3 DEF User
  <2>2. QED
    BY <1>1, <2>1
<1>7. CASE UNCHANGED vars
  BY <1>1, <1>2, <1>7 DEF vars
<1>8. QED
  BY <1>3, <1>4, <1>5, <1>6, <1>7 DEF Next

(* Wherever the interrupt comes into Update, the presses that are reported *)
(* are presses that there were (CControl::Update).                         *)
THEOREM PressesReportedOnce == Spec => []ReportedOnce
<1>1. Init => ReportsInv
  BY ReportsStart
<1>2. ReportsInv /\ [Next]_vars => ReportsInv'
  BY ReportsStep
<1>3. ReportsInv => ReportedOnce
  <2>1. SUFFICES ASSUME ReportsInv, NEW b \in Fitted PROVE unreported[b] >= 0
    BY DEF ReportedOnce
  <2>2. unreported[b] \in Int /\ unreported[b] >= (IF Owed(b) THEN 1 ELSE 0)
    BY <2>1 DEF ReportsInv
  <2>3. QED
    BY <2>2
<1>4. QED
  BY <1>1, <1>2, <1>3, PTL DEF Spec

----------------------------------------------------------------------------
(* The encoder. *)

(* The transition that leads to position p, one further in a direction, and *)
(* where those of a direction are kept.                                     *)
Passage(p, by) == Levels(p - by) * 4 + Levels(p)
Line(by) == IF by = 1 THEN 1 ELSE 2

(* Gray code: each transition is told from its levels alone, and so is the *)
(* one before it.                                                          *)
LEMMA PassageFacts ==
  ASSUME NEW p \in Int, NEW by \in {-1, 1}
  PROVE  /\ Levels(p) \in 0..3 /\ Passage(p, by) \in 0..15
         /\ Direction(Passage(p, by)) = Line(by)
         /\ PreviousTransition(Passage(p, by)) = Passage(p - by, by)
         /\ Levels(p) = 3 <=> p % 4 = 0
<1>1. \/ /\ p % 4 = 0 /\ (p + 1) % 4 = 1 /\ (p - 1) % 4 = 3
         /\ (p + 2) % 4 = 2 /\ (p - 2) % 4 = 2
      \/ /\ p % 4 = 1 /\ (p + 1) % 4 = 2 /\ (p - 1) % 4 = 0
         /\ (p + 2) % 4 = 3 /\ (p - 2) % 4 = 3
      \/ /\ p % 4 = 2 /\ (p + 1) % 4 = 3 /\ (p - 1) % 4 = 1
         /\ (p + 2) % 4 = 0 /\ (p - 2) % 4 = 0
      \/ /\ p % 4 = 3 /\ (p + 1) % 4 = 0 /\ (p - 1) % 4 = 2
         /\ (p + 2) % 4 = 1 /\ (p - 2) % 4 = 1
  OBVIOUS
<1>2. ASSUME NEW x \in Int
      PROVE  /\ x % 4 = 0 => Levels(x) = 3
             /\ x % 4 = 1 => Levels(x) = 1
             /\ x % 4 = 2 => Levels(x) = 0
             /\ x % 4 = 3 => Levels(x) = 2
  BY DEF Levels
<1>3. \/ /\ p % 4 = 0 /\ Levels(p) = 3 /\ Levels(p + 1) = 1 /\ Levels(p - 1) = 2
         /\ Levels(p + 2) = 0 /\ Levels(p - 2) = 0
      \/ /\ p % 4 = 1 /\ Levels(p) = 1 /\ Levels(p + 1) = 0 /\ Levels(p - 1) = 3
         /\ Levels(p + 2) = 2 /\ Levels(p - 2) = 2
      \/ /\ p % 4 = 2 /\ Levels(p) = 0 /\ Levels(p + 1) = 2 /\ Levels(p - 1) = 1
         /\ Levels(p + 2) = 3 /\ Levels(p - 2) = 3
      \/ /\ p % 4 = 3 /\ Levels(p) = 2 /\ Levels(p + 1) = 3 /\ Levels(p - 1) = 0
         /\ Levels(p + 2) = 1 /\ Levels(p - 2) = 1
  <2>1. /\ p + 1 \in Int /\ p - 1 \in Int /\ p + 2 \in Int /\ p - 2 \in Int
    OBVIOUS
  <2>2. QED
    BY <1>1, <1>2, <2>1
<1>4. CASE by = 1
  <2>1. /\ Passage(p, by) = Levels(p - 1) * 4 + Levels(p)
        /\ Passage(p - by, by) = Levels(p - 2) * 4 + Levels(p - 1)
        /\ Line(by) = 1
    <3>1. p - 1 - 1 = p - 2
      OBVIOUS
    <3>2. QED
      BY <1>4, <3>1 DEF Passage, Line
  <2>2. /\ Levels(p) \in 0..3 /\ (Levels(p) = 3 <=> p % 4 = 0)
        /\ Passage(p, by) \in {2, 4, 11, 13}
    BY <1>3, <2>1
  <2>3. PreviousTransition(Passage(p, by)) = Passage(p - by, by)
    BY <1>3, <2>1 DEF PreviousTransition
  <2>4. Direction(Passage(p, by)) = 1
    BY <2>2 DEF Direction, nTransitions
  <2>5. QED
    BY <2>1, <2>2, <2>3, <2>4
<1>5. CASE by = -1
  <2>1. /\ Passage(p, by) = Levels(p + 1) * 4 + Levels(p)
        /\ Passage(p - by, by) = Levels(p + 2) * 4 + Levels(p + 1)
        /\ Line(by) = 2
    <3>1. p - (-1) = p + 1 /\ p + 1 - (-1) = p + 2 /\ by # 1
      BY <1>5
    <3>2. QED
      BY <1>5, <3>1 DEF Passage, Line
  <2>2. /\ Levels(p) \in 0..3 /\ (Levels(p) = 3 <=> p % 4 = 0)
        /\ Passage(p, by) \in {1, 7, 8, 14}
    BY <1>3, <2>1
  <2>3. PreviousTransition(Passage(p, by)) = Passage(p - by, by)
    BY <1>3, <2>1 DEF PreviousTransition
  <2>4. Direction(Passage(p, by)) = 2
    BY <2>2 DEF Direction, nTransitions
  <2>5. QED
    BY <2>1, <2>2, <2>3, <2>4
<1>6. QED
  BY <1>4, <1>5

(* A sample without a turn. *)
LEMMA NoPassage ==
  ASSUME NEW l \in 0..3
  PROVE  Direction(l * 4 + l) = 0
BY DEF Direction, nTransitions

(* The levels go in at the right of the four bits. *)
LEMMA Shifted ==
  ASSUME NEW s \in 0..15, NEW l \in 0..3
  PROVE  /\ (s * 4 + l) % 16 = (s % 4) * 4 + l
         /\ (s * 4 + l) % 16 \in 0..15 /\ ((s * 4 + l) % 16) % 4 = l
OBVIOUS

(* What there is of an encoder. *)
Encoder == [m_nState : 0..15, previous : [1..2 -> SUBSET (0..15)], moved : Int]

(* What has been seen of a direction once the pins have come to p. *)
Seen(e, p, by) ==
  LET previous == e.previous[Line(by)]
  IN  (IF Passage(p - by, by) \in previous THEN previous ELSE {}) \cup {Passage(p, by)}

(* That it amounts to a movement. *)
IsDetent(e, p, by, type) ==
  /\ Cardinality(Seen(e, p, by)) >= TransitionsPerDetent[type]
  /\ type = "Full" => p % 4 = 0

(* Whatever the pins show. *)
LEMMA PinsAreRead ==
  ASSUME NEW e \in Encoder, NEW l \in 0..3, NEW type
  PROVE  LET f == ReadGPIOPins(e, l, type)
         IN  f \in Encoder /\ f.m_nState % 4 = l
<1> DEFINE t == (e.m_nState * 4 + l) % 16
           d == Direction(t)
           seenNow == Contiguous(e.previous[d], t) \cup {t}
           f == ReadGPIOPins(e, l, type)
<1>1. e.m_nState \in 0..15 /\ e.previous \in [1..2 -> SUBSET (0..15)]
  BY DEF Encoder
<1>2. t \in 0..15 /\ t % 4 = l
  BY <1>1, Shifted
<1>3. d \in 0..2
  <2> HIDE DEF t
  <2>1. QED
    BY <1>2 DEF Direction, nTransitions
<1>4. d # 0 => seenNow \in SUBSET (0..15)
  BY <1>1, <1>2, <1>3 DEF Contiguous
<1>5. <<{}, {}>> \in [1..2 -> SUBSET (0..15)]
  OBVIOUS
<1>6. \/ f = [e EXCEPT !.m_nState = t, !.moved = 0]
      \/ /\ d # 0
         /\ f = [m_nState |-> t, moved |-> 0,
                  previous |-> [e.previous EXCEPT ![d] = seenNow]]
      \/ \E m \in {1, -1} : f = [m_nState |-> t, previous |-> <<{}, {}>>, moved |-> m]
  BY DEF ReadGPIOPins
<1> HIDE DEF t, d, seenNow, f
<1>7. CASE f = [e EXCEPT !.m_nState = t, !.moved = 0]
  <2>1. f = [m_nState |-> t, previous |-> e.previous, moved |-> 0]
    BY <1>7 DEF Encoder
  <2>2. QED
    BY <1>1, <1>2, <2>1 DEF Encoder, f
<1>8. CASE /\ d # 0
           /\ f = [m_nState |-> t, moved |-> 0,
                    previous |-> [e.previous EXCEPT ![d] = seenNow]]
  <2> DEFINE previous == [e.previous EXCEPT ![d] = seenNow]
  <2>1. previous \in [1..2 -> SUBSET (0..15)]
    BY <1>1, <1>4, <1>8
  <2>2. f = [m_nState |-> t, previous |-> previous, moved |-> 0]
    BY <1>8
  <2> HIDE DEF previous
  <2>3. QED
    BY <1>2, <2>1, <2>2 DEF Encoder, f
<1>9. CASE \E m \in {1, -1} : f = [m_nState |-> t, previous |-> <<{}, {}>>, moved |-> m]
  BY <1>2, <1>5, <1>9 DEF Encoder, f
<1>10. QED
  BY <1>6, <1>7, <1>8, <1>9

(* The encoder has been turned, and its pins are read. *)
LEMMA TurnIsRead ==
  ASSUME NEW e \in Encoder, NEW p \in Int, NEW by \in {-1, 1}, NEW type \in Types,
         e.m_nState % 4 = Levels(p - by)
  PROVE  LET f == ReadGPIOPins(e, Levels(p), type)
         IN  /\ f \in Encoder /\ f.m_nState % 4 = Levels(p)
             /\ IF IsDetent(e, p, by, type)
                THEN f.moved = by /\ f.previous[Line(by)] = {}
                ELSE f.moved = 0 /\ f.previous[Line(by)] = Seen(e, p, by)
<1> DEFINE t == (e.m_nState * 4 + Levels(p)) % 16
           f == ReadGPIOPins(e, Levels(p), type)
<1>1. /\ e.m_nState \in 0..15 /\ e.previous \in [1..2 -> SUBSET (0..15)]
      /\ DOMAIN e = {"m_nState", "previous", "moved"}
  BY DEF Encoder
<1>2. t = Passage(p, by) /\ t \in 0..15 /\ t % 4 = Levels(p)
  <2>1. Levels(p) \in 0..3
    BY PassageFacts
  <2>2. /\ t = (e.m_nState % 4) * 4 + Levels(p)
        /\ t \in 0..15 /\ t % 4 = Levels(p)
    BY <1>1, <2>1, Shifted
  <2>3. QED
    BY <2>2 DEF Passage
<1>3. /\ Direction(t) = Line(by) /\ PreviousTransition(t) = Passage(p - by, by)
      /\ Line(by) \in 1..2 /\ (Line(by) = 1 <=> by = 1) /\ Line(by) # 0
      /\ (Levels(p) = 3 <=> p % 4 = 0)
  BY <1>2, PassageFacts DEF Line
<1>4. Contiguous(e.previous[Line(by)], t) \cup {t} = Seen(e, p, by)
  BY <1>2, <1>3 DEF Contiguous, Seen
<1>5. Seen(e, p, by) \subseteq 0..15
  BY <1>1, <1>2, <1>3 DEF Seen
<1>6. <<{}, {}>> \in [1..2 -> SUBSET (0..15)] /\ <<{}, {}>>[Line(by)] = {}
  BY <1>3
<1> HIDE DEF t
<1>7. f = IF ~IsDetent(e, p, by, type)
          THEN [m_nState |-> t, moved |-> 0,
                previous |-> [e.previous EXCEPT ![Line(by)] = Seen(e, p, by)]]
          ELSE [m_nState |-> t, previous |-> <<{}, {}>>,
                moved |-> IF Line(by) = 1 THEN 1 ELSE -1]
  BY <1>3, <1>4 DEF ReadGPIOPins, IsDetent, t
<1> HIDE DEF f
<1>8. CASE IsDetent(e, p, by, type)
  <2>1. f = [m_nState |-> t, previous |-> <<{}, {}>>, moved |-> by]
    BY <1>3, <1>7, <1>8
  <2>2. QED
    BY <1>2, <1>6, <1>8, <2>1 DEF Encoder, f
<1>9. CASE ~IsDetent(e, p, by, type)
  <2> DEFINE previous == [e.previous EXCEPT ![Line(by)] = Seen(e, p, by)]
  <2>1. f = [m_nState |-> t, previous |-> previous, moved |-> 0]
    BY <1>7, <1>9
  <2>2. /\ previous \in [1..2 -> SUBSET (0..15)]
        /\ previous[Line(by)] = Seen(e, p, by)
    BY <1>1, <1>3, <1>5
  <2> HIDE DEF previous
  <2>3. QED
    BY <1>2, <1>9, <2>1, <2>2 DEF Encoder, f
<1>10. QED
  BY <1>8, <1>9 DEF f

(* They are read again before it is turned. *)
LEMMA RestIsRead ==
  ASSUME NEW e \in Encoder, NEW p \in Int, NEW type, e.m_nState % 4 = Levels(p)
  PROVE  LET f == ReadGPIOPins(e, Levels(p), type)
         IN  /\ f \in Encoder /\ f.m_nState % 4 = Levels(p)
             /\ f.moved = 0 /\ f.previous = e.previous
<1> DEFINE t == (e.m_nState * 4 + Levels(p)) % 16
           f == ReadGPIOPins(e, Levels(p), type)
<1>1. Levels(p) \in 0..3 /\ e.m_nState \in 0..15
  <2>1. 1 \in {-1, 1}
    OBVIOUS
  <2>2. QED
    BY <2>1, PassageFacts DEF Encoder
<1>2. t = Levels(p) * 4 + Levels(p) /\ t \in 0..15 /\ t % 4 = Levels(p)
  BY <1>1, Shifted
<1>3. Direction(t) = 0
  BY <1>1, <1>2, NoPassage
<1>4. f = [e EXCEPT !.m_nState = t, !.moved = 0]
  BY <1>3 DEF ReadGPIOPins
<1> HIDE DEF t, f
<1>5. e.previous \in [1..2 -> SUBSET (0..15)] /\ 0 \in Int
  BY DEF Encoder
<1>6. f = [m_nState |-> t, previous |-> e.previous, moved |-> 0]
  BY <1>4 DEF Encoder
<1>7. QED
  BY <1>2, <1>5, <1>6 DEF Encoder, f

(* How many transitions have been seen at least. *)
LEMMA SeenAtLeast ==
  ASSUME NEW S \in SUBSET (0..15)
  PROVE  /\ Cardinality(S) \in Nat
         /\ \A a \in S : Cardinality(S) >= 1
         /\ \A a, b \in S : a # b => Cardinality(S) >= 2
         /\ \A a, b, c, d \in S : Cardinality({a, b, c, d}) = 4 => Cardinality(S) >= 4
<1>1. IsFiniteSet(S)
  <2>1. 0 \in Int /\ 15 \in Int
    OBVIOUS
  <2>2. IsFiniteSet(0..15)
    BY <2>1, FS_Interval
  <2>3. QED
    BY <2>2, FS_Subset
<1>2. \A T \in SUBSET S : Cardinality(T) <= Cardinality(S)
  BY <1>1, FS_Subset
<1>3. Cardinality(S) \in Nat
  BY <1>1, FS_CardinalityType
<1>4. ASSUME NEW a \in S PROVE Cardinality({a}) = 1 /\ IsFiniteSet({a})
  BY FS_Singleton
<1>5. ASSUME NEW a \in S, NEW b \in S, a # b PROVE Cardinality({a} \cup {b}) = 2
  <2>1. Cardinality({a} \cup {b}) = Cardinality({a}) + 1
    BY <1>4, <1>5, FS_AddElement
  <2>2. QED
    BY <1>4, <2>1
<1>6. QED
  <2>1. \A a \in S : {a} \in SUBSET S
    OBVIOUS
  <2>2. \A a, b \in S : {a} \cup {b} \in SUBSET S
    OBVIOUS
  <2>3. \A a, b, c, d \in S : {a, b, c, d} \in SUBSET S
    OBVIOUS
  <2>4. \A a \in S : Cardinality(S) >= 1
    BY <1>2, <1>3, <1>4, <2>1
  <2>5. \A a, b \in S : a # b => Cardinality(S) >= 2
    BY <1>2, <1>3, <1>5, <2>2
  <2>6. \A a, b, c, d \in S : Cardinality({a, b, c, d}) = 4 => Cardinality(S) >= 4
    BY <1>2, <1>3, <2>3
  <2>7. QED
    BY <1>3, <2>4, <2>5, <2>6

(* Four transitions in a row are different. *)
LEMMA FourPassages ==
  ASSUME NEW p \in Int, NEW by \in {-1, 1}
  PROVE  Cardinality({Passage(p, by), Passage(p - by, by), Passage(p - by - by, by),
                      Passage(p - by - by - by, by)}) = 4
<1>2. ASSUME NEW q \in Int
      PROVE  /\ Passage(q, by) \in 0..15
             /\ PreviousTransition(Passage(q, by)) = Passage(q - by, by)
  BY <1>2, PassageFacts
<1>3. p - by \in Int /\ p - by - by \in Int
  OBVIOUS
<1>4. Passage(p, by) \in {2, 4, 11, 13} \cup {1, 7, 8, 14}
  <2> DEFINE t == Passage(p, by)
  <2>1. t \in 0..15 /\ Direction(t) = Line(by) /\ Line(by) # 0
    BY PassageFacts DEF Line
  <2> HIDE DEF t
  <2>2. t \in {2, 4, 11, 13} \cup {1, 7, 8, 14}
    BY <2>1 DEF Direction, nTransitions
  <2>3. QED
    BY <2>2 DEF t
<1>5. /\ PreviousTransition(2) = 4 /\ PreviousTransition(4) = 13
      /\ PreviousTransition(13) = 11 /\ PreviousTransition(11) = 2
      /\ PreviousTransition(1) = 8 /\ PreviousTransition(8) = 14
      /\ PreviousTransition(14) = 7 /\ PreviousTransition(7) = 1
  BY DEF PreviousTransition
<1>6. /\ Passage(p - by, by) = PreviousTransition(Passage(p, by))
      /\ Passage(p - by - by, by) = PreviousTransition(Passage(p - by, by))
      /\ Passage(p - by - by - by, by) = PreviousTransition(Passage(p - by - by, by))
  BY <1>2, <1>3
<1> DEFINE a == Passage(p, by)
           b == Passage(p - by, by)
           c == Passage(p - by - by, by)
           d == Passage(p - by - by - by, by)
<1> HIDE DEF a, b, c, d
<1>7. a # b /\ a # c /\ a # d /\ b # c /\ b # d /\ c # d
  <2>1. b = PreviousTransition(a) /\ c = PreviousTransition(b) /\ d = PreviousTransition(c)
    BY <1>6 DEF a, b, c, d
  <2>2. a \in {2, 4, 11, 13} \cup {1, 7, 8, 14}
    BY <1>4 DEF a
  <2>3. QED
    BY <1>5, <2>1, <2>2
<1>8. Cardinality({a, b, c, d}) = 4
  <2>1. IsFiniteSet({a}) /\ Cardinality({a}) = 1
    BY FS_Singleton
  <2>2. IsFiniteSet({a} \cup {b}) /\ Cardinality({a} \cup {b}) = 1 + 1
    BY <1>7, <2>1, FS_AddElement
  <2>3. /\ IsFiniteSet({a} \cup {b} \cup {c})
        /\ Cardinality({a} \cup {b} \cup {c}) = 1 + 1 + 1
    BY <1>7, <2>2, FS_AddElement
  <2>4. Cardinality({a} \cup {b} \cup {c} \cup {d}) = 1 + 1 + 1 + 1
    BY <1>7, <2>3, FS_AddElement
  <2>5. {a} \cup {b} \cup {c} \cup {d} = {a, b, c, d}
    OBVIOUS
  <2>6. 1 + 1 + 1 + 1 = 4
    OBVIOUS
  <2>7. QED
    BY <2>4, <2>5, <2>6
<1>9. QED
  BY <1>8 DEF a, b, c, d

(* The transitions since the last detent, in one direction, if there was no *)
(* turning back.                                                            *)
Ahead(by) == IF by = 1 THEN run ELSE -run

(* How many of them have been sampled, and the position that was. *)
Steps(by) == IF sampled THEN Ahead(by) ELSE Ahead(by) - 1
At(by) == IF sampled THEN position ELSE position - by

(* Short of a detent, all transitions are remembered and none is counted;  *)
(* or jiggling has left one that made up for those still to come, and then *)
(* none is remembered.                                                     *)
Halfway(by) ==
  LET previous == m_Encoder.previous[Line(by)]
  IN  \/ /\ gained = 0
         /\ \A i \in 0..3 : i < Steps(by) => Passage(At(by) - by * i, by) \in previous
      \/ setup.type = "Half" /\ gained = by /\ previous = {}

(* A run has begun at a detent, ends at the next one and counts by then. *)
Running(by) ==
  LET n == TransitionsPerDetent[setup.type]
  IN  /\ Ahead(by) <= n /\ (position - run) % n = 0
      /\ m_Encoder.m_nState % 4 = Levels(At(by))
      /\ Steps(by) = 0 => gained = 0
      /\ IF Steps(by) < n THEN Halfway(by) ELSE gained = by

(* What makes DetentsCounted inductive. *)
DetentInv ==
  /\ setup \in Setups /\ position \in Int /\ run \in Int /\ sampled \in BOOLEAN
  /\ gained \in Int /\ m_Encoder \in Encoder
  /\ setup.type \in Types =>
       /\ sampled => m_Encoder.m_nState % 4 = Levels(position)
       /\ \A by \in {-1, 1} : Ahead(by) > 0 => Running(by)

(* Of the types there are. *)
LEMMA Detents ==
  /\ TransitionsPerDetent["Full"] = 4
  /\ TransitionsPerDetent["Half"] = 2
  /\ TransitionsPerDetent["Quarter"] = 1
BY DEF TransitionsPerDetent, Types

(* Back by i transitions from the next position. *)
LEMMA Behind ==
  ASSUME NEW p \in Int, NEW by \in {-1, 1}, NEW i \in Int
  PROVE  /\ p - by * i \in Int /\ p - by * 0 = p /\ p - by * 1 = p - by
         /\ p - by * 2 = p - by - by /\ p - by * 3 = p - by - by - by
         /\ p - by * i = (p - by) - by * (i - 1)
<1>1. CASE by = 1
  BY <1>1
<1>2. CASE by = -1
  BY <1>2
<1>3. QED
  BY <1>1, <1>2

(* What has been seen of a direction that was gone on in. *)
LEMMA SeenFacts ==
  ASSUME NEW e \in Encoder, NEW p \in Int, NEW by \in {-1, 1}
  PROVE  /\ Seen(e, p, by) \subseteq 0..15
         /\ Passage(p, by) \in Seen(e, p, by)
         /\ Passage(p - by, by) \in e.previous[Line(by)] =>
              /\ e.previous[Line(by)] \subseteq Seen(e, p, by)
              /\ Cardinality(Seen(e, p, by)) >= 2
         /\ Passage(p - by, by) \notin e.previous[Line(by)] =>
              Cardinality(Seen(e, p, by)) = 1
         /\ Cardinality(Seen(e, p, by)) \in Nat /\ Cardinality(Seen(e, p, by)) >= 1
<1>1. Passage(p, by) \in 0..15 /\ Passage(p - by, by) # Passage(p, by)
  <2>1. p - by \in Int
    OBVIOUS
  <2> DEFINE t == Passage(p, by)
  <2>2. t \in 0..15 /\ PreviousTransition(t) = Passage(p - by, by)
    BY PassageFacts
  <2>3. PreviousTransition(t) # t
    <3> HIDE DEF t
    <3>1. QED
      BY <2>2 DEF PreviousTransition
  <2>4. QED
    BY <2>2, <2>3
<1>2. e.previous[Line(by)] \subseteq 0..15
  BY DEF Encoder, Line
<1>3. /\ Seen(e, p, by) \subseteq 0..15 /\ Passage(p, by) \in Seen(e, p, by)
  BY <1>1, <1>2 DEF Seen
<1>4. CASE Passage(p - by, by) \in e.previous[Line(by)]
  <2>1. /\ e.previous[Line(by)] \subseteq Seen(e, p, by)
        /\ Passage(p - by, by) \in Seen(e, p, by)
    BY <1>4 DEF Seen
  <2>2. QED
    BY <1>1, <1>3, <1>4, <2>1, SeenAtLeast
<1>5. CASE Passage(p - by, by) \notin e.previous[Line(by)]
  <2>1. Seen(e, p, by) = {Passage(p, by)}
    BY <1>5 DEF Seen
  <2>2. Cardinality(Seen(e, p, by)) = 1
    BY <2>1, FS_Singleton
  <2>3. QED
    BY <1>3, <1>5, <2>2, SeenAtLeast
<1>6. QED
  BY <1>4, <1>5

(* The pins are read after a turn in a run. *)
SampledTurn(by) ==
  /\ DetentInv /\ setup.type \in Types /\ ~sampled
  /\ Ahead(by) > 0
  /\ UNCHANGED <<setup, position, run>> /\ sampled' = TRUE
  /\ m_Encoder' = ReadGPIOPins(m_Encoder, Levels(position), setup.type)
  /\ gained' = gained + m_Encoder'.moved

(* What one sample does to the places that a run has come to. *)
LEMMA SampledFacts ==
  ASSUME NEW by \in {-1, 1}, SampledTurn(by)
  PROVE  /\ Ahead(by) \in Int /\ Ahead(by)' = Ahead(by)
         /\ Steps(by) = Ahead(by) - 1 /\ At(by) = position - by
         /\ Steps(by)' = Ahead(by) /\ At(by)' = position /\ position \in Int
         /\ gained \in Int /\ m_Encoder \in Encoder /\ m_Encoder' \in Encoder
         /\ m_Encoder'.m_nState % 4 = Levels(position)
         /\ Running(by)
         /\ IF IsDetent(m_Encoder, position, by, setup.type)
            THEN gained' = gained + by /\ m_Encoder'.previous[Line(by)] = {}
            ELSE /\ gained' = gained
                 /\ m_Encoder'.previous[Line(by)] = Seen(m_Encoder, position, by)
<1>1. /\ Ahead(by) \in Int /\ Ahead(by)' = Ahead(by) /\ position \in Int
      /\ Steps(by) = Ahead(by) - 1 /\ At(by) = position - by
      /\ Steps(by)' = Ahead(by) /\ At(by)' = position
      /\ gained \in Int /\ m_Encoder \in Encoder /\ Running(by)
  BY DEF SampledTurn, DetentInv, Ahead, Steps, At
<1>2. m_Encoder.m_nState % 4 = Levels(position - by)
  BY <1>1 DEF Running
<1>3. LET f == m_Encoder'
      IN  /\ f \in Encoder /\ f.m_nState % 4 = Levels(position)
          /\ IF IsDetent(m_Encoder, position, by, setup.type)
             THEN f.moved = by /\ f.previous[Line(by)] = {}
             ELSE f.moved = 0 /\ f.previous[Line(by)] = Seen(m_Encoder, position, by)
  BY <1>1, <1>2, TurnIsRead DEF SampledTurn
<1>4. QED
  BY <1>1, <1>3 DEF SampledTurn

(* Every transition is a detent. *)
LEMMA QuarterSampled ==
  ASSUME NEW by \in {-1, 1}, SampledTurn(by), setup.type = "Quarter"
  PROVE  Running(by)'
<1>1. TransitionsPerDetent[setup.type] = 1 /\ TransitionsPerDetent[setup.type]' = 1
  BY Detents DEF SampledTurn
<1>2. Ahead(by) = 1 /\ gained = 0
  BY <1>1, SampledFacts DEF Running, SampledTurn
<1>3. IsDetent(m_Encoder, position, by, setup.type)
  BY <1>1, SampledFacts, SeenFacts DEF IsDetent
<1>4. gained' = by
  BY <1>2, <1>3, SampledFacts
<1>5. Ahead(by)' = 1 /\ Steps(by)' = 1 /\ At(by)' = position
  BY <1>2, SampledFacts
<1>6. /\ (position - run)' % 1 = 0
      /\ (m_Encoder.m_nState % 4 = Levels(At(by)))'
  BY <1>1, <1>5, SampledFacts DEF Running, SampledTurn
<1>7. QED
  BY <1>1, <1>4, <1>5, <1>6 DEF Running

(* The first of the two counts if jiggling has left the one before it, and *)
(* the second does if the first has not.                                   *)
LEMMA HalfSampled ==
  ASSUME NEW by \in {-1, 1}, SampledTurn(by), setup.type = "Half"
  PROVE  Running(by)'
<1> DEFINE previous == m_Encoder.previous[Line(by)]
           now == Seen(m_Encoder, position, by)
<1>1. TransitionsPerDetent[setup.type] = 2 /\ TransitionsPerDetent[setup.type]' = 2
  BY Detents DEF SampledTurn
<1>2. /\ (position - run)' % 2 = 0 /\ Ahead(by)' <= 2
      /\ (m_Encoder.m_nState % 4 = Levels(At(by)))'
  BY <1>1, SampledFacts DEF Running, SampledTurn
<1>3. IsDetent(m_Encoder, position, by, setup.type)
        <=> Passage(position - by, by) \in previous
  <2>1. position \in Int /\ m_Encoder \in Encoder
    BY SampledFacts
  <2>2. /\ Passage(position - by, by) \in previous => Cardinality(now) >= 2
        /\ Passage(position - by, by) \notin previous => Cardinality(now) = 1
    BY <2>1, SeenFacts
  <2>3. IsDetent(m_Encoder, position, by, setup.type) <=> Cardinality(now) >= 2
    BY <1>1 DEF IsDetent
  <2> HIDE DEF now, previous
  <2>4. QED
    BY <2>2, <2>3
<1>4. CASE Ahead(by) = 1
  <2>1. Steps(by)' = 1 /\ At(by)' = position /\ gained = 0
    BY <1>1, <1>4, SampledFacts DEF Running
  <2>2. Halfway(by)'
    <3>1. CASE Passage(position - by, by) \in previous
      <4>1. gained' = by /\ m_Encoder'.previous[Line(by)] = {}
        BY <1>3, <2>1, <3>1, SampledFacts
      <4>2. QED
        BY <4>1 DEF Halfway, SampledTurn
    <3>2. CASE Passage(position - by, by) \notin previous
      <4>1. gained' = 0 /\ m_Encoder'.previous[Line(by)] = now
        BY <1>3, <2>1, <3>2, SampledFacts
      <4>2. Passage(position, by) \in now /\ position - by * 0 = position
        BY SampledFacts, SeenFacts, Behind
      <4>3. \A i \in 0..3 : i < 1 => i = 0
        OBVIOUS
      <4>4. QED
        BY <2>1, <4>1, <4>2, <4>3 DEF Halfway, SampledTurn
    <3>3. QED
      BY <3>1, <3>2
  <2>3. QED
    BY <1>1, <1>2, <2>1, <2>2 DEF Running
<1>5. CASE Ahead(by) = 2
  <2>1. Steps(by)' = 2 /\ Steps(by) = 1 /\ At(by) = position - by /\ Halfway(by)
    BY <1>1, <1>5, SampledFacts DEF Running
  <2>2. gained' = by
    <3>1. CASE gained = 0 /\ Passage(At(by) - by * 0, by) \in previous
      <4>1. Passage(position - by, by) \in previous
        <5>1. position - by \in Int
          BY SampledFacts
        <5>2. At(by) - by * 0 = position - by
          BY <2>1, <5>1, Behind
        <5>3. QED
          BY <3>1, <5>2
      <4>2. QED
        BY <1>3, <3>1, <4>1, SampledFacts
    <3>2. CASE gained = by /\ previous = {}
      BY <1>3, <3>2, SampledFacts
    <3>3. QED
      BY <2>1, <3>1, <3>2 DEF Halfway
  <2>3. QED
    BY <1>1, <1>2, <2>1, <2>2 DEF Running
<1>6. QED
  <2>1. Ahead(by) \in Int /\ Ahead(by) <= 2 /\ Ahead(by) > 0
    BY <1>1, SampledFacts DEF Running, SampledTurn
  <2>2. QED
    BY <1>4, <1>5, <2>1

(* Only at the detent can one be counted, and all four are there then.     *)
LEMMA FullSampled ==
  ASSUME NEW by \in {-1, 1}, SampledTurn(by), setup.type = "Full"
  PROVE  Running(by)'
<1> DEFINE previous == m_Encoder.previous[Line(by)]
           now == Seen(m_Encoder, position, by)
           r == Ahead(by)
<1>1. TransitionsPerDetent[setup.type] = 4 /\ TransitionsPerDetent[setup.type]' = 4
  BY Detents DEF SampledTurn
<1>2. /\ (position - run)' % 4 = 0 /\ Ahead(by)' <= 4
      /\ (m_Encoder.m_nState % 4 = Levels(At(by)))'
  BY <1>1, SampledFacts DEF Running, SampledTurn
<1>3. r \in 1..4 /\ Steps(by) = r - 1 /\ Steps(by)' = r /\ At(by)' = position
  BY <1>1, SampledFacts DEF Running, SampledTurn
<1>4. position % 4 = 0 <=> r = 4
  <2>1. position \in Int /\ run \in Int /\ (position - run) % 4 = 0
    BY <1>1, SampledFacts DEF Running, SampledTurn, DetentInv
  <2>2. CASE by = 1
    BY <1>3, <2>1, <2>2 DEF Ahead
  <2>3. CASE by = -1
    <3>1. run \in {-1, -2, -3, -4} /\ (run = -4 <=> r = 4)
      BY <1>3, <2>1, <2>3 DEF Ahead
    <3>2. QED
      BY <2>1, <3>1
  <2>4. QED
    BY <2>2, <2>3
<1> HIDE DEF r
<1>5. /\ gained = 0
      /\ \A i \in 0..3 : i < r - 1 => Passage(position - by - by * i, by) \in previous
  BY <1>1, <1>3, SampledFacts DEF Running, Halfway
<1>6. \A i \in 0..3 : i < r => Passage(position - by * i, by) \in now
  <2>1. Passage(position, by) \in now /\ position - by * 0 = position
    BY SampledFacts, SeenFacts, Behind
  <2>2. ASSUME NEW i \in 1..3, i < r PROVE Passage(position - by * i, by) \in now
    <3>1. position - by * i = position - by - by * (i - 1)
      BY SampledFacts, Behind
    <3>2. i - 1 \in 0..3 /\ i - 1 < r - 1 /\ 0 \in 0..3 /\ 0 < r - 1
      BY <1>3, <2>2
    <3>3. /\ Passage(position - by * i, by) \in previous
          /\ Passage(position - by - by * 0, by) \in previous
      BY <1>5, <3>1, <3>2
    <3>4. position - by - by * 0 = position - by
      <4>1. position - by \in Int
        BY SampledFacts
      <4>2. QED
        BY <4>1, Behind
    <3>5. previous \subseteq now
      BY <3>3, <3>4, SampledFacts, SeenFacts
    <3>6. QED
      BY <3>3, <3>5
  <2>3. QED
    BY <2>1, <2>2
<1>7. CASE r < 4
  <2>1. ~IsDetent(m_Encoder, position, by, setup.type)
    BY <1>3, <1>4, <1>7 DEF IsDetent
  <2>2. gained' = 0 /\ m_Encoder'.previous[Line(by)] = now
    BY <1>5, <2>1, SampledFacts
  <2>3. Halfway(by)'
    BY <1>3, <1>6, <2>2 DEF Halfway
  <2>4. QED
    BY <1>1, <1>2, <1>3, <1>7, <2>2, <2>3 DEF Running
<1>8. CASE r = 4
  <2>1. /\ Passage(position, by) \in now /\ Passage(position - by, by) \in now
        /\ Passage(position - by - by, by) \in now
        /\ Passage(position - by - by - by, by) \in now
    <3>1. \A i \in 0..3 : i < r
      BY <1>8
    <3>2. /\ position - by * 0 = position /\ position - by * 1 = position - by
          /\ position - by * 2 = position - by - by
          /\ position - by * 3 = position - by - by - by
      <4>1. position \in Int /\ 0 \in Int
        BY SampledFacts
      <4>2. QED
        BY <4>1, Behind
    <3>3. 0 \in 0..3 /\ 1 \in 0..3 /\ 2 \in 0..3 /\ 3 \in 0..3
      OBVIOUS
    <3>4. /\ Passage(position - by * 0, by) \in now
          /\ Passage(position - by * 1, by) \in now
          /\ Passage(position - by * 2, by) \in now
          /\ Passage(position - by * 3, by) \in now
      BY <1>6, <3>1, <3>3
    <3>5. QED
      BY <3>2, <3>4
  <2>2. Cardinality(now) >= 4
    <3> DEFINE S == {Passage(position, by), Passage(position - by, by),
                     Passage(position - by - by, by),
                     Passage(position - by - by - by, by)}
    <3>1. now \in SUBSET (0..15) /\ position \in Int
      BY SampledFacts, SeenFacts
    <3>2. Cardinality(S) = 4
      BY <3>1, FourPassages
    <3>3. QED
      BY <2>1, <3>1, <3>2, SeenAtLeast
  <2>3. IsDetent(m_Encoder, position, by, setup.type)
    BY <1>1, <1>4, <1>8, <2>2 DEF IsDetent
  <2>4. gained' = by
    BY <1>5, <2>3, SampledFacts
  <2>5. QED
    BY <1>1, <1>2, <1>3, <1>8, <2>4 DEF Running
<1>9. QED
  BY <1>3, <1>7, <1>8

----------------------------------------------------------------------------
(* The wheel: what DetentInv speaks of. *)
wheel == <<setup, position, run, sampled, m_Encoder, gained>>

(* Steps of others. *)
LEMMA DetentsKept ==
  ASSUME DetentInv, UNCHANGED wheel
  PROVE  DetentInv'
<1> USE DEF wheel
<1>1. \A by \in {-1, 1} : /\ Ahead(by)' = Ahead(by) /\ Steps(by)' = Steps(by)
                          /\ At(by)' = At(by)
  BY DEF Ahead, Steps, At
<1>2. \A by \in {-1, 1} : Running(by) => Running(by)'
  BY <1>1 DEF Running, Halfway
<1>3. QED
  BY <1>1, <1>2 DEF DetentInv

(* The timer interrupt. *)
LEMMA DetentsSampled ==
  ASSUME DetentInv, InterruptHandler
  PROVE  DetentInv'
<1>1. UNCHANGED <<setup, position, run>> /\ sampled' = TRUE
  BY DEF InterruptHandler, Encodes, pins
<1>2. position \in Int /\ gained \in Int /\ m_Encoder \in Encoder
  BY DEF DetentInv
<1>3. setup.type \in Types \cup {NoEncoder}
  BY EncoderAssumption DEF DetentInv
<1>4. NoEncoder \notin Types
  BY DEF NoEncoder, Types
<1>5. CASE setup.type = NoEncoder
  <2>1. UNCHANGED <<m_Encoder, gained>>
    BY <1>5 DEF InterruptHandler, Encodes
  <2>2. QED
    BY <1>1, <1>4, <1>5, <2>1 DEF DetentInv
<1>6. CASE setup.type \in Types
  <2>1. /\ m_Encoder' = ReadGPIOPins(m_Encoder, Levels(position), setup.type)
        /\ gained' = gained + m_Encoder'.moved
    BY <1>4, <1>6 DEF InterruptHandler, Encodes
  <2>2. CASE sampled
    <3>1. m_Encoder.m_nState % 4 = Levels(position)
      BY <1>6, <2>2 DEF DetentInv
    <3>2. /\ m_Encoder' \in Encoder /\ m_Encoder'.m_nState % 4 = Levels(position)
          /\ m_Encoder'.moved = 0 /\ m_Encoder'.previous = m_Encoder.previous
      BY <1>2, <2>1, <3>1, RestIsRead
    <3>3. gained' = gained
      BY <1>2, <2>1, <3>2
    <3>4. \A by \in {-1, 1} : /\ Ahead(by)' = Ahead(by) /\ Steps(by)' = Steps(by)
                              /\ At(by)' = At(by) /\ At(by) = position
      BY <1>1, <2>2 DEF Ahead, Steps, At
    <3>5. \A by \in {-1, 1} : Running(by) => Running(by)'
      BY <1>1, <3>2, <3>3, <3>4 DEF Running, Halfway
    <3>6. QED
      BY <1>1, <1>2, <3>2, <3>3, <3>4, <3>5 DEF DetentInv
  <2>3. CASE ~sampled
    <3>1. \A by \in {-1, 1} : Ahead(by) > 0 => SampledTurn(by)
      BY <1>1, <1>6, <2>1, <2>3 DEF SampledTurn
    <3>2. \A by \in {-1, 1} : Ahead(by) > 0 => Running(by)'
      BY <1>6, <3>1, QuarterSampled, HalfSampled, FullSampled DEF Types
    <3>3. \A by \in {-1, 1} : Ahead(by)' = Ahead(by)
      BY <1>1 DEF Ahead
    <3>4. /\ m_Encoder' \in Encoder /\ m_Encoder'.m_nState % 4 = Levels(position)
      <4>1. 1 \in {-1, 1}
        OBVIOUS
      <4>2. Levels(position) \in 0..3
        BY <1>2, <4>1, PassageFacts
      <4>3. QED
        BY <1>2, <2>1, <4>2, PinsAreRead
    <3>5. gained' \in Int
      BY <1>2, <2>1, <3>4 DEF Encoder
    <3>6. QED
      BY <1>1, <3>2, <3>3, <3>4, <3>5 DEF DetentInv
  <2>4. QED
    BY <2>2, <2>3 DEF DetentInv
<1>7. QED
  BY <1>3, <1>5, <1>6

(* The user turns on, turns back, or starts from a detent. *)
LEMMA DetentsTurned ==
  ASSUME DetentInv, Turn
  PROVE  DetentInv'
<1> DEFINE n == TransitionsPerDetent[setup.type]
           by == position' - position
           AtRest == position % n = 0
<1>1. /\ setup \in Setups /\ position \in Int /\ run \in Int /\ gained \in Int
      /\ m_Encoder \in Encoder /\ sampled
      /\ UNCHANGED <<setup, m_Encoder>> /\ sampled' = FALSE
      /\ position' \in {position - 1, position + 1}
      /\ run' = IF AtRest THEN by ELSE IF run * by > 0 THEN run + by ELSE 0
      /\ gained' = IF AtRest THEN 0 ELSE gained
  BY DEF DetentInv, Turn
<1>2. by \in {-1, 1} /\ position' \in Int /\ position' = position + by
      /\ position' - by = position
  BY <1>1
<1> HIDE DEF by
<1>3. run' \in Int /\ gained' \in Int
  BY <1>1, <1>2
<1>4. SUFFICES ASSUME setup.type \in Types, NEW at \in {-1, 1}, Ahead(at)' > 0
               PROVE  Running(at)'
  BY <1>1, <1>2, <1>3 DEF DetentInv
<1>5. n \in {1, 2, 4} /\ n' = n
  BY <1>1, <1>4, Detents DEF Types
<1>6. at = by /\ (AtRest \/ Ahead(at) > 0)
  <2>1. CASE by = 1
    <3>1. run * by = run
      BY <1>1, <2>1
    <3>2. QED
      BY <1>1, <1>2, <1>4, <2>1, <3>1 DEF Ahead
  <2>2. CASE by = -1
    <3>1. run * by = -run
      BY <1>1, <2>2
    <3>2. QED
      BY <1>1, <1>2, <1>4, <2>2, <3>1 DEF Ahead
  <2>3. QED
    BY <1>2, <2>1, <2>2
<1>7. /\ At(at)' = position /\ Steps(at)' = Ahead(at)' - 1
      /\ At(at) = position /\ Steps(at) = Ahead(at)
  BY <1>1, <1>2, <1>6 DEF At, Steps
<1>8. m_Encoder'.m_nState % 4 = Levels(At(at)')
  BY <1>1, <1>4, <1>7 DEF DetentInv
<1>9. CASE AtRest
  <2>1. run' = by /\ gained' = 0 /\ Ahead(at)' = 1
    BY <1>1, <1>2, <1>6, <1>9 DEF Ahead
  <2>2. (position - run)' = position
    BY <1>1, <1>2, <2>1
  <2>3. Steps(at)' = 0
    BY <1>7, <2>1
  <2>4. Halfway(at)'
    <3>1. \A i \in 0..3 : ~(i < 0)
      OBVIOUS
    <3>2. QED
      BY <2>1, <2>3, <3>1 DEF Halfway
  <2>5. QED
    BY <1>5, <1>8, <1>9, <2>1, <2>2, <2>3, <2>4 DEF Running
<1>10. CASE ~AtRest
  <2>1. Ahead(at) > 0 /\ Running(at) /\ Ahead(at) \in Int
    BY <1>1, <1>4, <1>6, <1>10 DEF DetentInv, Ahead
  <2>2. run' = run + by /\ Ahead(at)' = Ahead(at) + 1
    <3>1. CASE by = 1
      BY <1>1, <1>6, <1>10, <2>1, <3>1 DEF Ahead
    <3>2. CASE by = -1
      <4>1. run < 0 /\ run * by = -run
        BY <1>1, <1>6, <2>1, <3>2 DEF Ahead
      <4>2. QED
        BY <1>1, <1>6, <1>10, <3>2, <4>1 DEF Ahead
    <3>3. QED
      BY <1>2, <3>1, <3>2
  <2>3. (position - run)' = position - run /\ gained' = gained
    BY <1>1, <1>2, <1>10, <2>2
  <2>4. /\ Ahead(at) <= n /\ (position - run) % n = 0
        /\ Steps(at) = 0 => gained = 0
        /\ IF Steps(at) < n THEN Halfway(at) ELSE gained = at
    BY <2>1 DEF Running
  <2>5. Ahead(at) # n
    <3>1. (position - n) % n # 0 /\ (position + n) % n # 0
      BY <1>1, <1>5, <1>10
    <3>2. CASE at = 1
      BY <2>4, <3>1, <3>2 DEF Ahead
    <3>3. CASE at = -1
      <4>1. Ahead(at) = n => position - run = position + n
        BY <1>1, <1>5, <3>3 DEF Ahead
      <4>2. QED
        BY <2>4, <3>1, <4>1
    <3>4. QED
      BY <3>2, <3>3
  <2>6. Steps(at)' = Steps(at) /\ At(at)' = At(at)
    BY <1>7, <2>1, <2>2
  <2>7. Halfway(at) => Halfway(at)'
    BY <1>1, <2>3, <2>6 DEF Halfway
  <2>8. QED
    BY <1>5, <1>7, <1>8, <2>1, <2>2, <2>3, <2>4, <2>5, <2>6, <2>7 DEF Running
<1>11. QED
  BY <1>9, <1>10

(* Everything else leaves the wheel alone. *)
LEMMA DetentsStep ==
  ASSUME DetentInv, [Next]_vars
  PROVE  DetentInv'
<1>1. ASSUME UNCHANGED <<setup, controls>> PROVE DetentInv'
  <2>1. UNCHANGED wheel
    BY <1>1 DEF wheel, controls, pins, sampling
  <2>2. QED
    BY <2>1, DetentsKept
<1>2. CASE MainTask
  <2>1. CASE UpdateControls
    <3>1. UNCHANGED wheel
      BY <2>1 DEF UpdateControls, Update, wheel, pins
    <3>2. QED
      BY <3>1, DetentsKept
  <2>2. CASE ~UpdateControls
    BY <1>1, <1>2, <2>2 DEF MainTask, SysEx, MIDIDone, ProcessEventQueue, ProcessEvent,
       DeferredSwitch, NoUSB, USBAttached, USBNotMounted, USBRemoved
  <2>3. QED
    BY <2>1, <2>2
<1>3. CASE UITask \/ TimePasses
  BY <1>1, <1>3 DEF UITask, TimePasses
<1>4. CASE Interrupt
  BY <1>4, DetentsSampled DEF Interrupt
<1>5. CASE User
  <2>1. CASE \E b \in Fitted : Press(b) \/ Release(b)
    <3>1. UNCHANGED wheel
      BY <2>1 DEF Press, Release, sampling, wheel
    <3>2. QED
      BY <3>1, DetentsKept
  <2>2. CASE Turn
    BY <2>2, DetentsTurned
  <2>3. CASE OSD \/ ResetHangingNotes
    BY <1>1, <2>3 DEF OSD, ResetHangingNotes
  <2>4. QED
    BY <1>5, <2>1, <2>2, <2>3 DEF User
<1>6. CASE UNCHANGED vars
  BY <1>1, <1>6 DEF vars
<1>7. QED
  BY <1>2, <1>3, <1>4, <1>5, <1>6 DEF Next

(* At rest at the start, at a detent. *)
LEMMA DetentsStart == Init => DetentInv
<1> SUFFICES ASSUME Init PROVE DetentInv
  OBVIOUS
<1>1. /\ setup \in Setups /\ position = 0 /\ run = 0 /\ sampled = TRUE /\ gained = 0
      /\ m_Encoder = [Still EXCEPT !.m_nState = 15]
  BY DEF Init, ControlsInit
<1>2. m_Encoder = [m_nState |-> 15, previous |-> <<{}, {}>>, moved |-> 0]
  BY <1>1 DEF Still
<1>3. <<{}, {}>> \in [1..2 -> SUBSET (0..15)]
  OBVIOUS
<1>4. m_Encoder \in Encoder /\ m_Encoder.m_nState = 15
  BY <1>2, <1>3 DEF Encoder
<1>5. Levels(0) = 3
  BY DEF Levels
<1>6. \A by \in {-1, 1} : ~(Ahead(by) > 0)
  BY <1>1 DEF Ahead
<1>7. QED
  BY <1>1, <1>4, <1>5, <1>6 DEF DetentInv

(* From detent to detent without turning back the encoder counts one, with *)
(* whatever ReadGPIOPins has kept from the jiggling before, for any number *)
(* of turns and any samples between them.                                  *)
THEOREM EveryDetentCounted == Spec => []DetentsCounted
<1>1. Init => DetentInv
  BY DetentsStart
<1>2. DetentInv /\ [Next]_vars => DetentInv'
  BY DetentsStep
<1>3. DetentInv => DetentsCounted
  <2>1. SUFFICES ASSUME DetentInv, setup.type # NoEncoder, sampled
                 PROVE  LET n == TransitionsPerDetent[setup.type]
                        IN  (run = n => gained = 1) /\ (run = -n => gained = -1)
    BY DEF DetentsCounted
  <2> DEFINE n == TransitionsPerDetent[setup.type]
  <2>2. setup.type \in Types /\ n \in Int /\ n > 0
    BY <2>1, EncoderAssumption, Detents DEF DetentInv, Types
  <2>3. \A by \in {-1, 1} : Ahead(by) = n => gained = by
    <3>1. TAKE by \in {-1, 1}
    <3>2. HAVE Ahead(by) = n
    <3>3. Running(by) /\ Steps(by) = n
      BY <2>1, <2>2, <3>2 DEF DetentInv, Steps
    <3>4. QED
      BY <2>2, <3>3 DEF Running
  <2>4. (run = n => Ahead(1) = n) /\ (run = -n => Ahead(-1) = n)
    BY <2>2 DEF Ahead
  <2>5. QED
    BY <2>3, <2>4
<1>4. QED
  BY <1>1, <1>2, <1>3, PTL DEF Spec

----------------------------------------------------------------------------
(* ROM sets. *)

(* What GetROMSet finds: both images, or a control ROM without its PCM ROM *)
(* when it was asked for any set and the CM-32L's is complete.             *)
Fits(g, there) ==
  /\ g.set \in Roms!ROMSets
  /\ g.control = Roms!Control[g.set] /\ g.control \in there
  /\ \/ g.pcm = Roms!PCM[g.set] /\ g.pcm \in there
     \/ /\ g.pcm = Roms!NoROM
        /\ g.set # Roms!CM32L /\ Roms!HaveROMSet(there, Roms!CM32L)

(* The images of a set that has its control ROM. *)
LEMMA ImagesFit ==
  ASSUME NEW there, NEW s \in Roms!ROMSets, Roms!Control[s] \in there,
         \/ Roms!PCM[s] \in there
         \/ s # Roms!CM32L /\ Roms!HaveROMSet(there, Roms!CM32L)
  PROVE  Fits(Roms!Images(there, s), there)
BY DEF Fits, Roms!Images

(* GetROMSet returns images that fit, if any. *)
LEMMA FoundROMsFit ==
  ASSUME NEW there, NEW s, Roms!GetROMSet(there, s).ok
  PROVE  Fits(Roms!GetROMSet(there, s), there)
<1> DEFINE Least(r) == /\ Roms!Control[r] \in there
                       /\ \A q \in Roms!ROMSets : Roms!Control[q] \in there => r <= q
           least == CHOOSE r \in Roms!ROMSets : Least(r)
<1>1. Roms!HaveROMSet(there, s) /\ s # Roms!All
  BY DEF Roms!GetROMSet, Roms!NoImages
<1>2. CASE s # Roms!Any
  <2>1. s \in Roms!ROMSets /\ {Roms!Control[s], Roms!PCM[s]} \subseteq there
    BY <1>1, <1>2 DEF Roms!HaveROMSet
  <2>2. Roms!GetROMSet(there, s) = Roms!Images(there, s)
    BY <1>1, <1>2 DEF Roms!GetROMSet
  <2>3. QED
    BY <2>1, <2>2, ImagesFit
<1>3. CASE s = Roms!Any
  <2>1. PICK q \in Roms!ROMSets : {Roms!Control[q], Roms!PCM[q]} \subseteq there
    BY <1>1, <1>3 DEF Roms!HaveROMSet
  <2>2. \E r \in Roms!ROMSets : Least(r)
    BY <2>1 DEF Roms!ROMSets, Roms!MT32Old, Roms!MT32New, Roms!CM32L
  <2>3. least \in Roms!ROMSets /\ Least(least)
    BY <2>2
  <2>4. Roms!GetROMSet(there, s) = Roms!Images(there, least)
    BY <1>1, <1>3 DEF Roms!GetROMSet
  <2> HIDE DEF least
  <2>5. CASE Roms!PCM[least] \in there
    BY <2>3, <2>4, <2>5, ImagesFit
  <2>6. CASE Roms!PCM[least] \notin there
    <3>1. least <= q /\ Roms!PCM[q] # Roms!PCM[least]
      BY <2>1, <2>3, <2>6
    <3>2. least # Roms!CM32L /\ q = Roms!CM32L
      BY <2>3, <3>1 DEF Roms!ROMSets, Roms!MT32Old, Roms!MT32New, Roms!CM32L, Roms!PCM
    <3>3. Roms!HaveROMSet(there, Roms!CM32L)
      BY <2>1, <3>2 DEF Roms!HaveROMSet, Roms!CM32L, Roms!Any, Roms!All
    <3>4. QED
      BY <2>3, <2>4, <3>2, <3>3, ImagesFit
  <2>7. QED
    BY <2>5, <2>6
<1>4. QED
  BY <1>2, <1>3

(* The images that a scan finds are there besides the ones there were. *)
LEMMA ROMsStay ==
  ASSUME ROMsSelected, UNCHANGED romState, roms \subseteq roms'
  PROVE  ROMsSelected'
<1>1. Roms!HaveROMSet(roms, Roms!CM32L) => Roms!HaveROMSet(roms', Roms!CM32L)
  BY DEF Roms!HaveROMSet, Roms!CM32L, Roms!Any, Roms!All
<1>2. WithoutPCM => WithoutPCM'
  BY <1>1 DEF WithoutPCM, romState
<1>3. QED
  BY <1>2 DEF ROMsSelected, romState

(* Images that fit and whose set is the current one. *)
LEMMA OpenedAsSelected ==
  /\ Fits(opened, roms) /\ m_CurrentROMSet = opened.set => ROMsSelected
  /\ (Fits(opened, roms) /\ m_CurrentROMSet = opened.set => ROMsSelected)'
BY DEF Fits, ROMsSelected, WithoutPCM

(* A switch opens what GetROMSet finds, or leaves all as it is. *)
LEMMA ROMSwitchSelects ==
  ASSUME AsSelected, UNCHANGED stored, NEW n, SwitchMT32ROMSet(n)
  PROVE  AsSelected'
<1>1. UNCHANGED <<roms, fonts, mt32, fontState>>
  BY DEF SwitchMT32ROMSet, stored
<1>2. SoundFontSelected'
  BY <1>1 DEF AsSelected, SoundFontSelected, fontState
<1>3. CASE UNCHANGED <<m_CurrentROMSet, opened>>
  BY <1>1, <1>2, <1>3, ROMsStay DEF AsSelected, romState
<1>4. CASE /\ Roms!GetROMSet(roms, n).ok
           /\ opened' = Roms!GetROMSet(roms, n) /\ m_CurrentROMSet' = opened'.set
  BY <1>1, <1>2, <1>4, FoundROMsFit, OpenedAsSelected DEF AsSelected
<1>5. QED
  BY <1>3, <1>4 DEF SwitchMT32ROMSet, SwitchROMSet

(* The index moves only to the SoundFont that has been loaded. *)
LEMMA SoundFontSwitchSelects ==
  ASSUME AsSelected, UNCHANGED stored, NEW n, SwitchSoundFont(n)
  PROVE  AsSelected'
<1>1. UNCHANGED <<roms, fonts, fluid, romState>>
  BY DEF SwitchSoundFont, stored
<1>2. ROMsSelected'
  BY <1>1, ROMsStay DEF AsSelected
<1>3. CASE UNCHANGED <<m_nCurrentSoundFontIndex, loaded, rescanned>>
  BY <1>1, <1>2, <1>3 DEF AsSelected, SoundFontSelected
<1>4. CASE loaded' = Nothing
  BY <1>2, <1>4 DEF AsSelected, SoundFontSelected
<1>5. CASE n < Len(fonts) /\ loaded' = fonts[n + 1] /\ m_nCurrentSoundFontIndex' = n
  BY <1>1, <1>2, <1>5 DEF AsSelected, SoundFontSelected
<1>6. QED
  BY <1>3, <1>4, <1>5 DEF SwitchSoundFont, LoadSoundFont, Reinitialize

(* What leaves both synths alone. *)
LEMMA SelectedStays ==
  ASSUME AsSelected, UNCHANGED <<roms, fonts, romState, fontState>>
  PROVE  AsSelected'
<1>1. ROMsSelected'
  BY ROMsStay DEF AsSelected
<1>2. SoundFontSelected'
  BY DEF AsSelected, SoundFontSelected, fontState
<1>3. QED
  BY <1>1, <1>2 DEF AsSelected

(* The synths that are initialized, at the start or with a disk. *)
LEMMA InitializedROMsFit ==
  ASSUME NEW there, NEW images \in InitMT32Synth(there), images.ok
  PROVE  Fits(images, there)
<1>1. images = OpenedROMs(there)
  BY DEF InitMT32Synth, Roms!NoImages
<1>2. QED
  BY <1>1, FoundROMsFit DEF OpenedROMs

(* The SoundFont that is loaded then is the one at the index. *)
LEMMA InitializedSoundFont ==
  ASSUME NEW list, NEW loads, InitSoundFontSynth(list, loads).there
  PROVE  /\ InitSoundFontSynth(list, loads).index < Len(list)
         /\ InitSoundFontSynth(list, loads).font
              = list[InitSoundFontSynth(list, loads).index + 1]
BY DEF InitSoundFontSynth

(* The start opens what it selects. *)
LEMMA SelectedStart == Init => AsSelected
<1> SUFFICES ASSUME Init PROVE AsSelected
  OBVIOUS
<1>1. ROMsSelected
  <2>1. /\ opened \in InitMT32Synth(roms) /\ mt32 = opened.ok
        /\ m_CurrentROMSet = opened.set
    BY DEF Init
  <2>2. mt32 => Fits(opened, roms)
    BY <2>1, InitializedROMsFit
  <2>3. mt32 => ROMsSelected
    BY <2>1, <2>2, OpenedAsSelected
  <2>4. QED
    BY <2>3 DEF ROMsSelected
<1>2. SoundFontSelected
  BY InitializedSoundFont DEF Init, SoundFontSelected
<1>3. QED
  BY <1>1, <1>2 DEF AsSelected

(* Any event of the queue. *)
LEMMA EventSelects ==
  ASSUME AsSelected, ProcessEvent
  PROVE  AsSelected'
<1> DEFINE e == Head(buffer)
<1>1. UNCHANGED stored
  BY DEF ProcessEvent
<1>2. ASSUME UNCHANGED <<romState, fontState>> PROVE AsSelected'
  BY <1>1, <1>2, SelectedStays DEF stored
<1>3. ASSUME Unswitched PROVE AsSelected'
  BY <1>2, <1>3 DEF Unswitched, selected
<1>4. ASSUME NEW n, SwitchSynth(n) PROVE AsSelected'
  BY <1>2, <1>4 DEF SwitchSynth
<1>5. ASSUME NEW n, DeferSwitchSoundFont(n) PROVE AsSelected'
  BY <1>2, <1>5 DEF DeferSwitchSoundFont, selected
<1>6. ASSUME NextMT32ROMSet PROVE AsSelected'
  BY <1>1, <1>3, <1>6, ROMSwitchSelects DEF NextMT32ROMSet
<1> HIDE DEF e
<1>7. ASSUME ProcessButtonEvent(e) PROVE AsSelected'
  BY <1>3, <1>4, <1>5, <1>6, <1>7 DEF ProcessButtonEvent, Switching
<1>8. ASSUME ProcessSwitchEvent(e) PROVE AsSelected'
  BY <1>1, <1>4, <1>5, <1>8, ROMSwitchSelects DEF ProcessSwitchEvent
<1>9. ASSUME ProcessOther(e) PROVE AsSelected'
  BY <1>3, <1>9 DEF ProcessOther
<1>10. QED
  BY <1>7, <1>8, <1>9 DEF ProcessEvent, e

(* A disk: what a synth that is there has opened stays open. *)
LEMMA DiskSelects ==
  ASSUME AsSelected, USBAttached \/ USBNotMounted \/ USBRemoved
  PROVE  AsSelected'
<1>1. CASE USBAttached
  <2>1. ROMsSelected'
    <3>1. CASE mt32
      <4>1. UNCHANGED romState /\ roms \subseteq roms'
        BY <1>1, <3>1 DEF USBAttached, Roms!ScanROMs
      <4>2. QED
        BY <4>1, ROMsStay DEF AsSelected
    <3>2. CASE ~mt32
      <4>1. /\ opened' \in InitMT32Synth(roms') /\ mt32' = opened'.ok
            /\ m_CurrentROMSet' = opened'.set
        BY <1>1, <3>2 DEF USBAttached
      <4>2. mt32' => Fits(opened', roms')
        BY <4>1, InitializedROMsFit
      <4>3. mt32' => ROMsSelected'
        BY <4>1, <4>2, OpenedAsSelected
      <4>4. QED
        BY <4>3 DEF ROMsSelected
    <3>3. QED
      BY <3>1, <3>2
  <2>2. SoundFontSelected'
    <3>1. CASE fluid
      BY <1>1, <3>1 DEF USBAttached, SoundFontSelected
    <3>2. CASE ~fluid
      BY <1>1, <3>2, InitializedSoundFont DEF USBAttached, SoundFontSelected
    <3>3. QED
      BY <3>1, <3>2
  <2>3. QED
    BY <2>1, <2>2 DEF AsSelected
<1>2. CASE USBNotMounted
  BY <1>2, SelectedStays DEF USBNotMounted
<1>3. CASE USBRemoved
  <2>1. ROMsSelected'
    BY <1>3, ROMsStay DEF USBRemoved, AsSelected
  <2>2. SoundFontSelected'
    BY <1>3 DEF USBRemoved, SoundFontSelected
  <2>3. QED
    BY <2>1, <2>2 DEF AsSelected
<1>4. QED
  BY <1>1, <1>2, <1>3

(* So does every step. *)
LEMMA SelectedStep ==
  ASSUME AsSelected, [Next]_vars
  PROVE  AsSelected'
<1>1. ASSUME UNCHANGED <<selected, stored>> PROVE AsSelected'
  BY <1>1, SelectedStays DEF selected, stored
<1>2. ASSUME UNCHANGED main PROVE AsSelected'
  BY <1>1, <1>2 DEF main
<1>3. CASE SysEx
  <2>1. UNCHANGED stored
    BY <1>3 DEF SysEx
  <2>2. ASSUME NEW n, SwitchSynth(n) PROVE AsSelected'
    BY <2>1, <2>2, SelectedStays DEF SwitchSynth, stored
  <2>3. QED
    BY <1>3, <2>1, <2>2, ROMSwitchSelects, SoundFontSwitchSelects DEF SysEx
<1>4. CASE ProcessEvent
  BY <1>4, EventSelects
<1>5. CASE DeferredSwitch
  <2>1. UNCHANGED stored
    BY <1>5 DEF DeferredSwitch
  <2>2. CASE UNCHANGED selected
    BY <1>1, <2>1, <2>2
  <2>3. CASE SwitchSoundFont(m_nDeferredSoundFontSwitchIndex)
    BY <2>1, <2>3, SoundFontSwitchSelects
  <2>4. QED
    BY <1>5, <2>2, <2>3 DEF DeferredSwitch
<1>6. CASE USBAttached \/ USBNotMounted \/ USBRemoved
  BY <1>6, DiskSelects
<1>7. CASE MIDIDone \/ UpdateControls \/ ProcessEventQueue \/ NoUSB
  BY <1>1, <1>2, <1>7 DEF MIDIDone, UpdateControls, ProcessEventQueue, NoUSB
<1>8. CASE UITask \/ TimePasses
  BY <1>1, <1>8 DEF UITask, TimePasses
<1>9. CASE Interrupt \/ UNCHANGED vars
  BY <1>2, <1>9 DEF Interrupt, vars
<1>10. CASE User
  <2>1. CASE OSD \/ ResetHangingNotes
    BY <1>1, <2>1 DEF OSD, ResetHangingNotes
  <2>2. CASE UNCHANGED main
    BY <1>2, <2>2
  <2>3. QED
    BY <1>10, <2>1, <2>2 DEF User
<1>11. QED
  BY <1>3, <1>4, <1>5, <1>6, <1>7, <1>8, <1>9, <1>10 DEF Next, MainTask

(* The ROM images that are open are those of the set that counts as        *)
(* current, and the SoundFont that is loaded is the one at the index,      *)
(* whatever was asked for and whatever fails.                              *)
THEOREM HeardAsSelected == Spec => []AsSelected
<1>1. Init => AsSelected
  BY SelectedStart
<1>2. AsSelected /\ [Next]_vars => AsSelected'
  BY SelectedStep
<1>3. QED
  BY <1>1, <1>2, PTL DEF Spec

----------------------------------------------------------------------------
(* Types.  What FlattenSeq makes of sequences, with which the list of      *)
(* SoundFonts is made.                                                     *)

(* A set of numbers with 0 and every successor in it has all of them. *)
LEMMA NatInSet ==
  ASSUME NEW T, 0 \in T, \A n \in Nat : n \in T => n + 1 \in T
  PROVE  Nat \subseteq T
<1> SUFFICES ASSUME NEW n \in Nat, n \notin T PROVE FALSE
  OBVIOUS
<1> DEFINE Left == Nat \ T
<1>1. IsWellFoundedOn(OpToRel(<, Nat), Nat)
  BY NatLessThanWellFounded
<1>2. \A x, y \in Nat : y < x => <<y, x>> \in OpToRel(<, Nat)
  BY DEF OpToRel
<1>3. PICK x \in Left : \A y \in Left : <<y, x>> \notin OpToRel(<, Nat)
  <2>1. Left \subseteq Nat /\ Left # {}
    OBVIOUS
  <2> HIDE DEF Left
  <2>2. QED
    BY <1>1, <2>1, WFMin
<1>4. x # 0 /\ x \in Nat
  OBVIOUS
<1>5. x - 1 \in Nat /\ x - 1 < x /\ (x - 1) + 1 = x
  BY <1>4
<1>6. x - 1 \notin Left
  BY <1>2, <1>3, <1>4, <1>5
<1>7. QED
  BY <1>5, <1>6

(* f joins the first m sequences of ss, one after the other. *)
Flattens(f, ss, m) ==
  f = [i \in 1..m |-> IF i = 1 THEN ss[i] ELSE f[i - 1] \o ss[i]]

Flattening(ss) == CHOOSE f : Flattens(f, ss, Len(ss))

(* FlattenSeq is the last of what such a function has. *)
LEMMA FlattenSeqIs ==
  ASSUME NEW ss
  PROVE  FlattenSeq(ss) = IF Len(ss) = 0 THEN ss ELSE Flattening(ss)[Len(ss)]
BY Zenon DEF FlattenSeq, Flattening, Flattens

(* There is such a function for any m: the recursion is well founded. *)
LEMMA FlatteningExists ==
  ASSUME NEW ss, NEW n \in Nat
  PROVE  \E f : Flattens(f, ss, n)
<1> DEFINE T == {m \in Nat : \E f : Flattens(f, ss, m)}
<1>1. 0 \in T
  <2>1. [i \in 1..0 |-> 0]
          = [i \in 1..0 |-> IF i = 1 THEN ss[i] ELSE [j \in 1..0 |-> 0][i - 1] \o ss[i]]
    OBVIOUS
  <2>2. QED
    BY <2>1 DEF Flattens
<1>2. ASSUME NEW m \in Nat, m \in T PROVE m + 1 \in T
  <2>1. PICK f : Flattens(f, ss, m)
    BY <1>2
  <2> DEFINE g == [i \in 1..(m + 1) |-> IF i <= m THEN f[i]
                     ELSE IF i = 1 THEN ss[i] ELSE f[i - 1] \o ss[i]]
  <2>2. f = [i \in 1..m |-> IF i = 1 THEN ss[i] ELSE f[i - 1] \o ss[i]]
    BY <2>1 DEF Flattens
  <2>3. ASSUME NEW i \in 1..(m + 1)
        PROVE  g[i] = IF i = 1 THEN ss[i] ELSE g[i - 1] \o ss[i]
    <3>1. CASE i = 1
      <4>1. i \in 1..m => f[i] = ss[i]
        BY <2>2, <3>1
      <4>2. QED
        BY <3>1, <4>1
    <3>2. CASE i # 1
      <4>1. i - 1 \in 1..(m + 1) /\ i - 1 <= m
        BY <3>2
      <4>2. g[i - 1] = f[i - 1]
        BY <4>1
      <4>3. i <= m => i \in 1..m
        OBVIOUS
      <4>4. i <= m => f[i] = f[i - 1] \o ss[i]
        BY <2>2, <3>2, <4>3
      <4>5. g[i] = f[i - 1] \o ss[i]
        BY <3>2, <4>4
      <4>6. QED
        BY <3>2, <4>2, <4>5
    <3>3. QED
      BY <3>1, <3>2
  <2>4. Flattens(g, ss, m + 1)
    <3>1. g = [i \in 1..(m + 1) |-> g[i]]
      OBVIOUS
    <3> HIDE DEF g
    <3>2. QED
      BY <2>3, <3>1, Zenon DEF Flattens
  <2> HIDE DEF g
  <2>5. QED
    BY <2>4
<1>3. Nat \subseteq T
  <2> HIDE DEF T
  <2>1. QED
    BY <1>1, <1>2, NatInSet
<1>4. QED
  BY <1>3

(* What is joined of sequences over S is one. *)
LEMMA FlattenedTyped ==
  ASSUME NEW S, NEW ss \in Seq(Seq(S))
  PROVE  FlattenSeq(ss) \in Seq(S)
<1> DEFINE n == Len(ss)
           f == Flattening(ss)
           T == {m \in Nat : m \in 1..n => f[m] \in Seq(S)}
<1>1. n \in Nat /\ \A m \in 1..n : ss[m] \in Seq(S)
  OBVIOUS
<1>2. f = [i \in 1..n |-> IF i = 1 THEN ss[i] ELSE f[i - 1] \o ss[i]]
  <2>1. Flattens(f, ss, n)
    BY <1>1, FlatteningExists, Zenon DEF Flattening
  <2> HIDE DEF f
  <2>2. QED
    BY <2>1 DEF Flattens
<1> HIDE DEF f, n
<1>3. 0 \in T
  OBVIOUS
<1>4. ASSUME NEW m \in Nat, m \in T PROVE m + 1 \in T
  <2>1. SUFFICES ASSUME m + 1 \in 1..n PROVE f[m + 1] \in Seq(S)
    OBVIOUS
  <2>2. (m + 1) - 1 = m /\ ss[m + 1] \in Seq(S)
    BY <1>1, <2>1
  <2>3. CASE m = 0
    BY <1>2, <2>1, <2>2, <2>3
  <2>4. CASE m # 0
    <3>1. f[m] \in Seq(S) /\ m + 1 # 1
      BY <1>1, <1>4, <2>1, <2>4
    <3>2. f[m + 1] = f[m] \o ss[m + 1]
      BY <1>2, <2>1, <2>2, <3>1
    <3>3. QED
      BY <2>2, <3>1, <3>2, ConcatProperties
  <2>5. QED
    BY <2>3, <2>4
<1> HIDE DEF T
<1>5. Nat \subseteq T
  BY <1>3, <1>4, NatInSet
<1>6. CASE n = 0
  <2>1. FlattenSeq(ss) = ss /\ ss = <<>>
    BY <1>6, FlattenSeqIs, EmptySeq DEF n
  <2>2. <<>> \in Seq(S)
    OBVIOUS
  <2>3. QED
    BY <2>1, <2>2
<1>7. CASE n # 0
  <2>1. FlattenSeq(ss) = f[n] /\ n \in 1..n
    BY <1>1, <1>7, FlattenSeqIs DEF f, n
  <2>2. QED
    BY <1>1, <1>5, <2>1 DEF T
<1>8. QED
  BY <1>6, <1>7

(* The list has SoundFonts that there are. *)
LEMMA SoundFontsTyped ==
  ASSUME NEW there
  PROVE  SoundFonts(there) \in Seq(Range(FontOrder))
<1> DEFINE S == Range(FontOrder)
           one(i) == IF FontOrder[i] \in there THEN <<FontOrder[i]>> ELSE <<>>
<1>1. FontOrder \in Seq(S)
  BY SelectionAssumption
<1>2. \A i \in DOMAIN FontOrder : FontOrder[i] \in S
  BY <1>1 DEF Range
<1> HIDE DEF S
<1>3. \A i \in DOMAIN FontOrder : one(i) \in Seq(S)
  BY <1>2
<1>4. DOMAIN FontOrder = 1..Len(FontOrder) /\ Len(FontOrder) \in Nat
  BY <1>1
<1>5. [i \in DOMAIN FontOrder |-> one(i)] \in Seq(Seq(S))
  <2> HIDE DEF one
  <2>1. [i \in 1..Len(FontOrder) |-> one(i)] \in Seq(Seq(S))
    BY <1>3, <1>4, IsASeq
  <2>2. QED
    BY <1>4, <2>1
<1>6. FlattenSeq([i \in DOMAIN FontOrder |-> one(i)]) \in Seq(S)
  BY <1>5, FlattenedTyped
<1>7. QED
  BY <1>6 DEF SoundFonts, S

----------------------------------------------------------------------------
(* Types of the controls, of MiSTer and of what is selected: each part of  *)
(* TypeInv is changed by few steps, so a step is looked at part by part.   *)

Events == {e \in [Type : EventTypes, n : Int, bPressed : BOOLEAN, bRepeat : BOOLEAN] :
             e.Type = "SwitchSoundFont" => e.n \in Nat}

QueueTyped == m_EventQueue \in Seq(Events) /\ Len(m_EventQueue) < QueueSize
BufferTyped == buffer \in Seq(Events) /\ (mpc = "event" => buffer # <<>>)
PlaceTyped == mpc \in {"midi", "controls", "buttons", "changed", "repeat", "encoder", "moved",
                       "events", "event", "later", "usb"}

(* The pins and the history of the buttons. *)
PinsTyped ==
  /\ held \subseteq Fitted /\ presses \in 0..setup.presses /\ turns \in 0..setup.turns
  /\ position \in Int

SamplesTyped ==
  /\ sinceDown \in [Fitted -> 0..ButtonStateHistoryLength]
  /\ m_nButtonState \subseteq Fitted
  /\ m_Encoder \in Encoder /\ m_nDelta \in -128..127

UpdatesTyped ==
  /\ m_nLastButtonState \subseteq Fitted /\ m_RepeatButton \in Fitted \cup {None}
  /\ k \in 1..Len(Buttons) + 1 /\ seen \subseteq Fitted /\ nResult \in -128..127

MisterTyped ==
  /\ upc \in {"idle", "read", "act"} /\ failures \in 0..setup.failures
  /\ register \in Statuses /\ SystemStatus \in Statuses /\ MisterStatus \in Statuses

(* A synth that is there is not lost, so the current one stays there. *)
SynthsTyped ==
  /\ roms \subseteq Roms!Kinds /\ m_CurrentROMSet \in Roms!ROMSets \cup {Roms!Any}
  /\ m_pCurrentSynth \in {"MT32", "SoundFont"}
  /\ IF m_pCurrentSynth = "MT32" THEN mt32 ELSE fluid
  /\ fonts \in Seq(Range(FontOrder))
  /\ m_nCurrentSoundFontIndex \in Nat /\ loaded \in Range(FontOrder) \cup {Nothing}

DeferralTyped ==
  /\ m_nDeferredSoundFontSwitchIndex \in Nat
  /\ due => m_bDeferredSoundFontSwitchFlag

CountsTyped ==
  /\ m_nMasterVolume \in 0..100
  /\ choices \in 0..setup.choices /\ plugs \in 0..setup.plugs

TypeInv ==
  /\ setup \in Setups
  /\ QueueTyped /\ BufferTyped /\ PlaceTyped
  /\ PinsTyped /\ SamplesTyped /\ UpdatesTyped
  /\ MisterTyped /\ SynthsTyped /\ DeferralTyped /\ CountsTyped

(* It is what TypeOK says, and more. *)
LEMMA TypeInvOK == TypeInv => TypeOK
<1> SUFFICES ASSUME TypeInv PROVE TypeOK
  OBVIOUS
<1>1. ControlsOK
  BY DEF TypeInv, PinsTyped, SamplesTyped, UpdatesTyped, ControlsOK, Encoder
<1>2. \A e \in Range(m_EventQueue \o buffer) : e.Type \in EventTypes
  <2>1. m_EventQueue \o buffer \in Seq(Events)
    BY ConcatProperties DEF TypeInv, QueueTyped, BufferTyped
  <2>2. \A e \in Events : e.Type \in EventTypes
    BY DEF Events
  <2>3. \A q \in Seq(Events) : \A i \in DOMAIN q : q[i] \in Events
    OBVIOUS
  <2>4. QED
    BY <2>1, <2>2, <2>3 DEF Range
<1>3. setup.failures \in Nat /\ setup.choices \in Nat /\ setup.plugs \in Nat
  BY MisterAssumption, SelectionAssumption DEF TypeInv
<1>4. QED
  BY <1>1, <1>2, <1>3 DEF TypeInv, TypeOK, QueueTyped, PlaceTyped, MisterTyped, SynthsTyped,
     DeferralTyped, CountsTyped

(* Buttons that are fitted have numbers. *)
LEMMA ButtonNumbers ==
  ASSUME setup \in Setups
  PROVE  /\ Buttons \in Seq(Button1..EncoderButton) /\ Len(Buttons) \in Nat
         /\ \A i \in 1..Len(Buttons) : Buttons[i] \in Fitted
         /\ \A b \in Fitted : b \in 0..4
<1>1. Buttons \in Seq(Button1..EncoderButton)
  BY ButtonsAssumption DEF Buttons
<1>2. DOMAIN Buttons = 1..Len(Buttons) /\ Len(Buttons) \in Nat
  BY <1>1
<1>3. \A i \in 1..Len(Buttons) : Buttons[i] \in Button1..EncoderButton
  BY <1>1, ElementOfSeq
<1>4. QED
  BY <1>1, <1>2, <1>3 DEF Fitted, Range, Button1, EncoderButton

(* What Enqueued keeps of events fits in the queue. *)
LEMMA EnqueuedTyped ==
  ASSUME QueueTyped, NEW events \in Seq(Events)
  PROVE  Enqueued(events) \in Seq(Events) /\ Len(Enqueued(events)) < QueueSize
<1> DEFINE all == m_EventQueue \o events
           m == IF Len(all) < QueueSize THEN Len(all) ELSE QueueSize - 1
<1>1. all \in Seq(Events) /\ Len(all) \in Nat
  BY ConcatProperties DEF QueueTyped
<1>2. m \in 0..Len(all) /\ m < QueueSize
  BY <1>1, ControlsAssumption
<1>3. Enqueued(events) = SubSeq(all, 1, m)
  BY DEF Enqueued
<1> HIDE DEF all, m
<1>4. SubSeq(all, 1, m) \in Seq(Events) /\ Len(SubSeq(all, 1, m)) = m
  BY <1>1, <1>2
<1>5. QED
  BY <1>2, <1>3, <1>4

(* The events there are. *)
LEMMA EventTyped ==
  /\ \A n \in Int, type \in EventTypes : (type = "SwitchSoundFont" => n \in Nat) =>
       Event(type, n) \in Events
  /\ \A b \in 0..4, pressed, again \in BOOLEAN : ButtonEvent(b, pressed, again) \in Events
  /\ \A b \in 0..4, type \in EventTypes : Overlaid(type, b) \in Events
<1>1. ASSUME NEW n \in Int, NEW type \in EventTypes, type = "SwitchSoundFont" => n \in Nat
      PROVE  Event(type, n) \in Events
  BY <1>1 DEF Event, Events
<1>2. ASSUME NEW b \in 0..4, NEW pressed \in BOOLEAN, NEW again \in BOOLEAN
      PROVE  ButtonEvent(b, pressed, again) \in Events
  BY DEF ButtonEvent, Events, EventTypes
<1>3. ASSUME NEW b \in 0..4, NEW type \in EventTypes
      PROVE  Overlaid(type, b) \in Events
  <2> DEFINE n == IF type \in {"Button", "Encoder"} THEN b ELSE b + 65792
  <2>1. n \in Nat
    OBVIOUS
  <2>2. Overlaid(type, b) = [[Type |-> "Button", n |-> b, bPressed |-> TRUE, bRepeat |-> TRUE]
                               EXCEPT !.Type = type, !.n = n]
    BY DEF Overlaid, ButtonEvent
  <2> HIDE DEF n
  <2>3. Overlaid(type, b) = [Type |-> type, n |-> n, bPressed |-> TRUE, bRepeat |-> TRUE]
    BY <2>2
  <2>4. QED
    BY <2>1, <2>3 DEF Events
<1>4. QED
  BY <1>1, <1>2, <1>3

(* One event, or none. *)
LEMMA EventAlone ==
  /\ \A e \in Events : <<e>> \in Seq(Events)
  /\ <<>> \in Seq(Events)
OBVIOUS

(* MiSTer's requests. *)
LEMMA SwitchesTyped ==
  ASSUME NEW new \in Statuses, NEW current
  PROVE  Switches(new, current) \in Seq(Events)
<1> DEFINE a == IF new.Synth = current.Synth THEN <<>>
                ELSE <<Event("SwitchSynth", IF new.Synth = "MT32" THEN 0 ELSE 1)>>
           b == IF new.MT32ROMSet = current.MT32ROMSet THEN <<>>
                ELSE <<Event("SwitchMT32ROMSet", new.MT32ROMSet)>>
           c == IF new.SoundFontIndex = current.SoundFontIndex THEN <<>>
                ELSE <<Event("SwitchSoundFont", new.SoundFontIndex)>>
<1>1. new.MT32ROMSet \in Nat /\ new.SoundFontIndex \in Nat
  BY DEF Statuses
<1>2. /\ Event("SwitchSynth", IF new.Synth = "MT32" THEN 0 ELSE 1) \in Events
      /\ Event("SwitchMT32ROMSet", new.MT32ROMSet) \in Events
      /\ Event("SwitchSoundFont", new.SoundFontIndex) \in Events
  BY <1>1, EventTyped DEF EventTypes
<1>3. a \in Seq(Events) /\ b \in Seq(Events) /\ c \in Seq(Events)
  BY <1>2, EventAlone
<1>4. Switches(new, current) = a \o b \o c
  BY DEF Switches
<1> HIDE DEF a, b, c
<1>5. QED
  BY <1>3, <1>4, ConcatProperties

(* What a mute and the first reply put there. *)
LEMMA SoundOffTyped ==
  /\ Event("AllSoundOff", 0) \in Events /\ Event("DisplayImage", 0) \in Events
BY EventTyped DEF EventTypes

(* What the steps of a poll leave in the queue.                            *)
LEMMA PollQueue ==
  ASSUME TypeInv, Poll(System) \/ PollProceeds
  PROVE  m_EventQueue' \in Seq(Events) /\ Len(m_EventQueue') < QueueSize
<1>1. QueueTyped /\ MisterStatus \in Statuses
  BY DEF TypeInv, MisterTyped
<1> DEFINE events == Switches(MisterStatus, SystemStatus)
<1>2. /\ events \in Seq(Events) /\ <<>> \in Seq(Events)
      /\ <<Event("AllSoundOff", 0)>> \in Seq(Events)
      /\ <<Event("DisplayImage", 0)>> \in Seq(Events)
  BY <1>1, SwitchesTyped, SoundOffTyped, EventAlone
<1> HIDE DEF events
<1>3. ASSUME NEW s \in Seq(Events), m_EventQueue' = Enqueued(s)
      PROVE  m_EventQueue' \in Seq(Events) /\ Len(m_EventQueue') < QueueSize
  BY <1>1, <1>3, EnqueuedTyped
<1>4. ASSUME NEW s \in Seq(Events), ResetState(s)
      PROVE  m_EventQueue' \in Seq(Events) /\ Len(m_EventQueue') < QueueSize
  <2> DEFINE more == s \o (IF bMisterActive THEN <<Event("AllSoundOff", 0)>> ELSE <<>>)
  <2>1. more \in Seq(Events) /\ m_EventQueue' = Enqueued(more)
    BY <1>2, <1>4, ConcatProperties DEF ResetState
  <2>2. QED
    BY <1>3, <2>1
<1>5. ASSUME UNCHANGED m_EventQueue
      PROVE  m_EventQueue' \in Seq(Events) /\ Len(m_EventQueue') < QueueSize
  BY <1>1, <1>5 DEF QueueTyped
<1>6. CASE ReadFails \/ TellsMister
  BY <1>2, <1>4, <1>5, <1>6 DEF ReadFails, TellsMister
<1>7. CASE Mutes
  BY <1>2, <1>3, <1>7 DEF Mutes
<1>8. CASE Applies
  BY <1>2, <1>3, <1>4, <1>8 DEF Applies, events
<1>9. CASE FirstReply
  <2>1. events \o <<Event("DisplayImage", 0)>> \in Seq(Events)
    BY <1>2, ConcatProperties
  <2>2. QED
    BY <1>2, <1>3, <1>9, <2>1 DEF FirstReply, events
<1>10. CASE Poll(System) \/ Reads \/ NothingNew
  BY <1>5, <1>10 DEF Poll, Reads, NothingNew
<1>11. QED
  BY <1>6, <1>7, <1>8, <1>9, <1>10 DEF PollProceeds

(* What a step of Update leaves there. *)
LEMMA UpdateQueue ==
  ASSUME TypeInv, Update
  PROVE  m_EventQueue' \in Seq(Events) /\ Len(m_EventQueue') < QueueSize
<1>1. QueueTyped /\ setup \in Setups /\ UpdatesTyped
  BY DEF TypeInv
<1>2. ASSUME NEW e \in Events, m_EventQueue' = Enqueued(<<e>>)
      PROVE  m_EventQueue' \in Seq(Events) /\ Len(m_EventQueue') < QueueSize
  BY <1>1, <1>2, EnqueuedTyped, EventAlone
<1>3. CASE UNCHANGED m_EventQueue
  BY <1>1, <1>3 DEF QueueTyped
<1>4. CASE LooksAtButton
  <2>1. k \in 1..Len(Buttons)
    BY <1>1, <1>4, ButtonNumbers DEF LooksAtButton, UpdatesTyped
  <2>2. Buttons[k] \in 0..4
    BY <1>1, <2>1, ButtonNumbers
  <2> DEFINE down == Buttons[k] \in m_nButtonState
  <2>3. ButtonEvent(Buttons[k], down, FALSE) \in Events
    <3>1. down \in BOOLEAN
      OBVIOUS
    <3> HIDE DEF down
    <3>2. QED
      BY <2>2, <3>1, EventTyped
  <2>4. UNCHANGED m_EventQueue
        \/ m_EventQueue' = Enqueued(<<ButtonEvent(Buttons[k], down, FALSE)>>)
    BY <1>4, Zenon DEF LooksAtButton
  <2> HIDE DEF down
  <2>5. QED
    BY <1>2, <1>3, <2>3, <2>4
<1>5. CASE Repeats
  <2>1. CASE ~UNCHANGED m_EventQueue
    <3>1. PICK type \in setup.repeats \cup {"Button"} :
            m_EventQueue' = Enqueued(<<Overlaid(type, m_RepeatButton)>>)
      BY <1>5, <2>1 DEF Repeats
    <3>2. m_RepeatButton \in 0..4
      BY <1>1, <1>5, <2>1, ButtonNumbers DEF Repeats, UpdatesTyped
    <3>3. type \in EventTypes
      BY <1>1, UserAssumption DEF EventTypes
    <3>4. QED
      BY <1>2, <3>1, <3>2, <3>3, EventTyped
  <2>2. QED
    BY <1>3, <2>1
<1>6. CASE EncoderMoved
  <2>1. PICK n \in Int, delta \in Int :
          m_EventQueue' = Enqueued(IF delta = 0 THEN <<>> ELSE <<Event("Encoder", delta)>>)
    <3>1. PICK ms \in Intervals :
            LET n == Signed8(nResult * Acceleration(ms))
                delta == IF setup.reversed THEN Signed8(-n) ELSE n
            IN  m_EventQueue' =
                  Enqueued(IF delta = 0 THEN <<>> ELSE <<Event("Encoder", delta)>>)
      BY <1>6 DEF EncoderMoved
    <3>2. Acceleration(ms) \in Int /\ nResult \in Int
      <4>1. ms \in Int /\ nResult \in Int
        BY <1>1, ControlsAssumption DEF UpdatesTyped
      <4>2. 11 * ms * ms \in Int
        BY <4>1
      <4>3. (11 * ms * ms) \div 961 \in Int
        BY <4>2
      <4>4. QED
        BY <4>1, <4>3 DEF Acceleration
    <3>3. nResult * Acceleration(ms) \in Int
      BY <3>2
    <3> DEFINE n == Signed8(nResult * Acceleration(ms))
    <3>4. n \in Int
      BY <3>3 DEF Signed8
    <3>5. Signed8(-n) \in Int
      BY <3>4 DEF Signed8
    <3> HIDE DEF n
    <3>6. QED
      BY <3>1, <3>4, <3>5 DEF n
  <2>2. delta # 0 => Event("Encoder", delta) \in Events
    BY EventTyped DEF EventTypes
  <2>3. QED
    BY <1>1, <1>2, <2>1, <2>2, EnqueuedTyped, EventAlone
<1>7. CASE UpdateBegins \/ Remembers \/ EncoderReads
  BY <1>3, <1>7 DEF UpdateBegins, Remembers, EncoderReads
<1>8. QED
  BY <1>4, <1>5, <1>6, <1>7 DEF Update

(* Only Update, the polls and ProcessEventQueue touch the queue. *)
LEMMA QueueStep ==
  ASSUME TypeInv, [Next]_vars
  PROVE  QueueTyped'
<1>1. QueueTyped
  BY DEF TypeInv
<1>2. CASE UNCHANGED m_EventQueue
  BY <1>1, <1>2 DEF QueueTyped
<1>3. CASE UpdateControls
  BY <1>3, UpdateQueue DEF UpdateControls, QueueTyped
<1>4. CASE UITask
  BY <1>4, PollQueue DEF UITask, QueueTyped
<1>5. CASE ProcessEventQueue
  <2>1. m_EventQueue' = <<>> /\ Len(<<>>) = 0
    BY <1>5 DEF ProcessEventQueue
  <2>2. QED
    BY <2>1, EventAlone, ControlsAssumption DEF QueueTyped
<1>6. CASE SysEx \/ MIDIDone \/ ProcessEvent \/ DeferredSwitch \/ NoUSB \/ USBAttached
           \/ USBNotMounted \/ USBRemoved
  BY <1>2, <1>6 DEF SysEx, MIDIDone, ProcessEvent, DeferredSwitch, NoUSB, USBAttached,
                    USBNotMounted, USBRemoved
<1>7. CASE Interrupt \/ TimePasses \/ User
  BY <1>2, <1>7 DEF Interrupt, InterruptHandler, TimePasses, User, Press, Release, Turn, OSD,
                    ResetHangingNotes
<1>8. CASE UNCHANGED vars
  BY <1>2, <1>8 DEF vars
<1>9. QED
  BY <1>3, <1>4, <1>5, <1>6, <1>7, <1>8 DEF Next, MainTask

(* What is taken from the queue is processed one by one. *)
LEMMA BufferStep ==
  ASSUME TypeInv, [Next]_vars
  PROVE  BufferTyped'
<1>1. BufferTyped
  BY DEF TypeInv
<1>2. CASE UNCHANGED buffer /\ (mpc' # "event" \/ UNCHANGED mpc)
  BY <1>1, <1>2 DEF BufferTyped
<1>3. CASE ProcessEventQueue
  BY <1>3 DEF ProcessEventQueue, BufferTyped, TypeInv, QueueTyped
<1>4. CASE ProcessEvent
  <2>1. buffer \in Seq(Events) /\ buffer # <<>>
    BY <1>1, <1>4 DEF ProcessEvent, BufferTyped
  <2>2. Tail(buffer) \in Seq(Events)
    BY <2>1
  <2>3. QED
    BY <1>4, <2>2 DEF ProcessEvent, BufferTyped, Rest
<1>5. CASE SysEx
  BY <1>2, <1>5 DEF SysEx
<1>6. CASE MIDIDone \/ UpdateControls
  BY <1>2, <1>6 DEF MIDIDone, UpdateControls, main, Update, UpdateBegins, LooksAtButton,
                    Remembers, Repeats, EncoderReads, EncoderMoved
<1>7. CASE DeferredSwitch \/ NoUSB \/ USBAttached \/ USBNotMounted \/ USBRemoved
  BY <1>2, <1>7 DEF DeferredSwitch, NoUSB, USBAttached, USBNotMounted, USBRemoved, main,
                    Switch, AfterSwitch, Begin
<1>8. CASE UITask \/ Interrupt \/ TimePasses \/ User
  BY <1>2, <1>8 DEF UITask, Interrupt, InterruptHandler, TimePasses, User, Press, Release,
                    Turn, OSD, ResetHangingNotes, main
<1>9. CASE UNCHANGED vars
  BY <1>2, <1>9 DEF vars, main
<1>10. QED
  BY <1>3, <1>4, <1>5, <1>6, <1>7, <1>8, <1>9 DEF Next, MainTask

(* Where the main task is. *)
LEMMA PlaceStep ==
  ASSUME TypeInv, [Next]_vars
  PROVE  PlaceTyped'
<1>1. PlaceTyped
  BY DEF TypeInv
<1>2. CASE UNCHANGED mpc
  BY <1>1, <1>2 DEF PlaceTyped
<1>3. CASE UpdateControls
  BY <1>2, <1>3 DEF UpdateControls, PlaceTyped, Update, UpdateBegins, LooksAtButton, Remembers,
                    Repeats, EncoderReads, EncoderMoved
<1>4. CASE MainTask /\ ~UpdateControls
  BY <1>2, <1>4 DEF MainTask, SysEx, MIDIDone, ProcessEventQueue, ProcessEvent, DeferredSwitch,
                    NoUSB, USBAttached, USBNotMounted, USBRemoved, AfterSwitch, Begin, PlaceTyped
<1>5. CASE UITask \/ Interrupt \/ TimePasses \/ User
  BY <1>2, <1>5 DEF UITask, Interrupt, InterruptHandler, TimePasses, User, Press, Release,
                    Turn, OSD, ResetHangingNotes
<1>6. CASE UNCHANGED vars
  BY <1>2, <1>6 DEF vars
<1>7. QED
  BY <1>3, <1>4, <1>5, <1>6 DEF Next

(* Nobody changes the setup. *)
LEMMA SetupStays == [Next]_vars => UNCHANGED setup
BY DEF Next, MainTask, UITask, Interrupt, InterruptHandler, TimePasses, User, SysEx, MIDIDone,
       UpdateControls, Update, ProcessEventQueue, ProcessEvent, DeferredSwitch, NoUSB,
       USBAttached, USBNotMounted, USBRemoved, Press, Release, Turn, OSD, ResetHangingNotes, vars

(* The controls change in Update, the interrupt and at the user's hands. *)
LEMMA ControlsTouched ==
  ASSUME [Next]_vars
  PROVE  \/ UNCHANGED controls
         \/ Update \/ InterruptHandler \/ Turn \/ \E b \in Fitted : Press(b) \/ Release(b)
<1>1. CASE MainTask
  BY <1>1 DEF MainTask, SysEx, MIDIDone, UpdateControls, ProcessEventQueue, ProcessEvent,
              DeferredSwitch, NoUSB, USBAttached, USBNotMounted, USBRemoved
<1>2. CASE UITask \/ TimePasses \/ Interrupt
  BY <1>2 DEF UITask, TimePasses, Interrupt
<1>3. CASE User
  BY <1>3 DEF User, OSD, ResetHangingNotes
<1>4. CASE UNCHANGED vars
  BY <1>4 DEF vars
<1>5. QED
  BY <1>1, <1>2, <1>3, <1>4 DEF Next

(* The user turns and presses no more than there are presses and turns. *)
LEMMA PinsStep ==
  ASSUME TypeInv, [Next]_vars
  PROVE  PinsTyped'
<1>1. PinsTyped /\ setup \in Setups /\ UNCHANGED setup /\ Fitted' = Fitted
  BY SetupStays DEF TypeInv, Fitted, Buttons
<1>2. setup.presses \in Nat /\ setup.turns \in Nat
  BY <1>1, UserAssumption
<1>3. CASE UNCHANGED <<held, presses, turns, position>>
  BY <1>1, <1>3 DEF PinsTyped
<1>4. CASE \E b \in Fitted : Press(b) \/ Release(b)
  BY <1>1, <1>2, <1>4 DEF PinsTyped, Press, Release
<1>5. CASE Turn
  BY <1>1, <1>2, <1>5 DEF PinsTyped, Turn
<1>6. CASE UNCHANGED controls \/ Update \/ InterruptHandler
  BY <1>3, <1>6 DEF controls, pins, Update, InterruptHandler
<1>7. QED
  BY <1>4, <1>5, <1>6, ControlsTouched

(* Eight bits with a sign. *)
LEMMA Signed8Typed == \A n \in Int : Signed8(n) \in -128..127
BY DEF Signed8

(* What the interrupt samples; Update only takes what the encoder counted. *)
LEMMA SamplesStep ==
  ASSUME TypeInv, [Next]_vars
  PROVE  SamplesTyped'
<1>1. /\ SamplesTyped /\ setup \in Setups /\ UNCHANGED setup /\ Fitted' = Fitted
      /\ PinsTyped
  BY SetupStays DEF TypeInv, Fitted, Buttons
<1>2. CASE UNCHANGED <<sinceDown, m_nButtonState, m_Encoder>> /\ m_nDelta' \in -128..127
  BY <1>1, <1>2 DEF SamplesTyped
<1>3. m_nDelta \in -128..127
  BY <1>1 DEF SamplesTyped
<1>4. CASE InterruptHandler
  <2>1. /\ sinceDown' = [b \in Fitted |-> IF b \in held THEN 0
                          ELSE IF sinceDown[b] = ButtonStateHistoryLength
                          THEN ButtonStateHistoryLength ELSE sinceDown[b] + 1]
        /\ m_nButtonState' \subseteq Fitted
    BY <1>4 DEF InterruptHandler, DebounceButtonState
  <2>2. ButtonStateHistoryLength \in Nat
    BY ControlsAssumption
  <2>3. \A b \in Fitted : sinceDown[b] \in 0..ButtonStateHistoryLength
    BY <1>1 DEF SamplesTyped
  <2>4. sinceDown' \in [Fitted -> 0..ButtonStateHistoryLength]
    BY <2>1, <2>2, <2>3
  <2>5. m_Encoder' \in Encoder /\ m_nDelta' \in -128..127
    <3>1. CASE UNCHANGED <<m_Encoder, m_nDelta>>
      BY <1>1, <3>1 DEF SamplesTyped
    <3>2. CASE /\ m_Encoder' = ReadGPIOPins(m_Encoder, Levels(position), setup.type)
               /\ m_nDelta' = Signed8(m_nDelta + m_Encoder'.moved)
      <4>1. Levels(position) \in 0..3
        BY <1>1, PassageFacts DEF PinsTyped
      <4>2. m_Encoder' \in Encoder
        BY <1>1, <3>2, <4>1, PinsAreRead DEF SamplesTyped
      <4>3. m_nDelta + m_Encoder'.moved \in Int
        BY <1>3, <4>2 DEF Encoder
      <4>4. QED
        BY <3>2, <4>2, <4>3, Signed8Typed
    <3>3. QED
      BY <1>4, <3>1, <3>2 DEF InterruptHandler, Encodes
  <2>6. QED
    BY <1>1, <2>1, <2>4, <2>5 DEF SamplesTyped
<1>5. CASE Update
  <2>1. UNCHANGED <<sinceDown, m_nButtonState, m_Encoder>>
    BY <1>5 DEF Update
  <2>2. EncoderMoved => m_nDelta' = 0
    BY DEF EncoderMoved
  <2>3. LooksAtButton \/ EncoderReads => UNCHANGED m_nDelta
    BY DEF LooksAtButton, EncoderReads
  <2>4. UNCHANGED m_nDelta \/ m_nDelta' = 0
    BY <1>5, <2>2, <2>3 DEF Update
  <2>5. QED
    BY <1>2, <1>3, <2>1, <2>4
<1>6. CASE UNCHANGED controls \/ Turn \/ \E b \in Fitted : Press(b) \/ Release(b)
  BY <1>2, <1>3, <1>6 DEF controls, sampling, Turn, Press, Release
<1>7. QED
  BY <1>4, <1>5, <1>6, ControlsTouched

(* Where Update is in its loop, and what it remembers. *)
LEMMA UpdatesStep ==
  ASSUME TypeInv, [Next]_vars
  PROVE  UpdatesTyped'
<1>1. /\ UpdatesTyped /\ SamplesTyped /\ setup \in Setups /\ UNCHANGED setup
      /\ Fitted' = Fitted /\ Buttons' = Buttons
  BY SetupStays DEF TypeInv, Fitted, Buttons
<1>2. Len(Buttons) \in Nat
  BY <1>1, ButtonNumbers
<1>3. CASE UNCHANGED <<m_nLastButtonState, m_RepeatButton, k, seen, nResult>>
  BY <1>1, <1>3 DEF UpdatesTyped
<1>4. CASE UpdateBegins
  BY <1>1, <1>2, <1>4 DEF UpdatesTyped, UpdateBegins
<1>5. CASE LooksAtButton
  <2>1. k \in 1..Len(Buttons) /\ k' \in 1..Len(Buttons) + 1
    BY <1>1, <1>2, <1>5 DEF LooksAtButton, UpdatesTyped
  <2>2. Buttons[k] \in Fitted
    BY <1>1, <2>1, ButtonNumbers
  <2>3. seen' \subseteq Fitted /\ m_RepeatButton' \in Fitted \cup {None}
    BY <1>1, <1>5, <2>2 DEF LooksAtButton, UpdatesTyped, Repeating
  <2>4. QED
    BY <1>1, <1>5, <2>1, <2>3 DEF LooksAtButton, UpdatesTyped
<1>6. CASE Remembers
  BY <1>1, <1>2, <1>6 DEF UpdatesTyped, SamplesTyped, Remembers
<1>7. CASE Repeats
  BY <1>3, <1>7 DEF Repeats, updating
<1>8. CASE EncoderReads \/ EncoderMoved
  <2>1. nResult' = m_nDelta \/ nResult' = 0
    BY <1>8 DEF EncoderReads, EncoderMoved
  <2>2. UNCHANGED <<m_nLastButtonState, m_RepeatButton, k, seen>>
    BY <1>8 DEF EncoderReads, EncoderMoved
  <2>3. m_nDelta \in -128..127
    BY <1>1 DEF SamplesTyped
  <2>4. nResult' \in -128..127
    BY <2>1, <2>3
  <2>5. /\ m_nLastButtonState \subseteq Fitted /\ m_RepeatButton \in Fitted \cup {None}
        /\ k \in 1..Len(Buttons) + 1 /\ seen \subseteq Fitted
    BY <1>1 DEF UpdatesTyped
  <2>6. /\ m_nLastButtonState' \subseteq Fitted' /\ m_RepeatButton' \in Fitted' \cup {None}
        /\ k' \in 1..Len(Buttons') + 1 /\ seen' \subseteq Fitted'
    BY <1>1, <2>2, <2>5
  <2>7. QED
    BY <2>4, <2>6 DEF UpdatesTyped
<1>9. CASE \/ UNCHANGED controls \/ InterruptHandler \/ Turn
           \/ \E b \in Fitted : Press(b) \/ Release(b)
  BY <1>3, <1>9 DEF controls, updating, InterruptHandler, Turn, Press, Release
<1>10. QED
  BY <1>4, <1>5, <1>6, <1>7, <1>8, <1>9, ControlsTouched DEF Update

(* Whatever is selected is a status. *)
LEMMA SystemTyped ==
  ASSUME SynthsTyped
  PROVE  System \in Statuses
<1>1. /\ m_pCurrentSynth \in {"MT32", "SoundFont"}
      /\ m_CurrentROMSet \in 0..255 /\ m_nCurrentSoundFontIndex % 256 \in 0..255
  BY DEF SynthsTyped, Roms!ROMSets, Roms!MT32Old, Roms!MT32New, Roms!CM32L, Roms!Any
<1>2. QED
  BY <1>1 DEF System, Status, Statuses

(* Statuses go back and forth. *)
LEMMA MisterStep ==
  ASSUME TypeInv, [Next]_vars
  PROVE  MisterTyped'
<1>1. MisterTyped /\ setup \in Setups /\ UNCHANGED setup /\ SynthsTyped
  BY SetupStays DEF TypeInv
<1>2. setup.failures \in Nat /\ setup.saved \subseteq Statuses
      /\ (setup.mister => \A r \in Statuses, f \in DOMAIN Unknown : \A v \in setup.menu[f] :
                            [r EXCEPT ![f] = v] \in Statuses)
  BY <1>1, MisterAssumption
<1>3. System \in Statuses /\ Unknown \in Statuses
  BY <1>1, SystemTyped DEF Unknown, Status, Statuses
<1>4. CASE UNCHANGED mister
  BY <1>1, <1>4 DEF MisterTyped, mister
<1>5. CASE Poll(System)
  BY <1>1, <1>3, <1>5 DEF MisterTyped, Poll
<1>6. CASE PollProceeds
  <2>1. register' \in Statuses
    BY <1>1, <1>6 DEF MisterTyped, PollProceeds, ReadFails, Reads, Mutes, TellsMister, Applies,
                      NothingNew, FirstReply
  <2>2. failures' \in 0..setup.failures
    BY <1>1, <1>2, <1>6 DEF MisterTyped, PollProceeds, ReadFails, Reads, Mutes, TellsMister,
                            Applies, NothingNew, FirstReply, Fails
  <2>3. upc' \in {"idle", "act"} /\ SystemStatus' \in Statuses /\ MisterStatus' \in Statuses
    BY <1>1, <1>3, <1>6 DEF MisterTyped, PollProceeds, ReadFails, Reads, Mutes, TellsMister,
                            Applies, NothingNew, FirstReply, PollEnds
  <2>4. QED
    BY <1>1, <2>1, <2>2, <2>3 DEF MisterTyped
<1>7. CASE OSD \/ ResetHangingNotes
  <2>1. register' \in Statuses
    <3>1. CASE OSD
      <4>1. PICK f \in DOMAIN register : \E v \in setup.menu[f] :
              register' = [register EXCEPT ![f] = v]
        BY <3>1 DEF OSD
      <4>2. DOMAIN register = DOMAIN Unknown
        BY <1>1 DEF MisterTyped, Statuses, Unknown, Status
      <4>3. PICK v \in setup.menu[f] : register' = [register EXCEPT ![f] = v]
        BY <4>1
      <4>4. setup.mister /\ register \in Statuses
        BY <1>1, <3>1 DEF OSD, MisterTyped
      <4>5. [register EXCEPT ![f] = v] \in Statuses
        BY <1>2, <4>2, <4>3, <4>4
      <4>6. QED
        BY <4>3, <4>5
    <3>2. CASE ResetHangingNotes
      BY <1>1, <3>2 DEF ResetHangingNotes, MisterTyped, Statuses
    <3>3. QED
      BY <1>7, <3>1, <3>2
  <2>2. QED
    BY <1>1, <1>7, <2>1 DEF OSD, ResetHangingNotes, MisterTyped
<1>8. CASE MainTask \/ Interrupt \/ TimePasses \/ UNCHANGED vars
  BY <1>4, <1>8 DEF MainTask, SysEx, MIDIDone, UpdateControls, ProcessEventQueue, ProcessEvent,
                    DeferredSwitch, NoUSB, USBAttached, USBNotMounted, USBRemoved, Interrupt,
                    TimePasses, vars
<1>9. CASE UITask \/ User
  BY <1>4, <1>5, <1>6, <1>7, <1>9 DEF UITask, User
<1>10. QED
  BY <1>8, <1>9 DEF Next

(* What GetROMSet returns has a set, or Any. *)
LEMMA ROMsTyped ==
  ASSUME NEW there, NEW s
  PROVE  Roms!GetROMSet(there, s).ok => Roms!GetROMSet(there, s).set \in Roms!ROMSets
BY FoundROMsFit DEF Fits

(* So has what the start and a scan open. *)
LEMMA OpenedTyped ==
  ASSUME NEW there
  PROVE  \A images \in InitMT32Synth(there) : images.set \in Roms!ROMSets \cup {Roms!Any}
<1>1. \A s : Roms!GetROMSet(there, s).set \in Roms!ROMSets \cup {Roms!Any}
  <2>1. TAKE s
  <2>2. CASE Roms!GetROMSet(there, s).ok
    BY <2>2, ROMsTyped
  <2>3. CASE ~Roms!GetROMSet(there, s).ok
    BY <2>3 DEF Roms!GetROMSet, Roms!Images, Roms!NoImages
  <2>4. QED
    BY <2>2, <2>3
<1>2. OpenedROMs(there).set \in Roms!ROMSets \cup {Roms!Any}
  BY <1>1 DEF OpenedROMs
<1>3. QED
  BY <1>2 DEF InitMT32Synth, Roms!NoImages

(* A SoundFont that a start loads is one of the list. *)
LEMMA InitSoundFontTyped ==
  ASSUME setup \in Setups, NEW list \in Seq(Range(FontOrder)), NEW loads
  PROVE  LET s == InitSoundFontSynth(list, loads)
         IN  s.index \in Nat /\ s.font \in Range(FontOrder) \cup {Nothing}
<1> DEFINE n == PreferredFont(list)
<1>1. n \in Nat
  BY SelectionAssumption DEF PreferredFont
<1>2. n < Len(list) => list[n + 1] \in Range(FontOrder)
  BY <1>1
<1> HIDE DEF n
<1>3. QED
  BY <1>1, <1>2 DEF InitSoundFontSynth, n

(* Switches do not lose a synth. *)
LEMMA SwitchTyped ==
  ASSUME SynthsTyped, UNCHANGED <<roms, fonts>>, NEW n
  PROVE  /\ SwitchSynth(n) => SynthsTyped'
         /\ SwitchMT32ROMSet(n) => SynthsTyped'
         /\ n \in Nat /\ SwitchSoundFont(n) => SynthsTyped'
         /\ UNCHANGED selected => SynthsTyped'
<1>1. ASSUME SwitchSynth(n) PROVE SynthsTyped'
  BY <1>1 DEF SynthsTyped, SwitchSynth, romState, fontState
<1>2. ASSUME UNCHANGED selected PROVE SynthsTyped'
  BY <1>2 DEF SynthsTyped, selected, romState, fontState
<1>3. ASSUME SwitchMT32ROMSet(n) PROVE SynthsTyped'
  <2>1. m_CurrentROMSet' \in Roms!ROMSets \cup {Roms!Any}
    BY <1>3, ROMsTyped DEF SwitchMT32ROMSet, SwitchROMSet, SynthsTyped
  <2>2. QED
    BY <1>3, <2>1 DEF SynthsTyped, SwitchMT32ROMSet, fontState
<1>4. ASSUME n \in Nat, SwitchSoundFont(n) PROVE SynthsTyped'
  <2>1. n < Len(fonts) => fonts[n + 1] \in Range(FontOrder)
    BY <1>4 DEF SynthsTyped
  <2>2. /\ m_nCurrentSoundFontIndex' \in Nat
        /\ loaded' \in Range(FontOrder) \cup {Nothing}
    BY <1>4, <2>1 DEF SwitchSoundFont, LoadSoundFont, Reinitialize, SynthsTyped
  <2>3. QED
    BY <1>4, <2>2 DEF SynthsTyped, SwitchSoundFont, romState
<1>5. QED
  BY <1>1, <1>2, <1>3, <1>4

(* The event that ProcessEvent is about. *)
LEMMA HeadTyped ==
  ASSUME BufferTyped, mpc = "event"
  PROVE  Head(buffer) \in Events
<1>1. buffer \in Seq(Events) /\ buffer # <<>>
  BY DEF BufferTyped
<1>2. QED
  BY <1>1

(* The synths that there are, and the current one. *)
LEMMA SynthsStep ==
  ASSUME TypeInv, [Next]_vars
  PROVE  SynthsTyped'
<1>1. SynthsTyped /\ setup \in Setups /\ UNCHANGED setup /\ BufferTyped /\ DeferralTyped
  BY SetupStays DEF TypeInv
<1>2. ASSUME UNCHANGED <<roms, fonts, selected>> PROVE SynthsTyped'
  BY <1>1, <1>2, SwitchTyped
<1>3. CASE SysEx
  <2>1. UNCHANGED <<roms, fonts>>
    BY <1>3 DEF SysEx, stored
  <2>2. PICK e \in setup.sysex : \/ SwitchSynth(e.n) \/ SwitchMT32ROMSet(e.n)
                                  \/ SwitchSoundFont(e.n)
    BY <1>3 DEF SysEx
  <2>3. e.n \in 0..127
    BY <1>1, SelectionAssumption
  <2>4. QED
    BY <1>1, <2>1, <2>2, <2>3, SwitchTyped
<1>4. CASE ProcessEvent
  <2> DEFINE e == Head(buffer)
  <2>1. UNCHANGED <<roms, fonts>> /\ mpc = "event"
    BY <1>4 DEF ProcessEvent, stored
  <2>2. ProcessButtonEvent(e) \/ ProcessSwitchEvent(e) \/ ProcessOther(e)
    BY <1>4 DEF ProcessEvent
  <2> HIDE DEF e
  <2>3. ASSUME NEW n, SwitchSynth(n) \/ SwitchMT32ROMSet(n) PROVE SynthsTyped'
    BY <1>1, <2>1, <2>3, SwitchTyped
  <2>4. ASSUME UNCHANGED selected PROVE SynthsTyped'
    BY <1>2, <2>1, <2>4
  <2>5. CASE ProcessButtonEvent(e)
    BY <2>3, <2>4, <2>5 DEF ProcessButtonEvent, Switching, NextMT32ROMSet, Unswitched,
                            DeferSwitchSoundFont
  <2>6. CASE ProcessSwitchEvent(e)
    BY <2>3, <2>4, <2>6 DEF ProcessSwitchEvent, DeferSwitchSoundFont
  <2>7. CASE ProcessOther(e)
    BY <2>4, <2>7 DEF ProcessOther, Unswitched
  <2>8. QED
    BY <2>2, <2>5, <2>6, <2>7
<1>5. CASE DeferredSwitch
  <2>1. UNCHANGED <<roms, fonts>> /\ m_nDeferredSoundFontSwitchIndex \in Nat
    BY <1>1, <1>5 DEF DeferredSwitch, stored, DeferralTyped
  <2>2. QED
    BY <1>1, <1>5, <2>1, SwitchTyped DEF DeferredSwitch
<1>6. CASE USBAttached
  <2>1. roms' \subseteq Roms!Kinds
    BY <1>1, <1>6 DEF USBAttached, SynthsTyped, Roms!ScanROMs, Roms!CheckROM
  <2>2. fonts' \in Seq(Range(FontOrder))
    BY <1>6, SoundFontsTyped DEF USBAttached
  <2>3. m_CurrentROMSet' \in Roms!ROMSets \cup {Roms!Any} /\ (mt32 => mt32')
    BY <1>1, <1>6, OpenedTyped DEF USBAttached, SynthsTyped, romState
  <2>4. /\ m_nCurrentSoundFontIndex' \in Nat /\ (fluid => fluid')
        /\ loaded' \in Range(FontOrder) \cup {Nothing}
    BY <1>1, <1>6, <2>2, InitSoundFontTyped DEF USBAttached, SynthsTyped
  <2>5. QED
    BY <1>1, <1>6, <2>1, <2>2, <2>3, <2>4 DEF USBAttached, SynthsTyped, Switch
<1>7. CASE USBNotMounted
  BY <1>2, <1>7 DEF USBNotMounted, Switch, selected
<1>8. CASE USBRemoved
  <2>1. fonts' \in Seq(Range(FontOrder))
    BY <1>1, <1>8, SoundFontsTyped DEF USBRemoved, SynthsTyped
  <2>2. QED
    BY <1>1, <1>8, <2>1 DEF USBRemoved, SynthsTyped, Switch, romState
<1>9. CASE MIDIDone \/ UpdateControls \/ ProcessEventQueue \/ NoUSB
  BY <1>2, <1>9 DEF MIDIDone, UpdateControls, ProcessEventQueue, NoUSB, main, stored
<1>10. CASE UITask \/ Interrupt \/ TimePasses \/ User \/ UNCHANGED vars
  BY <1>2, <1>10 DEF UITask, Interrupt, TimePasses, User, OSD, ResetHangingNotes, main, stored,
                     vars
<1>11. QED
  BY <1>3, <1>4, <1>5, <1>6, <1>7, <1>8, <1>9, <1>10 DEF Next, MainTask

(* The SoundFont after the current one, or after the one that waits. *)
LEMMA NextFontTyped ==
  ASSUME SynthsTyped, DeferralTyped, fonts # <<>>
  PROVE  NextSoundFont \in Nat
<1> DEFINE n == Len(fonts)
           from == IF m_bDeferredSoundFontSwitchFlag THEN m_nDeferredSoundFontSwitchIndex
                   ELSE m_nCurrentSoundFontIndex
<1>1. n \in Nat \ {0} /\ from \in Nat
  BY EmptySeq DEF SynthsTyped, DeferralTyped
<1> HIDE DEF n, from
<1>2. (from + 1) % n \in Nat
  BY <1>1
<1>3. QED
  BY <1>2 DEF NextSoundFont, n, from

(* A switch that waits has an index. *)
LEMMA DeferralStep ==
  ASSUME TypeInv, [Next]_vars
  PROVE  DeferralTyped'
<1>1. SynthsTyped /\ BufferTyped /\ DeferralTyped
  BY DEF TypeInv
<1>2. ASSUME UNCHANGED deferral PROVE DeferralTyped'
  BY <1>1, <1>2 DEF DeferralTyped, deferral
<1>3. ASSUME NEW n \in Nat, DeferSwitchSoundFont(n) PROVE DeferralTyped'
  BY <1>1, <1>2, <1>3 DEF DeferralTyped, DeferSwitchSoundFont
<1>4. CASE ProcessEvent
  <2> DEFINE e == Head(buffer)
  <2>1. ProcessButtonEvent(e) \/ ProcessSwitchEvent(e) \/ ProcessOther(e)
    BY <1>4 DEF ProcessEvent
  <2>2. e \in Events
    BY <1>1, <1>4, HeadTyped DEF ProcessEvent
  <2> HIDE DEF e
  <2>3. ASSUME NEW n, SwitchSynth(n) \/ SwitchMT32ROMSet(n) PROVE DeferralTyped'
    BY <1>2, <2>3 DEF SwitchSynth, SwitchMT32ROMSet
  <2>4. CASE ProcessButtonEvent(e)
    BY <1>1, <1>2, <1>3, <2>3, <2>4, NextFontTyped
    DEF ProcessButtonEvent, Switching, NextMT32ROMSet, Unswitched
  <2>5. CASE ProcessSwitchEvent(e)
    <3>1. e.Type = "SwitchSoundFont" => e.n \in Nat
      BY <2>2 DEF Events
    <3>2. QED
      BY <1>3, <2>3, <2>5, <3>1 DEF ProcessSwitchEvent
  <2>6. CASE ProcessOther(e)
    BY <1>2, <2>6 DEF ProcessOther, Unswitched
  <2>7. QED
    BY <2>1, <2>4, <2>5, <2>6
<1>5. CASE DeferredSwitch
  BY <1>2, <1>5 DEF DeferredSwitch, DeferralTyped
<1>6. CASE TimePasses
  BY <1>1, <1>6 DEF TimePasses, DeferralTyped
<1>7. CASE SysEx
  BY <1>2, <1>7 DEF SysEx, SwitchSynth, SwitchMT32ROMSet
<1>8. CASE \/ MIDIDone \/ UpdateControls \/ ProcessEventQueue \/ NoUSB
           \/ USBAttached \/ USBNotMounted \/ USBRemoved
  BY <1>2, <1>8 DEF MIDIDone, UpdateControls, ProcessEventQueue, NoUSB, USBAttached,
                    USBNotMounted, USBRemoved, Switch, main
<1>9. CASE UITask \/ Interrupt \/ User \/ UNCHANGED vars
  BY <1>2, <1>9 DEF UITask, Interrupt, User, OSD, ResetHangingNotes, main, vars
<1>10. QED
  BY <1>4, <1>5, <1>6, <1>7, <1>8, <1>9 DEF Next, MainTask

(* The volume stays within its range, whatever number an event has. *)
LEMMA CountsStep ==
  ASSUME TypeInv, [Next]_vars
  PROVE  CountsTyped'
<1>1. CountsTyped /\ setup \in Setups /\ UNCHANGED setup /\ BufferTyped
  BY SetupStays DEF TypeInv
<1>2. setup.choices \in Nat /\ setup.plugs \in Nat
  BY <1>1, SelectionAssumption
<1>3. ASSUME UNCHANGED m_nMasterVolume, choices' = choices \/ choices' = choices + 1,
             choices' # choices => choices < setup.choices, plugs' = plugs
      PROVE  CountsTyped'
  BY <1>1, <1>2, <1>3 DEF CountsTyped
<1>4. ASSUME UNCHANGED <<m_nMasterVolume, choices, plugs>> PROVE CountsTyped'
  BY <1>1, <1>4 DEF CountsTyped
<1>5. ASSUME UNCHANGED <<m_nMasterVolume, choices>>, plugs < setup.plugs, plugs' = plugs + 1
      PROVE  CountsTyped'
  BY <1>1, <1>2, <1>5 DEF CountsTyped
<1>6. CASE ProcessEvent
  <2> DEFINE e == Head(buffer)
  <2>1. ProcessButtonEvent(e) \/ ProcessSwitchEvent(e) \/ ProcessOther(e)
    BY <1>6 DEF ProcessEvent
  <2>2. e.n \in Int
    BY <1>1, <1>6, HeadTyped DEF ProcessEvent, Events
  <2> HIDE DEF e
  <2>3. m_nMasterVolume \in Int
    BY <1>1 DEF CountsTyped
  <2>4. \A n \in Int : SetMasterVolume(n) => m_nMasterVolume' \in 0..100
    BY DEF SetMasterVolume
  <2>5. m_nMasterVolume' \in 0..100
    BY <1>1, <2>1, <2>2, <2>3, <2>4 DEF ProcessButtonEvent, ProcessSwitchEvent, ProcessOther,
                                        CountsTyped
  <2>6. UNCHANGED <<choices, plugs>>
    BY <1>6 DEF ProcessEvent, stored
  <2>7. QED
    BY <1>1, <2>5, <2>6 DEF CountsTyped
<1>7. CASE SysEx \/ OSD \/ ResetHangingNotes
  BY <1>3, <1>7 DEF SysEx, OSD, ResetHangingNotes, stored
<1>8. CASE USBAttached \/ USBNotMounted \/ USBRemoved
  BY <1>5, <1>8 DEF USBAttached, USBNotMounted, USBRemoved, Switch
<1>9. CASE MIDIDone \/ UpdateControls \/ ProcessEventQueue \/ DeferredSwitch \/ NoUSB
  BY <1>4, <1>9 DEF MIDIDone, UpdateControls, ProcessEventQueue, DeferredSwitch, NoUSB, main,
                    stored
<1>10. CASE \/ UITask \/ Interrupt \/ TimePasses \/ UNCHANGED vars
            \/ User /\ ~(OSD \/ ResetHangingNotes)
  BY <1>4, <1>10 DEF UITask, Interrupt, TimePasses, User, main, stored, vars
<1>11. QED
  BY <1>6, <1>7, <1>8, <1>9, <1>10 DEF Next, MainTask, User

(* The start. *)
LEMMA TypesStart == Init => TypeInv
<1> SUFFICES ASSUME Init PROVE TypeInv
  OBVIOUS
<1>1. setup \in Setups
  BY DEF Init
<1>2. QueueTyped /\ BufferTyped
  <2>1. m_EventQueue = <<>> /\ buffer = <<>> /\ mpc # "event" /\ Len(<<>>) = 0
    BY DEF Init, Begin
  <2>2. QED
    BY <2>1, EventAlone, ControlsAssumption DEF QueueTyped, BufferTyped
<1>3. PlaceTyped
  BY DEF Init, Begin, PlaceTyped
<1>4. PinsTyped
  BY <1>1, UserAssumption DEF Init, ControlsInit, PinsTyped
<1>5. SamplesTyped
  <2>1. m_Encoder = [m_nState |-> 15, previous |-> <<{}, {}>>, moved |-> 0]
    BY DEF Init, ControlsInit, Still
  <2>2. <<{}, {}>> \in [1..2 -> SUBSET (0..15)]
    OBVIOUS
  <2>3. m_Encoder \in Encoder
    BY <2>1, <2>2 DEF Encoder
  <2>4. sinceDown = [b \in Fitted |-> ButtonStateHistoryLength] /\ m_nButtonState = {}
        /\ m_nDelta = 0
    BY DEF Init, ControlsInit
  <2>5. ButtonStateHistoryLength \in 0..ButtonStateHistoryLength /\ 0 \in -128..127
    BY ControlsAssumption
  <2>6. QED
    BY <2>3, <2>4, <2>5 DEF SamplesTyped
<1>6. UpdatesTyped
  BY <1>1, ButtonNumbers DEF Init, ControlsInit, UpdatesTyped
<1>7. MisterTyped
  <2>1. Unknown \in Statuses
    BY DEF Unknown, Status, Statuses
  <2>2. QED
    BY <1>1, <2>1, MisterAssumption DEF Init, MisterInit, MisterTyped
<1>8. SynthsTyped
  <2>1. roms \subseteq Roms!Kinds
    BY DEF Init, Roms!ScanROMs, Roms!CheckROM
  <2>2. fonts \in Seq(Range(FontOrder))
    BY SoundFontsTyped DEF Init
  <2>3. m_CurrentROMSet \in Roms!ROMSets \cup {Roms!Any}
    BY OpenedTyped DEF Init
  <2>4. m_nCurrentSoundFontIndex \in Nat /\ loaded \in Range(FontOrder) \cup {Nothing}
    BY <1>1, <2>2, InitSoundFontTyped DEF Init
  <2>5. QED
    BY <2>1, <2>2, <2>3, <2>4 DEF Init, SynthsTyped
<1>9. DeferralTyped /\ CountsTyped
  BY <1>1, SelectionAssumption DEF Init, DeferralTyped, CountsTyped
<1>10. QED
  BY <1>1, <1>2, <1>3, <1>4, <1>5, <1>6, <1>7, <1>8, <1>9 DEF TypeInv

(* The queue never holds more than it has room for, a deferred switch is   *)
(* due only while it waits, the volume stays in its range, and the current *)
(* synth is there, for any setups, SoundFonts and size of the queue.       *)
THEOREM SelectionTypeCorrect == Spec => []TypeOK
<1>1. Init => TypeInv
  BY TypesStart
<1>2. TypeInv /\ [Next]_vars => TypeInv'
  BY SetupStays, QueueStep, BufferStep, PlaceStep, PinsStep, SamplesStep, UpdatesStep,
     MisterStep, SynthsStep, DeferralStep, CountsStep DEF TypeInv
<1>3. QED
  BY <1>1, <1>2, TypeInvOK, PTL DEF Spec
=============================================================================
