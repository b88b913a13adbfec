------------------------------ MODULE Controls ------------------------------
(***************************************************************************)
(* CControl, CControlSimpleButtons and CControlSimpleEncoder               *)
(* (src/control/control.cpp, simplebuttons.cpp, simpleencoder.cpp): the    *)
(* timer interrupt samples the pins at any step of Update, which the main  *)
(* task calls.  A held button may be due for a repeat at any Update: the   *)
(* times of presses and repeats are not kept.                              *)
(***************************************************************************)
EXTENDS Integers, Sequences, FiniteSets, SequencesExt, RotaryEncoder

CONSTANTS
  Setups,             \* what is fitted, stored and asked for
  QueueSize,          \* EventQueueSize, one more than there is room for
  ButtonStateHistoryLength,
  Intervals           \* milliseconds between two reads of the encoder

ASSUME ControlsAssumption ==
  /\ QueueSize \in Nat \ {0, 1} /\ ButtonStateHistoryLength \in Nat \ {0}
  /\ Intervals \subseteq Nat

Button1 == 0
Button2 == 1
Button3 == 2
Button4 == 3
EncoderButton == 4

None == -1
NoEncoder == "none"

(* Buttons are bits of the state, looked at from the lowest to the highest.*)
ASSUME ButtonsAssumption ==
  \A s \in Setups : s.buttons \in Seq(Button1..EncoderButton) /\ IsInjective(s.buttons)

ASSUME EncoderAssumption == \A s \in Setups : s.type \in Types \cup {NoEncoder}

EventTypes == {"Button", "Encoder", "SwitchSynth", "SwitchMT32ROMSet", "SwitchSoundFont",
               "AllSoundOff", "DisplayImage"}

(* What the type of a repeat event may be, when it is not set. *)
ASSUME UserAssumption ==
  \A s \in Setups : s.presses \in Nat /\ s.turns \in Nat /\ s.repeats \subseteq EventTypes

VARIABLES
  setup,
  m_EventQueue,
  mpc,                \* where the main task is
  held,               \* the buttons that are down
  sinceDown,          \* samples since a button was last seen down
  m_nButtonState, m_nLastButtonState,   \* as sets of buttons
  m_RepeatButton,
  k, seen,            \* the next button Update looks at, those it saw down
  position, sampled,  \* of the encoder in transitions, and seen by a sample
  m_Encoder, m_nDelta, nResult,
  presses, turns,     \* by the user, who tires of it
  unreported,         \* history: presses in m_nButtonState without an event yet
  torn,               \* history: the state changed in the midst of an Update
  run, gained         \* history: transitions since the last detent if there
                      \* was no turning back, and movements decoded in them

pins == <<held, position, run>>
sampling == <<sinceDown, m_nButtonState, sampled, m_Encoder, m_nDelta, gained, unreported>>
updating == <<m_nLastButtonState, m_RepeatButton, k, seen, nResult, torn>>
controls == <<pins, presses, turns, sampling, updating>>

Buttons == setup.buttons
Fitted == Range(Buttons)

ControlsOK ==
  /\ held \subseteq Fitted /\ presses \in 0..setup.presses /\ turns \in 0..setup.turns
  /\ sinceDown \in [Fitted -> 0..ButtonStateHistoryLength]
  /\ m_nButtonState \subseteq Fitted /\ m_nLastButtonState \subseteq Fitted
  /\ m_RepeatButton \in Fitted \cup {None}
  /\ k \in 1..Len(Buttons) + 1 /\ seen \subseteq Fitted
  /\ m_nDelta \in -128..127 /\ nResult \in -128..127
  /\ m_Encoder.m_nState \in 0..15

(* The timer has run for longer than the history when the tasks start.     *)
ControlsInit ==
  /\ held = {} /\ presses = 0 /\ turns = 0
  /\ sinceDown = [b \in Fitted |-> ButtonStateHistoryLength]
  /\ m_nButtonState = {} /\ m_nLastButtonState = {} /\ m_RepeatButton = None
  /\ k = 1 /\ seen = {}
  /\ position = 0 /\ sampled = TRUE
  /\ m_Encoder = [Still EXCEPT !.m_nState = 15] /\ m_nDelta = 0 /\ nResult = 0
  /\ unreported = [b \in Fitted |-> 0]
  /\ torn = FALSE /\ run = 0 /\ gained = 0

Event(type, n) == [Type |-> type, n |-> n, bPressed |-> FALSE, bRepeat |-> FALSE]

ButtonEvent(b, pressed, again) ==
  [Type |-> "Button", n |-> b, bPressed |-> pressed, bRepeat |-> again]

(* An event that does not fit is dropped. *)
Enqueued(events) ==
  LET all == m_EventQueue \o events
  IN  SubSeq(all, 1, IF Len(all) < QueueSize THEN Len(all) ELSE QueueSize - 1)

----------------------------------------------------------------------------
(* The user and the interrupt. *)

Press(b) ==
  /\ b \notin held /\ presses < setup.presses
  /\ held' = held \cup {b} /\ presses' = presses + 1
  /\ UNCHANGED <<setup, m_EventQueue, mpc, position, run, turns, sampling, updating>>

Release(b) ==
  /\ b \in held /\ held' = held \ {b}
  /\ UNCHANGED <<setup, m_EventQueue, mpc, position, run, presses, turns, sampling, updating>>

(* No faster than it is sampled. *)
Turn ==
  /\ sampled /\ sampled' = FALSE
  /\ turns < setup.turns /\ turns' = turns + 1
  /\ position' \in {position - 1, position + 1}
  /\ LET by == position' - position
         AtRest == position % TransitionsPerDetent[setup.type] = 0
     IN  /\ run' = IF AtRest THEN by ELSE IF run * by > 0 THEN run + by ELSE 0
         /\ gained' = IF AtRest THEN 0 ELSE gained
  /\ UNCHANGED <<setup, m_EventQueue, mpc, held, presses, updating, sinceDown,
                 m_nButtonState, m_Encoder, m_nDelta, unreported>>

(* Of DAT and CLK, both high at a detent, as the position goes up. *)
Levels(p) == <<3, 1, 0, 2>>[(p % 4) + 1]

(* A button is down as soon as it was seen down, and for as long as one    *)
(* sample of the history says so.                                          *)
DebounceButtonState ==
  /\ sinceDown' = [b \in Fitted |-> IF b \in held THEN 0
                     ELSE IF sinceDown[b] = ButtonStateHistoryLength
                     THEN ButtonStateHistoryLength ELSE sinceDown[b] + 1]
  /\ m_nButtonState' = {b \in Fitted : sinceDown'[b] < ButtonStateHistoryLength}
  /\ unreported' = [b \in Fitted |->
       unreported[b] + IF b \in m_nButtonState' \ m_nButtonState THEN 1 ELSE 0]

Encodes ==
  /\ sampled' = TRUE
  /\ IF setup.type = NoEncoder THEN UNCHANGED <<m_Encoder, m_nDelta, gained>>
     ELSE /\ m_Encoder' = ReadGPIOPins(m_Encoder, Levels(position), setup.type)
          /\ m_nDelta' = Signed8(m_nDelta + m_Encoder'.moved)
          /\ gained' = gained + m_Encoder'.moved

InterruptHandler ==
  /\ DebounceButtonState /\ Encodes
  /\ UNCHANGED <<setup, m_EventQueue, mpc, pins, presses, turns, updating>>

----------------------------------------------------------------------------
(* Update, in the main task. *)

UpdateBegins ==
  /\ mpc = "controls"
  /\ mpc' = IF m_nButtonState = m_nLastButtonState THEN "repeat" ELSE "buttons"
  /\ k' = 1 /\ seen' = {}
  /\ UNCHANGED <<m_EventQueue, m_nLastButtonState, m_RepeatButton, nResult, torn>>

(* Seeded fault: the release of a button leaves it to repeat. *)
Repeating_Stays(b, down) == IF down THEN b ELSE m_RepeatButton

(* The button to repeat after b has been found down or up. *)
Repeating(b, down) ==
  IF down THEN b ELSE IF m_RepeatButton = b THEN None ELSE m_RepeatButton

LooksAtButton ==
  /\ mpc = "buttons" /\ k <= Len(Buttons)
  /\ LET b == Buttons[k]
         down == b \in m_nButtonState
     IN  /\ seen' = IF down THEN seen \cup {b} ELSE seen
         /\ IF down = (b \in m_nLastButtonState)
            THEN UNCHANGED <<m_EventQueue, m_RepeatButton, unreported>>
            ELSE /\ m_EventQueue' = Enqueued(<<ButtonEvent(b, down, FALSE)>>)
                 /\ m_RepeatButton' = Repeating(b, down)
                 /\ unreported' = IF down THEN [unreported EXCEPT ![b] = @ - 1]
                                           ELSE unreported
  /\ k' = k + 1
  /\ UNCHANGED <<m_nDelta, mpc, m_nLastButtonState, nResult, torn>>

(* Seeded fault: nothing is remembered, and all is reported again. *)
Remembers_Nothing ==
  /\ mpc = "buttons" /\ k > Len(Buttons)
  /\ mpc' = "changed" /\ k' = 1 /\ seen' = {}
  /\ UNCHANGED <<m_EventQueue, m_nLastButtonState, m_RepeatButton, nResult, torn>>

(* m_nButtonState is read once more. *)
Remembers ==
  /\ mpc = "buttons" /\ k > Len(Buttons)
  /\ m_nLastButtonState' = m_nButtonState
  /\ torn' = (torn \/ m_nButtonState # seen)
  /\ mpc' = "changed" /\ k' = 1 /\ seen' = {}
  /\ UNCHANGED <<m_EventQueue, m_RepeatButton, nResult>>

(* The other members of the union lie over the button and its flags.       *)
Overlaid(type, b) ==
  [ButtonEvent(b, TRUE, TRUE) EXCEPT
     !.Type = type, !.n = IF type \in {"Button", "Encoder"} THEN b ELSE b + 65792]

(* The type of a repeat event is not set, unless a button changed just now.*)
Repeats ==
  /\ mpc \in {"repeat", "changed"} /\ mpc' = "encoder"
  /\ \/ UNCHANGED m_EventQueue
     \/ /\ m_RepeatButton # None
        /\ \E type \in IF mpc = "changed" THEN {"Button"} \cap setup.repeats ELSE setup.repeats :
             m_EventQueue' = Enqueued(<<Overlaid(type, m_RepeatButton)>>)
  /\ UNCHANGED updating

EncoderReads ==
  /\ mpc = "encoder"
  /\ nResult' = m_nDelta
  /\ mpc' = IF m_nDelta = 0 THEN "events" ELSE "moved"
  /\ UNCHANGED <<m_EventQueue, m_nDelta, m_nLastButtonState, m_RepeatButton, k, seen,
                 torn>>

(* What the interrupt has added since is lost. *)
EncoderMoved ==
  /\ mpc = "moved" /\ mpc' = "events"
  /\ m_nDelta' = 0 /\ nResult' = 0
  /\ \E ms \in Intervals :
       LET n == Signed8(nResult * Acceleration(ms))
           delta == IF setup.reversed THEN Signed8(-n) ELSE n
       IN  m_EventQueue' =
             Enqueued(IF delta = 0 THEN <<>> ELSE <<Event("Encoder", delta)>>)
  /\ UNCHANGED <<m_nLastButtonState, m_RepeatButton, k, seen, torn>>

Update ==
  /\ \/ UpdateBegins /\ UNCHANGED <<m_nDelta, unreported>>
     \/ LooksAtButton
     \/ Remembers /\ UNCHANGED <<m_nDelta, unreported>>
     \/ Repeats /\ UNCHANGED <<m_nDelta, unreported>>
     \/ EncoderReads /\ UNCHANGED unreported
     \/ EncoderMoved /\ UNCHANGED unreported
  /\ UNCHANGED <<setup, pins, presses, turns, sinceDown, m_nButtonState, sampled, m_Encoder,
                 gained>>
=============================================================================
