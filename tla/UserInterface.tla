--------------------------- MODULE UserInterface ---------------------------
(***************************************************************************)
(* CUserInterface (src/lcd/ui.cpp): what other parts ask to be shown, on   *)
(* core 0, and the turns of UITask that show it, on core 1.  No lock and   *)
(* no barrier orders what a call on core 0 writes: its fields reach core 1 *)
(* one by one, in any order.  Times are kept as ages in ticks; ages above  *)
(* Old are all alike.                                                      *)
(***************************************************************************)
EXTENDS Integers, Functions

CONSTANTS
  Length,                    \* of each text that may be shown, in characters
  Width,                     \* of the LCD
  SyxExTextBufferSize,
  SysExOffsets, SysExSizes,  \* of the texts in SysEx messages
  ControlMister,
  Uses,                      \* which calls there are, one set for each use
  ScrollRate, ScrollDelay, SystemMessageDisplayTime, SC55DisplayTime,
  MaxLag                     \* ticks between turns, or in a call, at most

ASSUME TimeAssumption ==
  /\ ScrollRate \in Nat /\ ScrollDelay \in Nat
  /\ SystemMessageDisplayTime \in Nat /\ SC55DisplayTime \in Nat
  /\ MaxLag \in Nat
  /\ MaxLag < SystemMessageDisplayTime /\ MaxLag < SC55DisplayTime
UICalls == {"message", "spinner", "image", "text", "bitmap", "power"}
ASSUME UseAssumption == Uses \subseteq SUBSET UICalls
ASSUME MisterAssumption == ControlMister \in BOOLEAN
ASSUME TextAssumption ==
  /\ "power" \in DOMAIN Length /\ Width \in Nat
  /\ \A t \in DOMAIN Length : Length[t] \in Nat
  /\ \E t \in DOMAIN Length : Length[t] > Width
  /\ \E t \in DOMAIN Length : \A u \in DOMAIN Length : Length[t] >= Length[u]
ASSUME BufferSizeAssumption ==
  SyxExTextBufferSize \in Nat \ {0} /\ SysExOffsets \cup SysExSizes \subseteq Nat

VARIABLES
  ui,           \* the members of CUserInterface; m_nStateTime as its age
  use,          \* the calls of this run
  pending,      \* fields that a call on core 0 has yet to write
  hook,         \* of power saving that core 0 is in
  m_bPowerSaveRequested,
  m_bBacklightEnabled,
  pc,           \* core 1's place in its turn
  lag,          \* the age of the latest turn's nTicks
  nDeltaTicks,
  m_bIsScrolling,
  age,          \* the age of the latest call
  raced,        \* history: that call and a turn were under way at once
  drawn         \* history: a turn has drawn what that call asked for

ui_vars == <<ui, m_bBacklightEnabled>>
turn == <<pc, lag, nDeltaTicks, m_bIsScrolling>>
calls == <<use, pending, hook, m_bPowerSaveRequested>>
history == <<age, raced, drawn>>
UIVars == <<ui_vars, turn, calls, history>>

States == {"None", "DisplayingMessage", "DisplayingSpinnerMessage",
           "DisplayingImage", "DisplayingSysExText", "DisplayingSysExBitmap",
           "EnteringPowerSavingMode", "InPowerSavingMode"}
Texts == DOMAIN Length
SysExLengths == 0..(SyxExTextBufferSize - 1)

Most(m, n) == IF m > n THEN m ELSE n
Longest == CHOOSE n \in {Length[t] : t \in Texts} \cup SysExLengths :
             /\ \A t \in Texts : n >= Length[t]
             /\ n >= SyxExTextBufferSize - 1
(* More than anything stays: scrolling, and then the time at the end. *)
Old == ScrollDelay + (Longest - Width - 1) * ScrollRate
         + Most(SystemMessageDisplayTime, SC55DisplayTime) + MaxLag

Older(n) == IF n < Old THEN n + 1 ELSE Old

(* nTicks - m_nStateTime is unsigned: a time that is newer than the turn's *)
(* nTicks seems long ago.                                                  *)
Since == IF ui.m_nStateTime >= lag THEN ui.m_nStateTime - lag ELSE Old

UITypeOK ==
  /\ ui \in [m_State : States, m_nStateTime : 0..Old,
             m_nCurrentScrollOffset : Nat,
             m_SystemMessageTextBuffer : Texts, m_SysExTextBuffer : SysExLengths,
             m_SysExDisplayMessageType : {"Roland", "Yamaha"}]
  /\ use \in Uses
  /\ DOMAIN pending \subseteq DOMAIN ui
  /\ hook \in {"none", "enter", "exit"}
  /\ m_bPowerSaveRequested \in BOOLEAN
  /\ m_bBacklightEnabled \in BOOLEAN
  /\ pc \in {"loop", "scroll", "scrolling", "timeout", "assign", "light",
             "draw", "test", "parked"}
  /\ lag \in 0..MaxLag
  /\ nDeltaTicks \in 0..Old
  /\ m_bIsScrolling \in BOOLEAN
  /\ age \in 0..Old
  /\ raced \in BOOLEAN /\ drawn \in BOOLEAN

UIInit ==
  /\ ui = [m_State |-> "None", m_nStateTime |-> Old,
           m_nCurrentScrollOffset |-> 0,
           m_SystemMessageTextBuffer |-> "power", m_SysExTextBuffer |-> 0,
           m_SysExDisplayMessageType |-> "Roland"]
  /\ use \in Uses /\ pending = << >>
  /\ hook = "none" /\ m_bPowerSaveRequested = FALSE
  /\ m_bBacklightEnabled = TRUE
  /\ pc = "loop" /\ lag = 0 /\ nDeltaTicks = 0 /\ m_bIsScrolling = FALSE
  /\ age = Old /\ raced = FALSE /\ drawn = FALSE

Turning == pc \notin {"loop", "parked"}
Calling == DOMAIN pending # {}

----------------------------------------------------------------------------
(* Core 0: a call, and what it writes. *)

Ask(kind, writes) ==
  /\ kind \in use /\ ~Calling /\ hook = "none"
  /\ pending' = writes
  /\ age' = 0 /\ raced' = Turning /\ drawn' = FALSE
  /\ UNCHANGED <<ui_vars, turn, use, m_bPowerSaveRequested>>

(* Seeded faults: the offset, or the time, of an earlier message is kept.  *)
SystemMessage_KeepsOffset(state, text) ==
  [m_SystemMessageTextBuffer |-> text, m_State |-> state, m_nStateTime |-> 0]
SystemMessage_KeepsTime(state, text) ==
  [m_SystemMessageTextBuffer |-> text, m_State |-> state,
   m_nCurrentScrollOffset |-> 0]

SystemMessage(state, text) ==
  [m_SystemMessageTextBuffer |-> text, m_State |-> state,
   m_nCurrentScrollOffset |-> 0, m_nStateTime |-> 0]

(* The spinner is shown while a SoundFont is loaded, with one text. *)
ShowSystemMessage ==
  /\ \/ \E text \in Texts : Ask("message", SystemMessage("DisplayingMessage", text))
     \/ Ask("spinner", SystemMessage("DisplayingSpinnerMessage", "power"))
  /\ UNCHANGED hook

ClearSpinnerMessage == Ask("spinner", [m_State |-> "None"]) /\ UNCHANGED hook

DisplayImage ==
  /\ Ask("image", [m_State |-> "DisplayingImage", m_nStateTime |-> 0])
  /\ UNCHANGED hook

(* A text that ends behind the buffer's end is cut. *)
TextLength(nOffset, nSize) ==
  IF nOffset + nSize < SyxExTextBufferSize THEN nOffset + nSize
                                           ELSE SyxExTextBufferSize - 1

ShowSysExText ==
  /\ \E type \in {"Roland", "Yamaha"}, nOffset \in SysExOffsets,
        nSize \in SysExSizes :
       /\ nOffset < SyxExTextBufferSize - 1
       /\ Ask("text", [m_SysExTextBuffer |-> TextLength(nOffset, nSize),
                       m_SysExDisplayMessageType |-> type,
                       m_State |-> "DisplayingSysExText",
                       m_nCurrentScrollOffset |-> 0, m_nStateTime |-> 0])
  /\ UNCHANGED hook

ShowSysExBitmap ==
  /\ \E type \in {"Roland", "Yamaha"} :
       Ask("bitmap",
           [m_SysExDisplayMessageType |-> type,
            m_State |-> "DisplayingSysExBitmap", m_nStateTime |-> 0])
  /\ UNCHANGED hook

(* CMT32Pi's hooks change m_bPowerSaveRequested when the call is done. *)
EnterPowerSavingMode ==
  /\ ~m_bPowerSaveRequested
  /\ Ask("power",
         [m_SystemMessageTextBuffer |-> "power",
          m_State |-> "EnteringPowerSavingMode", m_nStateTime |-> 0])
  /\ hook' = "enter"

ExitPowerSavingMode ==
  /\ m_bPowerSaveRequested
  /\ Ask("power", [m_State |-> "None"])
  /\ hook' = "exit"

UICall == \/ ShowSystemMessage \/ ClearSpinnerMessage \/ DisplayImage
          \/ ShowSysExText \/ ShowSysExBitmap
          \/ EnterPowerSavingMode \/ ExitPowerSavingMode

Write ==
  /\ Calling
  /\ \E f \in DOMAIN pending :
       /\ ui' = [ui EXCEPT ![f] = IF f = "m_nStateTime" THEN age ELSE pending[f]]
       /\ pending' = Restrict(pending, DOMAIN pending \ {f})
  /\ UNCHANGED <<m_bBacklightEnabled, turn, use, hook, m_bPowerSaveRequested,
                 history>>

Request ==
  /\ ~Calling /\ hook # "none"
  /\ m_bPowerSaveRequested' = (hook = "enter")
  /\ hook' = "none"
  /\ UNCHANGED <<ui_vars, turn, use, pending, history>>

----------------------------------------------------------------------------
(* Core 1: a turn of UITask, that is of Update. *)

Goto(from, to) == pc = from /\ pc' = to

(* UITask reads nTicks, some time before Update uses it. *)
BeginTurn ==
  /\ Goto("loop", "scroll")
  /\ lag' = 0
  /\ raced' = (raced \/ Calling)
  /\ UNCHANGED <<ui_vars, calls, nDeltaTicks, m_bIsScrolling, age, drawn>>

(* UpdateScroll. *)
ReadScrollTime ==
  /\ Goto("scroll", "scrolling")
  /\ nDeltaTicks' = Since
  /\ UNCHANGED <<ui_vars, calls, lag, m_bIsScrolling, history>>

Scrolls == \/ ui.m_State = "DisplayingMessage"
           \/ /\ ui.m_State = "DisplayingSysExText"
              /\ ui.m_SysExDisplayMessageType = "Roland"

ShownLength == IF ui.m_State = "DisplayingSysExText"
               THEN ui.m_SysExTextBuffer
               ELSE Length[ui.m_SystemMessageTextBuffer]

TooLong == ShownLength - ui.m_nCurrentScrollOffset > Width

UpdateScroll ==
  LET nTimeout == IF ui.m_nCurrentScrollOffset = 0 THEN ScrollDelay ELSE ScrollRate
  IN  /\ Goto("scrolling", "timeout")
      /\ m_bIsScrolling' = (Scrolls /\ TooLong)
      /\ IF m_bIsScrolling' /\ nDeltaTicks >= nTimeout
         THEN ui' = [ui EXCEPT !.m_nCurrentScrollOffset = @ + 1,
                               !.m_nStateTime = lag]
         ELSE UNCHANGED ui
      /\ nDeltaTicks' = 0
      /\ UNCHANGED <<m_bBacklightEnabled, calls, lag, history>>

(* The rest of Update: the time is read, then the state that it is of. *)
ReadStateTime ==
  /\ Goto("timeout", "assign")
  /\ nDeltaTicks' = Since
  /\ UNCHANGED <<ui_vars, calls, lag, m_bIsScrolling, history>>

TimedOut_ForgetsBitmaps ==                       \* seeded fault
  \/ /\ \/ ui.m_State = "DisplayingMessage" /\ ~m_bIsScrolling
        \/ ui.m_State = "DisplayingImage"
     /\ nDeltaTicks >= SystemMessageDisplayTime
  \/ /\ ui.m_State = "DisplayingSysExText" /\ ~m_bIsScrolling
     /\ nDeltaTicks >= SC55DisplayTime

TimedOut ==
  \/ /\ \/ ui.m_State = "DisplayingMessage" /\ ~m_bIsScrolling
        \/ ui.m_State = "DisplayingImage"
     /\ nDeltaTicks >= SystemMessageDisplayTime
  \/ /\ \/ ui.m_State = "DisplayingSysExText" /\ ~m_bIsScrolling
        \/ ui.m_State = "DisplayingSysExBitmap"
     /\ nDeltaTicks >= SC55DisplayTime

Assign(state) == ui' = [ui EXCEPT !.m_State = state, !.m_nStateTime = lag]

Timeout ==
  /\ Goto("assign", "light") /\ nDeltaTicks' = 0
  /\ TimedOut
  /\ Assign("None")
  /\ UNCHANGED <<m_bBacklightEnabled, calls, lag, m_bIsScrolling, history>>

PowerSavingTimeout ==
  /\ Goto("assign", "light") /\ nDeltaTicks' = 0
  /\ ui.m_State = "EnteringPowerSavingMode"
  /\ nDeltaTicks >= SystemMessageDisplayTime
  /\ Assign("InPowerSavingMode")
  /\ m_bBacklightEnabled' = FALSE
  /\ UNCHANGED <<calls, lag, m_bIsScrolling, history>>

(* The spinner turns, if its time has come, and stays. *)
NoTimeout ==
  /\ Goto("assign", "light") /\ nDeltaTicks' = 0
  /\ ~TimedOut
  /\ ~(ui.m_State = "EnteringPowerSavingMode"
       /\ nDeltaTicks >= SystemMessageDisplayTime)
  /\ \/ ui.m_State = "DisplayingSpinnerMessage" /\ Assign(ui.m_State)
     \/ UNCHANGED ui
  /\ UNCHANGED <<m_bBacklightEnabled, calls, lag, m_bIsScrolling, history>>

Light ==
  /\ Goto("light", "draw")
  /\ m_bBacklightEnabled' = (m_bBacklightEnabled \/ ui.m_State # "InPowerSavingMode")
  /\ UNCHANGED <<ui, calls, lag, nDeltaTicks, m_bIsScrolling, history>>

(* DrawSystemState, or the synth's own display. *)
Draw ==
  /\ Goto("draw", "test")
  /\ drawn' = \/ drawn
              \/ ~Calling /\ ui.m_State \notin {"None", "InPowerSavingMode"}
  /\ UNCHANGED <<ui_vars, calls, lag, nDeltaTicks, m_bIsScrolling, age, raced>>

(* UITask parks in the dark, without MiSTer; what is shown meanwhile waits *)
(* for the end of power saving.                                            *)
EndTurn ==
  LET parks == ~ControlMister /\ m_bPowerSaveRequested
                 /\ ui.m_State = "InPowerSavingMode"
  IN  /\ Goto("test", IF parks THEN "parked" ELSE "loop")
      /\ UNCHANGED <<ui_vars, calls, lag, nDeltaTicks, m_bIsScrolling, history>>

Unpark ==
  /\ Goto("parked", "loop") /\ ~m_bPowerSaveRequested
  /\ UNCHANGED <<ui_vars, calls, lag, nDeltaTicks, m_bIsScrolling, history>>

Turn == \/ BeginTurn \/ ReadScrollTime \/ UpdateScroll \/ ReadStateTime
        \/ Timeout \/ PowerSavingTimeout \/ NoTimeout \/ Light \/ Draw
        \/ EndTurn \/ Unpark

(* Calls end, and turns follow each other, within MaxLag ticks; leaving    *)
(* ParkCurrentCore and setting a flag take no time.                        *)
Tick ==
  /\ IF pc = "parked" THEN m_bPowerSaveRequested ELSE lag < MaxLag
  /\ Calling => age < MaxLag
  /\ hook = "none" \/ Calling
  /\ lag' = IF pc = "parked" THEN lag ELSE lag + 1
  /\ ui' = [ui EXCEPT !.m_nStateTime = Older(@)]
  /\ age' = Older(age)
  /\ UNCHANGED <<m_bBacklightEnabled, calls, pc, nDeltaTicks, m_bIsScrolling,
                 raced, drawn>>

UINext == UICall \/ Write \/ Request \/ Turn \/ Tick

----------------------------------------------------------------------------
(* How long what is shown stays: long enough to scroll to its end, and     *)
(* then the time that every message has.                                   *)
ItsTime ==
  LET steps == IF Scrolls /\ ShownLength > Width THEN ShownLength - Width ELSE 0
      scrolling == IF steps = 0 THEN 0
                   ELSE ScrollDelay + (steps - 1) * ScrollRate
  IN  scrolling + IF ui.m_State \in {"DisplayingSysExText",
                                     "DisplayingSysExBitmap"}
                  THEN SC55DisplayTime ELSE SystemMessageDisplayTime

(* A message, an image, a text or a bitmap that no turn interfered with    *)
(* stays for its time, "long text messages ... are now scrolled" to their  *)
(* ends (CHANGELOG.md:233), and what it shows was drawn.                   *)
ShownItsTime ==
  [][(Timeout \/ PowerSavingTimeout) /\ ~raced => age >= ItsTime /\ drawn]_UIVars

(* A text that is drawn begins within what was asked for, and the screen   *)
(* is full to its end; it is lit (DrawSystemState, Update).                *)
DrawnWithin ==
  pc = "draw" /\ ~raced /\ ~Calling =>
    /\ ui.m_State # "InPowerSavingMode" => m_bBacklightEnabled
    /\ Scrolls => \/ ui.m_nCurrentScrollOffset = 0
                  \/ ShownLength - ui.m_nCurrentScrollOffset >= Width

(* Whatever happens, what is shown makes way when no more is asked for,    *)
(* except for a spinner, and scrolling ends, which the deferred SoundFont  *)
(* switch waits for (MainTask, mt32pi.cpp:496); unless core 1 is parked.   *)
Rests == {"None", "DisplayingSpinnerMessage", "InPowerSavingMode"}
DisplaySettles ==
  <>[][~UICall]_pending =>
    <>[](pc = "parked" \/ (ui.m_State \in Rests /\ ~m_bIsScrolling))
=============================================================================
