----------------------------- MODULE Selection -----------------------------
(***************************************************************************)
(* Which synthesizer, ROM set and SoundFont there is to hear: the main     *)
(* task of CMT32Pi (src/mt32pi.cpp) with its events, CMT32Synth and        *)
(* CSoundFontSynth as far as they switch, the SoundFont list, and the      *)
(* places choices come from: buttons and encoder, MiSTer, SysEx, and a USB *)
(* disk that comes and goes.  Not kept: messages on the display, and the   *)
(* MIDI that is purged after a switch (see MidiInput).                     *)
(***************************************************************************)
EXTENDS MisterControl

CONSTANT FontOrder    \* all SoundFonts, in the order of their paths

Roms == INSTANCE RomManager

(* The parameter of a SysEx message has seven bits. *)
ASSUME SelectionAssumption ==
  /\ FontOrder \in Seq(Range(FontOrder))
  /\ \A s \in Setups :
       /\ s.choices \in Nat /\ s.plugs \in Nat /\ s.font \in Nat
       /\ \A e \in s.sysex : e.n \in 0..127

Nothing == "nothing"
NoChoice == Status("None", 255, 255)

VARIABLES
  roms, mt32, m_CurrentROMSet, opened,     \* mt32: m_pMT32Synth is there
  fonts, fluid, m_nCurrentSoundFontIndex, loaded,
  m_pCurrentSynth,
  m_bDeferredSoundFontSwitchFlag, m_nDeferredSoundFontSwitchIndex, due,
  m_nMasterVolume,
  buffer,             \* the events that are being processed
  usb,
  choices, plugs,
  choice,             \* history: the last one, unless it was not made in calm
  refused,            \* history: what MiSTer asked for was not to be had
  unseen,             \* history: a choice looks to the polls like none
  rescanned           \* history: the list has changed under the index

deferral == <<m_bDeferredSoundFontSwitchFlag, m_nDeferredSoundFontSwitchIndex, due>>
romState == <<mt32, m_CurrentROMSet, opened>>
fontState == <<fluid, m_nCurrentSoundFontIndex, loaded, rescanned>>
selected == <<m_pCurrentSynth, romState, fontState>>
stored == <<roms, fonts, usb, plugs>>
main == <<selected, stored, deferral, m_nMasterVolume, buffer, choices, choice, refused, unseen>>
vars == <<setup, m_EventQueue, mpc, controls, mister, main>>

System == Status(m_pCurrentSynth,
                 IF mt32 THEN m_CurrentROMSet ELSE 255,
                 IF fluid THEN m_nCurrentSoundFontIndex % 256 ELSE 255)

(* Those that there are, in that order. *)
SoundFonts(there) ==
  FlattenSeq([i \in DOMAIN FontOrder |->
                IF FontOrder[i] \in there THEN <<FontOrder[i]>> ELSE <<>>])

(* The preferred ROM set, or any. *)
OpenedROMs(there) ==
  Roms!GetROMSet(there, IF Roms!HaveROMSet(there, setup.romSet) THEN setup.romSet
                        ELSE Roms!Any)

(* There is no MT-32 synth without a set, or with one that mt32emu cannot  *)
(* open.                                                                   *)
InitMT32Synth(there) ==
  {IF opens THEN OpenedROMs(there) ELSE Roms!NoImages : opens \in setup.opens}

PreferredFont(list) == IF setup.font < Len(list) THEN setup.font ELSE 0

(* There is no SoundFont synth without a SoundFont that can be loaded.     *)
InitSoundFontSynth(list, loads) ==
  IF PreferredFont(list) < Len(list) /\ loads
  THEN [there |-> TRUE, index |-> PreferredFont(list), font |-> list[PreferredFont(list) + 1]]
  ELSE [there |-> FALSE, index |-> 0, font |-> Nothing]

TypeOK ==
  /\ ControlsOK
  /\ \A e \in Range(m_EventQueue \o buffer) : e.Type \in EventTypes
  /\ Len(m_EventQueue) < QueueSize
  /\ upc \in {"idle", "read", "act"}
  /\ mpc \in {"midi", "controls", "buttons", "changed", "repeat", "encoder", "moved",
              "events", "event", "later", "usb"}
  /\ roms \subseteq Roms!Kinds /\ m_CurrentROMSet \in Roms!ROMSets \cup {Roms!Any}
  /\ m_pCurrentSynth \in {"MT32", "SoundFont"}
  /\ IF m_pCurrentSynth = "MT32" THEN mt32 ELSE fluid
  /\ m_nCurrentSoundFontIndex \in Nat /\ loaded \in Range(FontOrder) \cup {Nothing}
  /\ m_nMasterVolume \in 0..100
  /\ due => m_bDeferredSoundFontSwitchFlag
  /\ failures <= setup.failures /\ choices <= setup.choices /\ plugs <= setup.plugs

Begin == IF setup.sysex # {} THEN "midi"
         ELSE IF Buttons # <<>> \/ setup.type # NoEncoder THEN "controls" ELSE "events"

Init ==
  /\ setup \in Setups
  /\ m_EventQueue = <<>> /\ buffer = <<>> /\ mpc = Begin
  /\ ControlsInit /\ MisterInit
  /\ roms = Roms!ScanROMs({}, setup.files) /\ fonts = SoundFonts(setup.files)
  /\ opened \in InitMT32Synth(roms) /\ mt32 = opened.ok /\ m_CurrentROMSet = opened.set
  /\ \E loads \in setup.opens :
       LET s == InitSoundFontSynth(fonts, loads)
       IN  fluid = s.there /\ m_nCurrentSoundFontIndex = s.index /\ loaded = s.font
  /\ rescanned = FALSE
  /\ mt32 \/ fluid       \* or the firmware stops here
  /\ m_pCurrentSynth = IF (setup.synth = "MT32" /\ mt32) \/ ~fluid
                       THEN "MT32" ELSE "SoundFont"
  /\ m_bDeferredSoundFontSwitchFlag = FALSE /\ m_nDeferredSoundFontSwitchIndex = 0
  /\ due = FALSE
  /\ m_nMasterVolume = 100
  /\ usb = FALSE /\ choices = 0 /\ plugs = 0
  /\ choice = NoChoice /\ refused = FALSE /\ unseen = FALSE
  /\ register \in setup.saved

----------------------------------------------------------------------------
(* Choices.  One is made in calm when nothing else is on its way.          *)

Selects(e) == e.Type \notin {"AllSoundOff", "DisplayImage", "Encoder"}

InStep ==
  /\ bMisterActive
  /\ System = register /\ System = m_LastSystemStatus /\ System = m_LastMisterStatus
  /\ upc # "idle" => SystemStatus = System
  /\ upc = "act" => MisterStatus = System

CalmBut(events) ==
  /\ \A e \in Range(m_EventQueue \o events) : ~Selects(e)
  /\ ~m_bDeferredSoundFontSwitchFlag
  /\ setup.mister => InStep

(* Of what is selected, or of what is to be after a deferred switch.  The  *)
(* polls see a status that differs from the one they saw last.             *)
Chooses(new, events) ==
  /\ choice' = IF CalmBut(events) THEN new ELSE NoChoice
  /\ unseen' = (unseen \/ (new = m_LastSystemStatus /\ register # new))

Unchosen == UNCHANGED <<choice, unseen>>

(* MiSTer's user changes one of three settings, or resets a core. *)
OSD ==
  /\ setup.mister /\ choices < setup.choices /\ choices' = choices + 1
  /\ \E f \in DOMAIN register : \E v \in setup.menu[f] : register' = [register EXCEPT ![f] = v]
  /\ register' # register
  /\ choice' = IF CalmBut(buffer) THEN register' ELSE NoChoice
  /\ unseen' = (register' = m_LastMisterStatus) /\ refused' = FALSE
  /\ UNCHANGED <<setup, m_EventQueue, mpc, controls, upc, SystemStatus, MisterStatus, last,
                 failures, selected, stored, deferral, m_nMasterVolume, buffer>>

ResetHangingNotes ==
  /\ setup.mister /\ choices < setup.choices /\ choices' = choices + 1
  /\ register.Synth # "Mute" /\ register' = [register EXCEPT !.Synth = "Mute"]
  /\ choice' = NoChoice /\ unseen' = FALSE /\ refused' = FALSE
  /\ UNCHANGED <<setup, m_EventQueue, mpc, controls, upc, SystemStatus, MisterStatus, last,
                 failures, selected, stored, deferral, m_nMasterVolume, buffer>>

----------------------------------------------------------------------------
(* Switching. *)

(* Neither synth is left without the other being there. *)
SwitchSynth(n) ==
  /\ m_pCurrentSynth' = IF n = 0 /\ mt32 THEN "MT32"
                        ELSE IF n = 1 /\ fluid THEN "SoundFont" ELSE m_pCurrentSynth
  /\ refused' = (refused \/ ~((n = 0 /\ mt32) \/ (n = 1 /\ fluid)))
  /\ UNCHANGED <<romState, fontState, deferral>>

SwitchROMSet(n) ==
  IF n # m_CurrentROMSet /\ Roms!GetROMSet(roms, n).ok
  THEN opened' = Roms!GetROMSet(roms, n) /\ m_CurrentROMSet' = opened'.set /\ UNCHANGED refused
  ELSE refused' = (refused \/ n # m_CurrentROMSet) /\ UNCHANGED <<m_CurrentROMSet, opened>>

SwitchMT32ROMSet(n) ==
  /\ IF mt32 THEN SwitchROMSet(n) ELSE refused' = TRUE /\ UNCHANGED <<m_CurrentROMSet, opened>>
  /\ UNCHANGED <<mt32, m_pCurrentSynth, fontState, deferral>>

Unswitched == UNCHANGED <<selected, deferral, refused>>

(* The next that is available. *)
NextROMSet ==
  LET Next(i) == (m_CurrentROMSet + i) % 3
      Available == {i \in {1, 2} : Roms!HaveROMSet(roms, Next(i))}
  IN  IF Available = {} THEN m_CurrentROMSet ELSE Next(Min(Available))

NextMT32ROMSet == IF mt32 /\ NextROMSet # m_CurrentROMSet THEN SwitchMT32ROMSet(NextROMSet)
                  ELSE Unswitched

(* The old synth is gone before the SoundFont is loaded, which may fail.   *)
Reinitialize(font) == loaded' \in {font, Nothing}

(* Seeded fault: the index changes before the SoundFont is looked for. *)
LoadSoundFont_IndexFirst(n) ==
  /\ m_nCurrentSoundFontIndex' = n
  /\ IF n < Len(fonts)
     THEN loaded' = fonts[n + 1] /\ rescanned' = FALSE /\ UNCHANGED refused
     ELSE refused' = TRUE /\ UNCHANGED <<loaded, rescanned>>

(* CSoundFontSynth::SwitchSoundFont: when loading fails the old index stays. *)
LoadSoundFont(n) ==
  IF n # m_nCurrentSoundFontIndex /\ n < Len(fonts)
  THEN /\ Reinitialize(fonts[n + 1])
       /\ IF loaded' = Nothing
          THEN refused' = TRUE /\ UNCHANGED <<m_nCurrentSoundFontIndex, rescanned>>
          ELSE m_nCurrentSoundFontIndex' = n /\ rescanned' = FALSE /\ UNCHANGED refused
  ELSE /\ refused' = (refused \/ n # m_nCurrentSoundFontIndex)
       /\ UNCHANGED <<m_nCurrentSoundFontIndex, loaded, rescanned>>

SwitchSoundFont(n) ==
  /\ IF fluid THEN LoadSoundFont(n)
     ELSE refused' = TRUE /\ UNCHANGED <<m_nCurrentSoundFontIndex, loaded, rescanned>>
  /\ UNCHANGED <<fluid, m_pCurrentSynth, romState>>

(* Another choice while one waits takes its place. *)
DeferSwitchSoundFont(n) ==
  /\ IF fluid THEN /\ m_nDeferredSoundFontSwitchIndex' = n
                   /\ m_bDeferredSoundFontSwitchFlag' = TRUE /\ due' = FALSE
                   /\ UNCHANGED refused
     ELSE refused' = TRUE /\ UNCHANGED deferral
  /\ UNCHANGED selected

NextSoundFont ==
  LET n == Len(fonts)
      from == IF m_bDeferredSoundFontSwitchFlag THEN m_nDeferredSoundFontSwitchIndex
              ELSE m_nCurrentSoundFontIndex
  IN  IF ~m_bDeferredSoundFontSwitchFlag /\ from > n THEN 0 ELSE (from + 1) % n

----------------------------------------------------------------------------
(* The main task.  Its steps that have nothing to do are left out.         *)

(* Custom SysEx messages switch at once; there is no ROM set "Any". *)
SysEx ==
  /\ mpc = "midi" /\ choices < setup.choices /\ choices' = choices + 1
  /\ \E e \in setup.sysex :
       \/ e.Type = "SwitchSynth" /\ SwitchSynth(e.n)
       \/ e.Type = "SwitchMT32ROMSet" /\ e.n < Roms!Any /\ SwitchMT32ROMSet(e.n)
       \/ e.Type = "SwitchSoundFont" /\ SwitchSoundFont(e.n) /\ UNCHANGED deferral
  /\ Chooses(System', buffer)
  /\ UNCHANGED <<setup, m_EventQueue, mpc, controls, mister, stored, m_nMasterVolume, buffer>>

MIDIDone ==
  /\ mpc = "midi"
  /\ mpc' = IF Buttons # <<>> \/ setup.type # NoEncoder THEN "controls" ELSE "events"
  /\ UNCHANGED <<setup, m_EventQueue, controls, mister, main>>

UpdateControls == Update /\ UNCHANGED <<mister, main>>

ProcessEventQueue ==
  /\ mpc = "events" /\ mpc' = IF m_EventQueue = <<>> THEN "later" ELSE "event"
  /\ buffer' = m_EventQueue /\ m_EventQueue' = <<>>
  /\ UNCHANGED <<setup, controls, mister, selected, stored, deferral, m_nMasterVolume,
                 choices, choice, refused, unseen>>

(* Seeded fault: the volume is not kept within its range. *)
SetMasterVolume_Unclamped(n) == m_nMasterVolume' = n

SetMasterVolume(n) ==
  m_nMasterVolume' = IF n < 0 THEN 0 ELSE IF n > 100 THEN 100 ELSE n

Rest == Tail(buffer)

(* Buttons 1 and 2 switch, and do not repeat. *)
Switching(e) ==
  \/ e.n = Button1 /\ SwitchSynth(IF m_pCurrentSynth = "MT32" THEN 1 ELSE 0)
     /\ Chooses(System', Rest)
  \/ e.n = Button2 /\ m_pCurrentSynth = "MT32" /\ NextMT32ROMSet
     /\ Chooses(System', Rest)
  \/ /\ e.n = Button2 /\ m_pCurrentSynth # "MT32" /\ fonts # <<>>
     /\ DeferSwitchSoundFont(NextSoundFont)
     /\ Chooses([System EXCEPT !.SoundFontIndex = NextSoundFont], Rest)
  \/ e.n = Button2 /\ m_pCurrentSynth # "MT32" /\ fonts = <<>>
     /\ Unswitched /\ Unchosen

(* Buttons 3 and 4 turn the volume down and up, for as long as they are held. *)
ProcessButtonEvent(e) ==
  IF e.bPressed /\ ~e.bRepeat /\ e.n \in {Button1, Button2}
  THEN Switching(e) /\ UNCHANGED m_nMasterVolume
  ELSE /\ Unswitched /\ Unchosen
       /\ IF e.bPressed /\ e.n \in {Button3, Button4}
          THEN SetMasterVolume(m_nMasterVolume + (IF e.n = Button3 THEN -1 ELSE 1))
          ELSE UNCHANGED m_nMasterVolume

(* A switch in an event is MiSTer's choice, made before; or nobody's, when *)
(* it is a repeat.                                                         *)
ProcessSwitchEvent(e) ==
  /\ \/ e.Type = "SwitchSynth" /\ SwitchSynth(e.n)
     \/ e.Type = "SwitchMT32ROMSet" /\ SwitchMT32ROMSet(e.n)
     \/ e.Type = "SwitchSoundFont" /\ DeferSwitchSoundFont(e.n)
  /\ choice' = IF refused' \/ e.bRepeat THEN NoChoice ELSE choice
  /\ UNCHANGED <<m_nMasterVolume, unseen>>

ProcessOther(e) ==
  /\ e.Type \in {"AllSoundOff", "DisplayImage", "Encoder"}
  /\ IF e.Type = "Encoder" THEN SetMasterVolume(m_nMasterVolume + e.n)
                           ELSE UNCHANGED m_nMasterVolume
  /\ Unswitched /\ Unchosen

ProcessEvent ==
  /\ mpc = "event"
  /\ LET e == Head(buffer)
     IN  \/ e.Type = "Button" /\ ProcessButtonEvent(e)
         \/ ProcessSwitchEvent(e)
         \/ ProcessOther(e)
  /\ buffer' = Rest /\ mpc' = IF Rest = <<>> THEN "later" ELSE "event"
  /\ UNCHANGED <<setup, m_EventQueue, controls, mister, stored, choices>>

AfterSwitch == IF setup.usbFiles = {} THEN Begin ELSE "usb"

(* Seeded fault: a deferred switch does not wait for later choices. *)
DeferredSwitch_Keeps ==
  /\ mpc = "later" /\ mpc' = AfterSwitch
  /\ IF m_bDeferredSoundFontSwitchFlag /\ due
     THEN SwitchSoundFont(m_nDeferredSoundFontSwitchIndex)
     ELSE UNCHANGED <<selected, refused>>
  /\ UNCHANGED <<deferral, setup, m_EventQueue, controls, mister, stored, m_nMasterVolume,
                 buffer, choices, choice, unseen>>

(* The index stays in the code, and is set before it is next read. *)
DeferredSwitch ==
  /\ mpc = "later" /\ mpc' = AfterSwitch
  /\ IF m_bDeferredSoundFontSwitchFlag /\ due
     THEN /\ SwitchSoundFont(m_nDeferredSoundFontSwitchIndex)
          /\ m_bDeferredSoundFontSwitchFlag' = FALSE /\ due' = FALSE
          /\ m_nDeferredSoundFontSwitchIndex' = 0
     ELSE UNCHANGED <<selected, deferral, refused>>
  /\ choice' = IF refused' THEN NoChoice ELSE choice
  /\ UNCHANGED <<setup, m_EventQueue, controls, mister, stored, m_nMasterVolume, buffer,
                 choices, unseen>>

(* ControlSwitchTimeout has gone by, and no name is scrolling. *)
TimePasses ==
  /\ m_bDeferredSoundFontSwitchFlag /\ ~due /\ due' = TRUE
  /\ UNCHANGED <<setup, m_EventQueue, mpc, controls, mister, selected, stored,
                 m_bDeferredSoundFontSwitchFlag, m_nDeferredSoundFontSwitchIndex,
                 m_nMasterVolume, buffer, choices, choice, refused, unseen>>

NoUSB == mpc = "usb" /\ mpc' = Begin /\ UNCHANGED <<setup, m_EventQueue, controls, mister, main>>

Switch == <<m_pCurrentSynth, deferral, m_nMasterVolume, buffer, choices, refused, unseen>>

(* What was not there at the start is looked for again.  ROMs stay. *)
USBAttached ==
  /\ mpc = "usb" /\ mpc' = Begin /\ ~usb /\ usb' = TRUE
  /\ plugs < setup.plugs /\ plugs' = plugs + 1 /\ choice' = NoChoice
  /\ roms' = Roms!ScanROMs(roms, setup.usbFiles)
  /\ IF mt32 THEN UNCHANGED romState
     ELSE /\ opened' \in InitMT32Synth(roms') /\ mt32' = opened'.ok
          /\ m_CurrentROMSet' = opened'.set
  /\ fonts' = SoundFonts(setup.files \cup setup.usbFiles)
  /\ IF fluid THEN rescanned' = TRUE /\ UNCHANGED <<fluid, m_nCurrentSoundFontIndex, loaded>>
     ELSE /\ \E loads \in BOOLEAN :
               LET s == InitSoundFontSynth(fonts', loads)
               IN  fluid' = s.there /\ m_nCurrentSoundFontIndex' = s.index /\ loaded' = s.font
          /\ UNCHANGED rescanned
  /\ UNCHANGED <<setup, m_EventQueue, controls, mister, Switch>>

(* Mounting it fails: it counts as attached. *)
USBNotMounted ==
  /\ mpc = "usb" /\ mpc' = Begin /\ ~usb /\ usb' = TRUE
  /\ plugs < setup.plugs /\ plugs' = plugs + 1
  /\ UNCHANGED <<setup, m_EventQueue, controls, mister, Switch, choice, roms, fonts,
                 romState, fontState>>

USBRemoved ==
  /\ mpc = "usb" /\ mpc' = Begin /\ usb /\ usb' = FALSE
  /\ plugs < setup.plugs /\ plugs' = plugs + 1 /\ choice' = NoChoice
  /\ fonts' = IF fluid THEN SoundFonts(setup.files) ELSE fonts
  /\ rescanned' = TRUE
  /\ UNCHANGED <<setup, m_EventQueue, controls, mister, Switch, roms, romState, fluid,
                 m_nCurrentSoundFontIndex, loaded>>

MainTask ==
  \/ SysEx \/ MIDIDone \/ UpdateControls \/ ProcessEventQueue \/ ProcessEvent
  \/ DeferredSwitch \/ NoUSB \/ USBAttached \/ USBNotMounted \/ USBRemoved

(* A failure makes MiSTer's status count again, and a full queue forgets.  *)
UITask ==
  /\ Poll(System) \/ PollProceeds
  /\ choice' = IF failures' # failures THEN NoChoice ELSE choice
  /\ refused' = (refused \/ Len(m_EventQueue') = QueueSize - 1)
  /\ UNCHANGED <<setup, mpc, controls, selected, stored, deferral, m_nMasterVolume, buffer,
                 choices, unseen>>

Interrupt == InterruptHandler /\ UNCHANGED <<mister, main>>

User ==
  \/ /\ (\E b \in Fitted : Press(b) \/ Release(b)) \/ Turn
     /\ UNCHANGED <<mister, main>>
  \/ OSD \/ ResetHangingNotes

Next == MainTask \/ UITask \/ Interrupt \/ TimePasses \/ User

(* Both tasks and the interrupt run for ever; the user need not act. *)
Spec ==
  /\ Init /\ [][Next]_vars
  /\ WF_vars(MainTask) /\ WF_vars(UITask) /\ WF_vars(Interrupt) /\ WF_vars(TimePasses)

----------------------------------------------------------------------------
(* A press is reported at most once, at whichever step of Update the       *)
(* interrupt comes in (CControl::Update): one press is one switch.         *)
ReportedOnce == \A b \in Fitted : unreported[b] >= 0

(* Turned from one detent to the next without turning back, the encoder    *)
(* counts one movement in that direction, no more and no less, whatever    *)
(* jiggling came before and whatever it left in nPreviousTransitions.      *)
DetentsCounted ==
  setup.type # NoEncoder /\ sampled =>
    LET n == TransitionsPerDetent[setup.type]
    IN  (run = n => gained = 1) /\ (run = -n => gained = -1)

(* InitMT32Synth has fallen back on any set there is: GetROMSet takes the  *)
(* first control ROM, although it is the CM-32L's set that is complete.    *)
WithoutPCM ==
  /\ opened.pcm = Roms!NoROM
  /\ m_CurrentROMSet # Roms!CM32L /\ Roms!HaveROMSet(roms, Roms!CM32L)

ROMsSelected ==
  mt32 => /\ opened.control = Roms!Control[m_CurrentROMSet] /\ opened.control \in roms
          /\ \/ opened.pcm = Roms!PCM[m_CurrentROMSet] /\ opened.pcm \in roms
             \/ WithoutPCM

SoundFontSelected ==
  fluid /\ ~rescanned /\ loaded # Nothing =>
    /\ m_nCurrentSoundFontIndex < Len(fonts)
    /\ loaded = fonts[m_nCurrentSoundFontIndex + 1]

(* What is to hear is what counts as selected: both images of the current  *)
(* ROM set, or its control ROM alone when the code opens it without the    *)
(* other; and the SoundFont at the index, or none when loading it has      *)
(* failed, as long as the list is the one the index was taken from.        *)
AsSelected == ROMsSelected /\ SoundFontSelected

(* A choice made in calm, by button, SysEx or in MiSTer's menu, is what    *)
(* the Pi and MiSTer end up with, through all polls, echoes of a status    *)
(* written back, and the wait of a deferred switch; unless it is followed  *)
(* by another one, or by a repeat that reads as one, or cannot be had.     *)
Honoured ==
  <>[](choice # NoChoice => System = choice /\ (setup.mister => register = choice))

(* Whoever chooses, and however the choices cross, MiSTer and the Pi agree *)
(* in the end, after failures of the bus as well; unless MiSTer asked for  *)
(* something that is not there, its event found the queue full, or it was  *)
(* taken back before a poll, here or there, so that no poll saw a change.  *)
Converges == setup.mister => <>[](register = System \/ refused \/ unseen)

(* A button that has been released stops repeating; unless its state       *)
(* changed between two steps of one Update, which loses the release.       *)
RepeatsEnd == <>[](m_RepeatButton # None => m_RepeatButton \in held \/ torn)
=============================================================================
