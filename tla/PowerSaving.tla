---------------------------- MODULE PowerSaving ----------------------------
(***************************************************************************)
(* How the three CPU cores of CMT32Pi enter and leave power saving:        *)
(* CPower (src/power.cpp), the hooks CMT32Pi overrides, the loops of       *)
(* MainTask, UITask and AudioTask with ParkCurrentCore and StopTasks       *)
(* (src/mt32pi.cpp), and the part of CUserInterface's state that decides   *)
(* when the UI core may park (src/lcd/ui.cpp).                             *)
(*                                                                         *)
(* A step is what one core does between two accesses to shared state.      *)
(* Cores share memory in the order of their steps: the code puts a         *)
(* DataMemBarrier beside every flag it hands over.                         *)
(***************************************************************************)
EXTENDS Integers, FiniteSets

VARIABLES
  lcd, mister,            \* m_pLCD, ControlMister: fixed when the cores start
  m_bRunning, m_bPowerSaveRequested, m_bUITaskDone,
  parked,                 \* m_bUITaskParked and m_bAudioTaskParked
  pc,                     \* where each core is
  event,                  \* each core's event register (SEV sets, WFE clears)
  power,                  \* CPower::m_State
  clock,                  \* the ARM clock: "low" or "max"
  idle,                   \* m_nPowerSaveTimeout has passed without Awaken
  ui,                     \* CUserInterface::m_State
  backlight,              \* CLCD::m_bBacklightEnabled
  sound                   \* the Circle sound device

config == <<lcd, mister>>
flags == <<m_bRunning, m_bPowerSaveRequested, m_bUITaskDone>>
display == <<ui, backlight>>
cpower == <<power, clock, idle>>
vars == <<config, flags, parked, pc, event, cpower, display, sound>>

Core == {"main", "ui", "audio"}
Parker == {"ui", "audio"}

MainPc == {"loop", "poll", "exitSound", "exitUI", "exitRequest", "update",
           "enterUI", "enterRequest", "enterCancel", "ready", "slow",
           "cancel", "join", "halted"}
ParkPc == {"park", "parkTest", "parkWait", "unpark"}
UIPc == {"start", "loop", "draw", "clear", "dim", "sleep", "light", "test",
         "finish", "off"} \cup ParkPc
AudioPc == {"loop", "test", "frames", "wait", "render", "write", "off"}
             \cup ParkPc

TypeOK ==
  /\ lcd \in BOOLEAN /\ mister \in BOOLEAN
  /\ m_bRunning \in BOOLEAN
  /\ m_bPowerSaveRequested \in BOOLEAN
  /\ m_bUITaskDone \in BOOLEAN
  /\ parked \in [Parker -> BOOLEAN]
  /\ pc \in [Core -> MainPc \cup UIPc \cup AudioPc]
  /\ pc["main"] \in MainPc /\ pc["ui"] \in UIPc /\ pc["audio"] \in AudioPc
  /\ event \in [Core -> BOOLEAN]
  /\ power \in {"Normal", "EnteringPowerSaving", "PowerSaving"}
  /\ clock \in {"low", "max"}
  /\ idle \in BOOLEAN
  /\ ui \in {"None", "Message", "EnteringPowerSavingMode", "InPowerSavingMode"}
  /\ backlight \in BOOLEAN
  /\ sound \in {"running", "cancelled", "idle"}

(* Initialize has started the sound device and then the other cores. *)
Init ==
  /\ lcd \in BOOLEAN /\ mister \in BOOLEAN
  /\ m_bRunning = TRUE
  /\ m_bPowerSaveRequested = FALSE
  /\ m_bUITaskDone = FALSE
  /\ parked = [c \in Parker |-> FALSE]
  /\ pc = [main |-> "loop", ui |-> "start", audio |-> "loop"]
  /\ event = [c \in Core |-> FALSE]
  /\ power = "Normal" /\ clock = "max" /\ idle = FALSE
  /\ ui = "None" /\ backlight = TRUE
  /\ sound = "running"

Goto(c, from, to) == pc[c] = from /\ pc' = [pc EXCEPT ![c] = to]

SendEvent == event' = [c \in Core |-> TRUE]

(* WaitForEvent returns once the core's event register is set. *)
WaitForEvent(c) == event[c] /\ event' = [event EXCEPT ![c] = FALSE]

InPark(c) == pc[c] \in ParkPc

----------------------------------------------------------------------------
(* Seeded faults.                                                          *)

IsReady_ForgetsAudio ==
  (mister \/ m_bUITaskDone \/ parked["ui"]) /\ sound = "idle"
ExitRequest_NoSendEvent ==
  /\ Goto("main", "exitRequest", "update")
  /\ m_bPowerSaveRequested' = FALSE
  /\ UNCHANGED <<config, m_bRunning, m_bUITaskDone, parked, event, cpower,
                 display, sound>>
UITest_IgnoresDisplay ==
  /\ pc["ui"] = "test"
  /\ pc' = [pc EXCEPT !["ui"] = IF ~mister /\ m_bPowerSaveRequested
                                THEN "park" ELSE "loop"]
  /\ UNCHANGED <<config, flags, parked, event, cpower, display, sound>>
ParkTest_IgnoresStop(c) ==
  /\ pc[c] = "parkTest"
  /\ pc' = [pc EXCEPT ![c] = IF m_bPowerSaveRequested
                             THEN "parkWait" ELSE "unpark"]
  /\ UNCHANGED <<config, flags, parked, event, cpower, display, sound>>
ParkTest_FinishesTask(c) ==
  /\ pc[c] = "parkTest"
  /\ pc' = [pc EXCEPT ![c] = IF ~m_bRunning THEN "finish"
                             ELSE IF m_bPowerSaveRequested
                             THEN "parkWait" ELSE "unpark"]
  /\ UNCHANGED <<config, flags, parked, event, cpower, display, sound>>
EnterCancel_Omitted ==
  /\ Goto("main", "enterCancel", "ready")
  /\ UNCHANGED <<config, flags, parked, event, cpower, display, sound>>
Unpark_FlagLeftSet(c) ==
  /\ Goto(c, "unpark", "loop")
  /\ UNCHANGED <<config, flags, parked, event, cpower, display, sound>>

----------------------------------------------------------------------------
(* ParkCurrentCore, run by the UI and the audio core. *)

Park(c) ==
  /\ Goto(c, "park", "parkTest")
  /\ parked' = [parked EXCEPT ![c] = TRUE]
  /\ SendEvent
  /\ UNCHANGED <<config, flags, cpower, display, sound>>

ParkTest(c) ==
  /\ pc[c] = "parkTest"
  /\ pc' = [pc EXCEPT ![c] = IF m_bPowerSaveRequested /\ m_bRunning
                             THEN "parkWait" ELSE "unpark"]
  /\ UNCHANGED <<config, flags, parked, event, cpower, display, sound>>

ParkWait(c) ==
  /\ Goto(c, "parkWait", "parkTest")
  /\ WaitForEvent(c)
  /\ UNCHANGED <<config, flags, parked, cpower, display, sound>>

Unpark(c) ==
  /\ Goto(c, "unpark", "loop")
  /\ parked' = [parked EXCEPT ![c] = FALSE]
  /\ UNCHANGED <<config, flags, event, cpower, display, sound>>

ParkStep(c) == Park(c) \/ ParkTest(c) \/ ParkWait(c) \/ Unpark(c)

----------------------------------------------------------------------------
(* Core 0: MainTask. *)

MainLoop ==
  /\ pc["main"] = "loop"
  /\ pc' = [pc EXCEPT !["main"] = IF m_bRunning THEN "poll" ELSE "cancel"]
  /\ UNCHANGED <<config, flags, parked, event, cpower, display, sound>>

(* Nothing to do this turn. *)
PollNothing ==
  /\ Goto("main", "poll", "update")
  /\ UNCHANGED <<config, flags, parked, event, cpower, display, sound>>

(* MIDI, a control or MiSTer event, a USB change, a deferred SoundFont     *)
(* switch or a sounding synth: Awaken, up to OnExitPowerSavingMode.        *)
Awaken ==
  /\ pc["main"] = "poll"
  /\ idle' = FALSE
  /\ power' = "Normal"
  /\ clock' = IF power = "PowerSaving" THEN "max" ELSE clock
  /\ pc' = [pc EXCEPT !["main"] = IF power = "Normal" THEN "update"
                                                      ELSE "exitSound"]
  /\ UNCHANGED <<config, flags, parked, event, display, sound>>

(* The reboot SysEx: StopTasks, no Awaken of its own, and the rest of the  *)
(* turn, in which other messages may still Awaken.                         *)
StopTasks ==
  /\ pc["main"] = "poll" /\ m_bRunning
  /\ m_bRunning' = FALSE
  /\ SendEvent
  /\ UNCHANGED <<config, m_bPowerSaveRequested, m_bUITaskDone, parked, pc,
                 cpower, display, sound>>

(* OnExitPowerSavingMode.  Start on a device whose Cancel has not taken    *)
(* effect yet may or may not bring it back: the result is not looked at.   *)
ExitSound ==
  /\ Goto("main", "exitSound", "exitUI")
  /\ sound' \in IF sound = "cancelled" THEN {"cancelled", "running"}
                                       ELSE {"running"}
  /\ UNCHANGED <<config, flags, parked, event, cpower, display>>

ExitUI ==
  /\ Goto("main", "exitUI", "exitRequest")
  /\ ui' = "None"
  /\ UNCHANGED <<config, flags, parked, event, cpower, backlight, sound>>

ExitRequest ==
  /\ Goto("main", "exitRequest", "update")
  /\ m_bPowerSaveRequested' = FALSE
  /\ SendEvent
  /\ UNCHANGED <<config, m_bRunning, m_bUITaskDone, parked, cpower, display,
                 sound>>

(* CPower::Update, and OnEnterPowerSavingMode. *)
PowerUpdate ==
  /\ pc["main"] = "update"
  /\ IF power = "Normal" /\ idle
     THEN /\ power' = "EnteringPowerSaving"
          /\ pc' = [pc EXCEPT !["main"] = "enterUI"]
     ELSE /\ pc' = [pc EXCEPT !["main"] = "ready"]
          /\ UNCHANGED power
  /\ UNCHANGED <<config, flags, parked, event, clock, idle, display, sound>>

EnterUI ==
  /\ Goto("main", "enterUI", "enterRequest")
  /\ ui' = "EnteringPowerSavingMode"
  /\ UNCHANGED <<config, flags, parked, event, cpower, backlight, sound>>

EnterRequest ==
  /\ Goto("main", "enterRequest", "enterCancel")
  /\ m_bPowerSaveRequested' = TRUE
  /\ SendEvent
  /\ UNCHANGED <<config, m_bRunning, m_bUITaskDone, parked, cpower, display,
                 sound>>

(* Cancel takes effect later, when the device's last transfer is done. *)
CancelSound == sound' = IF sound = "running" THEN "cancelled" ELSE sound

EnterCancel ==
  /\ Goto("main", "enterCancel", "ready")
  /\ CancelSound
  /\ UNCHANGED <<config, flags, parked, event, cpower, display>>

IsReadyForPowerSavingMode ==
  /\ mister \/ m_bUITaskDone \/ parked["ui"]
  /\ parked["audio"]
  /\ sound = "idle"

PowerReady ==
  /\ pc["main"] = "ready"
  /\ pc' = [pc EXCEPT !["main"] =
       IF power = "EnteringPowerSaving" /\ IsReadyForPowerSavingMode
       THEN "slow" ELSE "loop"]
  /\ UNCHANGED <<config, flags, parked, event, cpower, display, sound>>

SetSpeedLow ==
  /\ Goto("main", "slow", "loop")
  /\ clock' = "low"
  /\ power' = "PowerSaving"
  /\ UNCHANGED <<config, flags, parked, event, idle, display, sound>>

(* After the loop: stop audio, wait for the UI task. *)
MainCancel ==
  /\ Goto("main", "cancel", "join")
  /\ CancelSound
  /\ UNCHANGED <<config, flags, parked, event, cpower, display>>

MainJoin ==
  /\ pc["main"] = "join"
  /\ IF m_bUITaskDone THEN /\ pc' = [pc EXCEPT !["main"] = "halted"]
                           /\ UNCHANGED event
                      ELSE WaitForEvent("main") /\ UNCHANGED pc
  /\ UNCHANGED <<config, flags, parked, cpower, display, sound>>

Main == \/ MainLoop \/ PollNothing \/ Awaken \/ StopTasks
        \/ ExitSound \/ ExitUI \/ ExitRequest
        \/ PowerUpdate \/ EnterUI \/ EnterRequest \/ EnterCancel
        \/ PowerReady \/ SetSpeedLow \/ MainCancel \/ MainJoin

----------------------------------------------------------------------------
(* Core 1: UITask and CUserInterface::Update. *)

UIStart ==
  /\ pc["ui"] = "start"
  /\ pc' = [pc EXCEPT !["ui"] = IF lcd \/ mister THEN "loop" ELSE "off"]
  /\ IF lcd \/ mister THEN UNCHANGED <<m_bUITaskDone, event>>
                      ELSE m_bUITaskDone' = TRUE /\ SendEvent
  /\ UNCHANGED <<config, m_bRunning, m_bPowerSaveRequested, parked, cpower,
                 display, sound>>

UILoop ==
  /\ pc["ui"] = "loop"
  /\ pc' = [pc EXCEPT !["ui"] = IF ~m_bRunning THEN "finish"
                                ELSE IF lcd THEN "draw" ELSE "test"]
  /\ UNCHANGED <<config, flags, parked, event, cpower, display, sound>>

(* Update finds a state that does not time out, or has not yet. *)
UINoTimeout ==
  /\ Goto("ui", "draw", "light")
  /\ UNCHANGED <<config, flags, parked, event, cpower, display, sound>>

(* Update finds that what m_State shows has been shown long enough. *)
UITimeout ==
  /\ pc["ui"] = "draw"
  /\ \/ ui = "Message" /\ pc' = [pc EXCEPT !["ui"] = "clear"]
     \/ /\ ui = "EnteringPowerSavingMode"
        /\ pc' = [pc EXCEPT !["ui"] = "dim"]
  /\ UNCHANGED <<config, flags, parked, event, cpower, display, sound>>

UIClear ==
  /\ Goto("ui", "clear", "light")
  /\ ui' = "None"
  /\ UNCHANGED <<config, flags, parked, event, cpower, backlight, sound>>

UIDim ==
  /\ Goto("ui", "dim", "sleep")
  /\ backlight' = FALSE
  /\ UNCHANGED <<config, flags, parked, event, cpower, ui, sound>>

UISleep ==
  /\ Goto("ui", "sleep", "light")
  /\ ui' = "InPowerSavingMode"
  /\ UNCHANGED <<config, flags, parked, event, cpower, backlight, sound>>

UILight ==
  /\ Goto("ui", "light", "test")
  /\ backlight' = (backlight \/ ui # "InPowerSavingMode")
  /\ UNCHANGED <<config, flags, parked, event, cpower, ui, sound>>

(* Park, or poll MiSTer and go round again. *)
UITest ==
  /\ pc["ui"] = "test"
  /\ pc' = [pc EXCEPT !["ui"] =
       IF /\ ~mister /\ m_bPowerSaveRequested
          /\ ~lcd \/ ui = "InPowerSavingMode"
       THEN "park" ELSE "loop"]
  /\ UNCHANGED <<config, flags, parked, event, cpower, display, sound>>

UIFinish ==
  /\ Goto("ui", "finish", "off")
  /\ m_bUITaskDone' = TRUE
  /\ SendEvent
  /\ UNCHANGED <<config, m_bRunning, m_bPowerSaveRequested, parked, cpower,
                 display, sound>>

UI == \/ UIStart \/ UILoop \/ UINoTimeout \/ UITimeout \/ UIClear \/ UIDim
      \/ UISleep \/ UILight \/ UITest \/ UIFinish \/ ParkStep("ui")

----------------------------------------------------------------------------
(* Core 2: AudioTask. *)

AudioLoop ==
  /\ pc["audio"] = "loop"
  /\ pc' = [pc EXCEPT !["audio"] = IF m_bRunning THEN "test" ELSE "off"]
  /\ UNCHANGED <<config, flags, parked, event, cpower, display, sound>>

AudioTest ==
  /\ pc["audio"] = "test"
  /\ pc' = [pc EXCEPT !["audio"] = IF m_bPowerSaveRequested THEN "park"
                                                            ELSE "frames"]
  /\ UNCHANGED <<config, flags, parked, event, cpower, display, sound>>

(* The device's queue is full, or has room for a chunk. *)
AudioFrames ==
  /\ Goto("audio", "frames", "wait") \/ Goto("audio", "frames", "render")
  /\ UNCHANGED <<config, flags, parked, event, cpower, display, sound>>

AudioWait ==
  /\ Goto("audio", "wait", "loop")
  /\ WaitForEvent("audio")
  /\ UNCHANGED <<config, flags, parked, cpower, display, sound>>

AudioRender ==
  /\ Goto("audio", "render", "write")
  /\ UNCHANGED <<config, flags, parked, event, cpower, display, sound>>

AudioWrite ==
  /\ Goto("audio", "write", "loop")
  /\ UNCHANGED <<config, flags, parked, event, cpower, display, sound>>

Audio == \/ AudioLoop \/ AudioTest \/ AudioFrames \/ AudioWait
         \/ AudioRender \/ AudioWrite \/ ParkStep("audio")

----------------------------------------------------------------------------
(* The rest of the system. *)

(* LCDLog, an image or a SysEx display message, from any handler of core 0 *)
(* (an interrupt included), with or without an Awaken of its own.          *)
ShowMessage ==
  /\ lcd /\ pc["main"] # "halted"
  /\ ui' = "Message"
  /\ UNCHANGED <<config, flags, parked, pc, event, cpower, backlight, sound>>

(* power_save_timeout is a second or more; leaving ParkCurrentCore after   *)
(* its event takes some instructions.  So the timeout does not pass while  *)
(* a core is still on its way out of the previous power saving.            *)
TimeoutElapses ==
  /\ ~idle /\ ~m_bPowerSaveRequested
  /\ \A c \in Parker : ~InPark(c)
  /\ idle' = TRUE
  /\ UNCHANGED <<config, flags, parked, pc, event, power, clock, display,
                 sound>>

(* The device plays a chunk and calls AudioNeedDataHandler. *)
SoundNeedsData ==
  /\ sound = "running"
  /\ SendEvent
  /\ UNCHANGED <<config, flags, parked, pc, cpower, display, sound>>

SoundStops ==
  /\ sound = "cancelled"
  /\ sound' = "idle"
  /\ UNCHANGED <<config, flags, parked, pc, event, cpower, display>>

(* WFE may also return for reasons of the processor's own. *)
SpuriousEvent(c) ==
  /\ ~event[c]
  /\ event' = [event EXCEPT ![c] = TRUE]
  /\ UNCHANGED <<config, flags, parked, pc, cpower, display, sound>>

Environment == \/ ShowMessage \/ TimeoutElapses \/ SoundNeedsData
               \/ SoundStops \/ \E c \in Core : SpuriousEvent(c)

Next == Main \/ UI \/ Audio \/ Environment

(* Every core executes its program without end, a cancelled transfer ends, *)
(* and time passes: what Update finds unexpired it does not find unexpired *)
(* for ever.  Activity, messages and shutdown are never owed.              *)
Fairness ==
  /\ WF_vars(Main) /\ WF_vars(UI) /\ WF_vars(Audio)
  /\ WF_vars(SoundStops)
  /\ SF_vars(UITimeout)

Spec == Init /\ [][Next]_vars
FairSpec == Spec /\ Fairness

----------------------------------------------------------------------------
Rendering == {"frames", "render", "write"}
Drawing == {"draw", "clear", "dim", "sleep", "light"}

(* "Stops the audio device cleanly before changing the CPU clock, parks    *)
(* the audio core and an idle display core" (README, CPU power             *)
(* management): while the clock is low nothing is rendered or written, the *)
(* UI core draws nothing unless MiSTer keeps it polling, and the device is *)
(* stopped, whatever the order in which the cores noticed the request.     *)
LowClockQuiesced ==
  clock = "low" => /\ pc["audio"] \notin Rendering
                   /\ mister \/ pc["ui"] \notin Drawing
                   /\ sound = "idle"

(* "Keep updating long enough to show the power-saving message and turn    *)
(* off the backlight, then stop this core" (UITask): a UI core that parks  *)
(* leaves its display dark, though messages may replace what it shows.     *)
ParkedDisplayDark == lcd /\ InPark("ui") => ~backlight

(* No wake-up is lost: a core parked when the request is withdrawn leaves  *)
(* ParkCurrentCore, wherever its test and its WaitForEvent fell between    *)
(* the assignment and the SendEvent of OnExitPowerSavingMode.              *)
NoLostWakeup ==
  \A c \in Parker :
    (~m_bPowerSaveRequested /\ parked[c]) ~>
      (~parked[c] \/ m_bPowerSaveRequested)

(* Where the cores stand relative to the request and to CPower's state:    *)
(* what MainTask, the parked flags and the device promise each other at    *)
(* every step of a transition (mt32pi.cpp:642-713, power.cpp:46-90).       *)
Entering == {"enterUI", "enterRequest"}
Exiting == {"exitSound", "exitUI", "exitRequest"}

FlagsAgree ==
  /\ \A c \in Parker : parked[c] <=> pc[c] \in {"parkTest", "parkWait", "unpark"}
  /\ m_bUITaskDone <=> pc["ui"] = "off"

RequestFollowsPower ==
  /\ pc["main"] \in Entering => power = "EnteringPowerSaving" /\ ~m_bPowerSaveRequested
  /\ pc["main"] \in Exiting => power = "Normal" /\ m_bPowerSaveRequested /\ ~idle
  /\ pc["main"] \notin Entering \cup Exiting =>
       (m_bPowerSaveRequested <=> power # "Normal")

(* A core that leaves ParkCurrentCore while the request stands is stopping. *)
ParkedStays ==
  /\ \A c \in Parker :
       /\ m_bPowerSaveRequested /\ pc[c] = "unpark" => ~m_bRunning
       /\ idle /\ ~m_bPowerSaveRequested => ~InPark(c)
  /\ pc["main"] \in Entering => \A c \in Parker : ~InPark(c)

(* What IsReadyForPowerSavingMode saw still holds when the clock is set,   *)
(* and until OnExitPowerSavingMode: a parked core leaves only to stop.     *)
Stopping(states) == IF m_bRunning THEN {} ELSE states
Quiesced ==
  /\ sound = "idle"
  /\ pc["audio"] \in {"parkTest", "parkWait"} \cup Stopping({"unpark", "loop", "off"})
  /\ \/ mister
     \/ pc["ui"] \in {"parkTest", "parkWait", "off"}
                       \cup Stopping({"unpark", "loop", "finish"})

ReadinessHolds ==
  /\ pc["main"] = "slow" => power = "EnteringPowerSaving" /\ Quiesced
  /\ power = "PowerSaving" => Quiesced
  /\ clock = "low" => power = "PowerSaving"

(* What the UI core is about to light, or has put to sleep, is dark. *)
SleepingDark == ui = "InPowerSavingMode" \/ pc["ui"] = "sleep" => ~backlight

(* The inductive invariant of the protocol: a core's place and the flags   *)
(* other cores read agree, the request follows CPower's state, a parked    *)
(* core stays while it stands, what MainTask saw still holds when it acts. *)
PowerInv == /\ FlagsAgree
            /\ RequestFollowsPower
            /\ ParkedStays
            /\ ReadinessHolds
            /\ ParkedDisplayDark
            /\ SleepingDark

(* The transition completes: unless activity ends it, a shutdown does or a *)
(* message takes the display's state, the clock is lowered in the end.     *)
EnteringSettles ==
  power = "EnteringPowerSaving" ~>
    \/ power # "EnteringPowerSaving"
    \/ ui \notin {"EnteringPowerSavingMode", "InPowerSavingMode"}
    \/ ~m_bRunning

(* StopTasks reaches every core, parked ones and waiting ones included,    *)
(* and MainTask's wait for m_bUITaskDone ends.                             *)
ShutdownCompletes ==
  ~m_bRunning ~>
    pc = [main |-> "halted", ui |-> "off", audio |-> "off"]

(* mt32-pi.cfg: "After the specified number of seconds of silence, the     *)
(* audio and idle UI CPU cores will be parked, the CPU clock speed will be *)
(* reduced": with no activity to end it, the transition completes.         *)
SilenceLowersClock ==
  power = "EnteringPowerSaving" ~>
    (power # "EnteringPowerSaving" \/ ~m_bRunning)

(* mt32-pi.cfg: "Any MIDI activity will instantly bring the system out of  *)
(* power saving mode": the display does not stay in it afterwards.         *)
DisplayWakes ==
  (power = "Normal" /\ ui = "InPowerSavingMode") ~>
    (power # "Normal" \/ ui # "InPowerSavingMode" \/ ~m_bRunning)
=============================================================================
