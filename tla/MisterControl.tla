--------------------------- MODULE MisterControl ---------------------------
(***************************************************************************)
(* CMisterControl (src/control/mister.cpp) and the polls of UITask: MiSTer *)
(* keeps a status that the Pi reads and writes over I2C; MiSTer's user may *)
(* change it at any moment between.  Switches that it asks for are events  *)
(* to the main task.                                                       *)
(***************************************************************************)
EXTENDS Controls

Status(synth, romSet, soundFont) ==
  [Synth |-> synth, MT32ROMSet |-> romSet, SoundFontIndex |-> soundFont]

Unknown == Status("Unknown", 255, 255)

(* Three bytes, on the bus and in TMisterStatus. *)
Statuses == [Synth : {"MT32", "SoundFont", "Mute", "Unknown"},
             MT32ROMSet : 0..255, SoundFontIndex : 0..255]

ASSUME MisterAssumption ==
  \A s \in Setups :
    /\ s.failures \in Nat /\ s.saved \subseteq Statuses
    /\ s.mister => \A r \in Statuses, f \in DOMAIN Unknown : \A v \in s.menu[f] :
                     [r EXCEPT ![f] = v] \in Statuses

VARIABLES
  register,            \* the status that MiSTer keeps
  upc,                 \* where a poll is
  SystemStatus, MisterStatus,
  bMisterActive, m_LastSystemStatus, m_LastMisterStatus,
  failures

last == <<bMisterActive, m_LastSystemStatus, m_LastMisterStatus>>
mister == <<register, upc, SystemStatus, MisterStatus, last, failures>>

MisterInit ==
  /\ upc = "idle" /\ SystemStatus = Unknown /\ MisterStatus = Unknown
  /\ bMisterActive = FALSE
  /\ m_LastSystemStatus = Unknown /\ m_LastMisterStatus = Unknown
  /\ failures = 0

Poll(system) ==
  /\ setup.mister /\ upc = "idle" /\ upc' = "read"
  /\ SystemStatus' = system
  /\ UNCHANGED <<register, MisterStatus, last, failures, m_EventQueue>>

(* ResetState, after events have been queued. *)
ResetState(events) ==
  /\ m_EventQueue' =
       Enqueued(events \o (IF bMisterActive THEN <<Event("AllSoundOff", 0)>> ELSE <<>>))
  /\ bMisterActive' = FALSE
  /\ m_LastSystemStatus' = Unknown /\ m_LastMisterStatus' = Unknown

PollEnds == upc' = "idle" /\ SystemStatus' = Unknown /\ MisterStatus' = Unknown

Fails == failures < setup.failures /\ failures' = failures + 1

ReadFails ==
  /\ upc = "read" /\ Fails
  /\ ResetState(<<>>) /\ PollEnds
  /\ UNCHANGED register

Reads ==
  /\ upc = "read" /\ upc' = "act"
  /\ MisterStatus' = register
  /\ UNCHANGED <<register, SystemStatus, last, failures, m_EventQueue>>

Muted == MisterStatus.Synth = "Mute"

(* The result of writing is not looked at. *)
Mutes ==
  /\ upc = "act" /\ Muted /\ PollEnds
  /\ m_EventQueue' = Enqueued(<<Event("AllSoundOff", 0)>>)
  /\ \/ register' = SystemStatus /\ UNCHANGED failures
     \/ Fails /\ UNCHANGED register
  /\ UNCHANGED last

(* "The state has been changed by user controls/SysEx". *)
TellsMister ==
  /\ upc = "act" /\ ~Muted /\ bMisterActive
  /\ SystemStatus # m_LastSystemStatus
  /\ PollEnds
  /\ \/ /\ register' = SystemStatus /\ m_LastSystemStatus' = SystemStatus
        /\ UNCHANGED <<bMisterActive, m_LastMisterStatus, failures, m_EventQueue>>
     \/ Fails /\ ResetState(<<>>) /\ UNCHANGED register

(* Seeded fault: a change of the SoundFont alone is not applied. *)
Switches_NoSoundFont(new, current) ==
  (IF new.Synth = current.Synth THEN <<>>
     ELSE <<Event("SwitchSynth", IF new.Synth = "MT32" THEN 0 ELSE 1)>>)
  \o (IF new.MT32ROMSet = current.MT32ROMSet THEN <<>>
        ELSE <<Event("SwitchMT32ROMSet", new.MT32ROMSet)>>)

(* ApplyConfig: the events for what differs. *)
Switches(new, current) ==
  (IF new.Synth = current.Synth THEN <<>>
     ELSE <<Event("SwitchSynth", IF new.Synth = "MT32" THEN 0 ELSE 1)>>)
  \o (IF new.MT32ROMSet = current.MT32ROMSet THEN <<>>
        ELSE <<Event("SwitchMT32ROMSet", new.MT32ROMSet)>>)
  \o (IF new.SoundFontIndex = current.SoundFontIndex THEN <<>>
        ELSE <<Event("SwitchSoundFont", new.SoundFontIndex)>>)

(* "The state has been changed by MiSTer". *)
Applies ==
  /\ upc = "act" /\ ~Muted /\ bMisterActive
  /\ SystemStatus = m_LastSystemStatus /\ MisterStatus # m_LastMisterStatus
  /\ PollEnds
  /\ \/ /\ m_EventQueue' = Enqueued(Switches(MisterStatus, SystemStatus))
        /\ register' = MisterStatus /\ m_LastMisterStatus' = MisterStatus
        /\ UNCHANGED <<bMisterActive, m_LastSystemStatus, failures>>
     \/ /\ Fails /\ ResetState(Switches(MisterStatus, SystemStatus))
        /\ UNCHANGED register

NothingNew ==
  /\ upc = "act" /\ ~Muted /\ bMisterActive
  /\ SystemStatus = m_LastSystemStatus /\ MisterStatus = m_LastMisterStatus
  /\ PollEnds
  /\ UNCHANGED <<register, last, failures, m_EventQueue>>

(* "First valid reply from MiSTer"; events stay when writing it back fails.*)
FirstReply ==
  /\ upc = "act" /\ ~Muted /\ ~bMisterActive
  /\ PollEnds
  /\ LET events == Switches(MisterStatus, SystemStatus)
     IN  \/ /\ m_EventQueue' = Enqueued(events \o <<Event("DisplayImage", 0)>>)
            /\ register' = MisterStatus /\ m_LastMisterStatus' = MisterStatus
            /\ bMisterActive' = TRUE
            /\ UNCHANGED failures
         \/ Fails /\ m_EventQueue' = Enqueued(events)
            /\ UNCHANGED <<register, bMisterActive, m_LastMisterStatus>>
  /\ UNCHANGED m_LastSystemStatus

PollProceeds ==
  \/ ReadFails \/ Reads \/ Mutes \/ TellsMister \/ Applies \/ NothingNew \/ FirstReply
=============================================================================
