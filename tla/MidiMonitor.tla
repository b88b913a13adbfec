---------------------------- MODULE MidiMonitor ----------------------------
(***************************************************************************)
(* CMIDIMonitor (src/midimonitor.cpp), which follows the notes for the     *)
(* level meters: core 0 tells it of messages, core 1 computes envelopes    *)
(* and ends them (UpdateLCD), without a lock.  Of a note's envelope there  *)
(* is the phase and its times, as ages in ticks; levels are left out, as   *)
(* are volume, expression and pan.  CSoundFontSynth's percussion mask is   *)
(* here too.  What a message writes about notes reaches core 1 field by    *)
(* field, in any order.  Notes has no element for note 127: what is        *)
(* written about that note goes into the state of the next channel, which  *)
(* is behind it.                                                           *)
(***************************************************************************)
EXTENDS Integers, FiniteSets, Functions

CONSTANTS Channels,          \* of the 16
          Parts,             \* channels whose pedal and mode change
          Notes,             \* MIDI notes, on each of them
          ReleaseTime,       \* ReleaseTimeMillis
          Sends,             \* what senders play and send besides
          MaxClockLag,       \* ticks between reading the clock and its use
          LowTicks             \* ticks that the two low bytes of a time count

ASSUME ChannelAssumption == Channels \subseteq 0..15 /\ Parts \subseteq Channels
ASSUME NoteAssumption == Notes \subseteq 0..127
Keys == Channels \X Notes
Kinds == {"damper", "mode", "controllers", "system", "GM", "rhythm"}
ASSUME SendsAssumption ==
  Sends \subseteq [played : SUBSET Keys, sent : SUBSET Kinds]
ASSUME MonitorTimeAssumption == {ReleaseTime, MaxClockLag, LowTicks} \subseteq Nat

VARIABLES
  EnvelopePhase, nNoteOnTime, nNoteOffTime, bDamperFlag,   \* of All notes
  nDamper,              \* the channels whose pedal is down
  m_nPercussionMask,
  sends,                \* what is played and sent in this behaviour
  unwritten,            \* what core 0 has yet to write about notes
  place, note, clockLag,    \* core 1: place, note, age of its clock
  key,                  \* history: the keys that are down
  excused,              \* history: notes that the monitor has lost track of
  overlaid,             \* history: notes with low bytes of note 127 in a time
  crossed               \* history: a message came while core 1 computed

flags == <<bDamperFlag, nDamper, m_nPercussionMask>>
envelopes == <<EnvelopePhase, nNoteOnTime, nNoteOffTime>>
meter == <<place, note, clockLag>>
MonitorVars == <<sends, envelopes, flags, unwritten, meter, key, excused,
                 overlaid, crossed>>

NoteCount == 127
All == {n \in Keys : n[2] < NoteCount}
On(ch) == {n \in Keys : n[1] = ch}
Percussive(n) == n[1] \in m_nPercussionMask
Over == ReleaseTime + MaxClockLag + 1
Nothing == << >>

(* Core 1 goes by whatever a phase is; ages below 0 are times to come. *)
Phases == {"Idle", "NoteOn", "NoteOff", "other"}
Ages == -LowTicks..Over

MonitorTypeOK ==
  /\ EnvelopePhase \in [All -> Phases]
  /\ nNoteOnTime \in [All -> 0..Over] /\ nNoteOffTime \in [All -> Ages]
  /\ bDamperFlag \subseteq All
  /\ nDamper \subseteq Channels /\ m_nPercussionMask \subseteq Channels
  /\ sends \in Sends
  /\ DOMAIN unwritten \subseteq All \X {"EnvelopePhase", "nNoteOnTime", "nNoteOffTime"}
  /\ place \in {"loop", "compute", "end"}
  /\ note \in All \cup {Nothing}
  /\ clockLag \in 0..MaxClockLag
  /\ key \subseteq Keys /\ excused \subseteq Keys /\ overlaid \subseteq All
  /\ crossed \in BOOLEAN

MonitorInit ==
  /\ EnvelopePhase = [n \in All |-> "Idle"]
  /\ nNoteOnTime = [n \in All |-> Over] /\ nNoteOffTime = [n \in All |-> Over]
  /\ bDamperFlag = {} /\ nDamper = {} /\ m_nPercussionMask = Channels \cap {9}
  /\ sends \in Sends /\ unwritten = << >>
  /\ place = "loop" /\ note = Nothing /\ clockLag = 0
  /\ key = {} /\ excused = {} /\ overlaid = {} /\ crossed = FALSE

Sending == DOMAIN unwritten # {}

----------------------------------------------------------------------------
(* Core 0: messages. *)

(* The phase of notes and one of their times, which is written as 0: no    *)
(* time passes in a call.                                                  *)
Stores(S, phase, time, age) ==
  [x \in S \X {"EnvelopePhase", time} |-> IF x[2] = time THEN age ELSE phase]

Send(writes) ==
  /\ ~Sending
  /\ unwritten' = writes
  /\ crossed' = (place # "loop")
  /\ UNCHANGED <<sends, envelopes, meter>>

(* Notes that go into their release. *)
Release(S) == /\ Send(Stores(S, "NoteOff", "nNoteOffTime", 0))
              /\ overlaid' = overlaid \ S

NoteOn ==
  /\ \E n \in sends.played \cap All :
       /\ Send(Stores({n}, "NoteOn", "nNoteOnTime", 0))
       /\ bDamperFlag' = IF n[1] \in nDamper THEN bDamperFlag \cup {n}
                                             ELSE bDamperFlag \ {n}
       /\ key' = key \cup {n}
       /\ excused' = IF Percussive(n) THEN excused \cup {n} ELSE excused \ {n}
  /\ UNCHANGED <<nDamper, m_nPercussionMask, overlaid>>

(* A note-off, or a note-on without velocity: not of a note under the pedal. *)
NoteOff ==
  /\ \E n \in sends.played \cap All :
       /\ Release({n} \ bDamperFlag)
       /\ key' = key \ {n}
  /\ UNCHANGED <<flags, excused>>

(* Note 127 of a channel has its phase where the next channel has its      *)
(* volume, expression, pan and pedal, and its other fields in that         *)
(* channel's note 0: the time of its note-on in the phase, the time of its *)
(* note-off in that of the note-on, velocity and flag in that of the       *)
(* note-off.                                                               *)
Behind(n) == {m \in All : m = <<n[1] + 1, 0>>}
FlaggedBehind(n) == {m \in bDamperFlag : m[1] = n[1] + 1}

PhaseBehind(n) == /\ nDamper' = nDamper \ {n[1] + 1}
                  /\ UNCHANGED <<bDamperFlag, m_nPercussionMask>>

NoteOnBehind ==
  \E n \in sends.played \ All, phase \in Phases, age \in Ages :
    /\ \A m \in Behind(n) : age - nNoteOffTime[m] \in -LowTicks..LowTicks
    /\ Send(Stores(Behind(n), phase, "nNoteOffTime", age))
    /\ PhaseBehind(n)
    /\ key' = key \cup {n}
    /\ excused' = excused \cup {n} \cup Behind(n) \cup FlaggedBehind(n)
    /\ overlaid' = overlaid \cup Behind(n)

(* The flag is a byte of a time: it may have any value. *)
NoteOffBehind ==
  /\ \E n \in sends.played \ All :
       /\ key' = key \ {n}
       /\ \/ Send(<< >>) /\ UNCHANGED <<flags, excused>>
          \/ /\ Send([x \in Behind(n) \X {"nNoteOnTime"} |-> 0])
             /\ PhaseBehind(n)
             /\ excused' = excused \cup FlaggedBehind(n)
  /\ UNCHANGED overlaid

DamperDown ==
  /\ "damper" \in sends.sent
  /\ \E ch \in Parts : nDamper' = nDamper \cup {ch}
  /\ Send(<< >>)
  /\ UNCHANGED <<bDamperFlag, m_nPercussionMask, key, excused, overlaid>>

Flagged_None(ch) == {}                           \* seeded fault

Flagged(ch) == bDamperFlag \cap On(ch)

(* Every flagged note is released, whether its key is down or not. *)
DamperUp ==
  /\ "damper" \in sends.sent
  /\ \E ch \in Parts :
       /\ nDamper' = nDamper \ {ch}
       /\ Release(Flagged(ch))
       /\ bDamperFlag' = bDamperFlag \ Flagged(ch)
       /\ excused' = excused \cup (Flagged(ch) \cap key)
  /\ UNCHANGED <<m_nPercussionMask, key>>

Sounding == {n \in All : EnvelopePhase[n] = "NoteOn"}

AllNotesOff == Release(Sounding) /\ bDamperFlag' = {}

(* A Channel Mode message of one channel, or AllSoundOff for all of them.  *)
(* The monitor turns off the notes of every channel.                       *)
ChannelMode ==
  /\ "mode" \in sends.sent
  /\ AllNotesOff
  /\ \E S \in {On(ch) : ch \in Channels} \cup {Keys} :
       /\ key' = key \ S
       /\ excused' = excused \cup (key \ S)
  /\ UNCHANGED <<nDamper, m_nPercussionMask>>

(* Reset All Controllers, of every channel: pedals are up, but the notes   *)
(* that were under them stay flagged.                                      *)
ResetControllers ==
  /\ "controllers" \in sends.sent
  /\ Send(<< >>)
  /\ nDamper' = {}
  /\ excused' = excused \cup bDamperFlag
  /\ UNCHANGED <<bDamperFlag, m_nPercussionMask, key, overlaid>>

(* GM Mode On/Off, GS Reset, XG System On. *)
ResetMIDIMonitor ==
  /\ "GM" \in sends.sent
  /\ AllNotesOff
  /\ nDamper' = {} /\ m_nPercussionMask' = Channels \cap {9}
  /\ key' = {}
  /\ UNCHANGED excused

(* System Reset does not come to its case: the status has lost its low     *)
(* nibble (OnShortMessage).                                                *)
SystemReset ==
  /\ "system" \in sends.sent
  /\ Send(<< >>)
  /\ key' = {} /\ excused' = excused \cup Sounding
  /\ UNCHANGED <<flags, overlaid>>

UseForRhythmPart ==
  /\ "rhythm" \in sends.sent
  /\ Send(<< >>)
  /\ \E ch \in Parts :
       /\ m_nPercussionMask' \in {m_nPercussionMask \cup {ch},
                                  m_nPercussionMask \ {ch}}
       /\ excused' = excused \cup (key \cap On(ch))
  /\ UNCHANGED <<bDamperFlag, nDamper, key, overlaid>>

Put(f, x, field, value) ==
  [n \in All |-> IF x = <<n, field>> THEN value ELSE f[n]]

MonitorWrite ==
  /\ \E x \in DOMAIN unwritten :
       /\ EnvelopePhase' = Put(EnvelopePhase, x, "EnvelopePhase", unwritten[x])
       /\ nNoteOnTime' = Put(nNoteOnTime, x, "nNoteOnTime", unwritten[x])
       /\ nNoteOffTime' = Put(nNoteOffTime, x, "nNoteOffTime", unwritten[x])
       /\ unwritten' = Restrict(unwritten, DOMAIN unwritten \ {x})
  /\ UNCHANGED <<sends, flags, meter, key, excused, overlaid, crossed>>

----------------------------------------------------------------------------
(* Core 1: the envelope of one note after another (GetChannelLevels).      *)

(* Only an envelope that may have ended needs the clock. *)
MayEnd(n) == IF Percussive(n) THEN EnvelopePhase[n] # "Idle"
                              ELSE EnvelopePhase[n] = "NoteOff"

ReadClock(n) ==
  /\ place = "loop" /\ MayEnd(n)
  /\ place' = "compute" /\ note' = n
  /\ crossed' = Sending
  /\ UNCHANGED <<sends, envelopes, flags, unwritten, clockLag, key, excused,
                 overlaid>>

NextNote == place' = "loop" /\ note' = Nothing /\ clockLag' = 0

Began_Released(n) == nNoteOffTime[n]             \* seeded fault

Began(n) == IF Percussive(n) THEN nNoteOnTime[n] ELSE nNoteOffTime[n]

(* The difference is unsigned: what began, or is to begin, after the clock *)
(* was read seems to have begun long ago.                                  *)
Duration(n) == IF Began(n) >= clockLag THEN Began(n) - clockLag ELSE Over

Compute ==
  /\ place = "compute"
  /\ IF Duration(note) > ReleaseTime
     THEN place' = "end" /\ UNCHANGED <<note, clockLag, crossed>>
     ELSE NextNote /\ crossed' = FALSE
  /\ UNCHANGED <<sends, envelopes, flags, unwritten, key, excused, overlaid>>

(* Whatever has become of the note meanwhile. *)
EndEnvelope ==
  /\ place = "end"
  /\ EnvelopePhase' = [EnvelopePhase EXCEPT ![note] = "Idle"]
  /\ excused' = IF crossed THEN excused \cup {note} ELSE excused
  /\ NextNote /\ crossed' = FALSE
  /\ UNCHANGED <<sends, nNoteOnTime, nNoteOffTime, flags, unwritten, key,
                 overlaid>>

Aged(age) == IF age < Over THEN age + 1 ELSE Over

MonitorTick ==
  /\ ~Sending
  /\ place # "loop" => clockLag < MaxClockLag
  /\ nNoteOnTime' = [n \in All |-> Aged(nNoteOnTime[n])]
  /\ nNoteOffTime' = [n \in All |-> Aged(nNoteOffTime[n])]
  /\ clockLag' = IF place = "loop" THEN 0 ELSE clockLag + 1
  /\ UNCHANGED <<sends, EnvelopePhase, flags, unwritten, place, note, key, excused,
                 overlaid, crossed>>

OnShortMessage == \/ NoteOn \/ NoteOff \/ NoteOnBehind \/ NoteOffBehind
                  \/ DamperDown \/ DamperUp \/ ChannelMode
                  \/ ResetControllers \/ SystemReset
SysEx == ResetMIDIMonitor \/ UseForRhythmPart
GetChannelLevels == (\E n \in All : ReadClock(n)) \/ Compute \/ EndEnvelope

MonitorNext == OnShortMessage \/ SysEx \/ MonitorWrite \/ GetChannelLevels \/ MonitorTick

----------------------------------------------------------------------------
(* The meters follow the keys: a held note shows as held; one whose key    *)
(* and pedal are up does not (OnShortMessage, ProcessCC).  Excused are     *)
(* notes for which the code does otherwise, among them note 127, which     *)
(* never shows, and those whose state it is written over.                  *)
FollowsKeys ==
  ~Sending =>
    \A n \in Keys \ excused :
      IF n \in key THEN n \in Sounding
      ELSE n[1] \notin nDamper => n \notin Sounding

(* An envelope that no message came across ends when it is over, not       *)
(* before: a drum's after its time, however short the key was pressed      *)
(* (ComputePercussionEnvelope); but not if note 127 of the channel before  *)
(* has changed the time that it began.                                     *)
EndsWhenOver ==
  [][EndEnvelope /\ ~crossed =>
       IF Percussive(note) THEN nNoteOnTime[note] > ReleaseTime
       ELSE note \in overlaid \/ nNoteOffTime[note] > ReleaseTime]_MonitorVars
=============================================================================
