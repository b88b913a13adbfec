---------------------------- MODULE MidiSession ----------------------------
(***************************************************************************)
(* What an AppleMIDI participant promises: one session at a time, entered  *)
(* and left by its own initiator or through silence, and heard by nobody   *)
(* else.  control and midi are the packets that arrived last.              *)
(***************************************************************************)
EXTENDS Integers

CONSTANTS Peers,              \* [ip, port, id] of those who send packets
          Nobody,
          InvitationTimeout, SyncTimeout

VARIABLES member,     \* whose session it is
          voice,      \* where its MIDI packets come from, once it is complete
          control, midi,
          silence,    \* time since member was last known to be there
          heard       \* MIDI commands are being handed on

Init == member = Nobody /\ voice = Nobody /\ heard = FALSE

SameEndpoint(p, q) == p.ip = q.ip /\ p.port = q.port

Arrive ==
  /\ control'.from \in Peers \cup {Nobody} /\ midi'.from \in Peers \cup {Nobody}
  /\ UNCHANGED <<member, voice, silence, heard>>

TimePasses == silence' > silence /\ UNCHANGED <<member, voice, control, midi, heard>>

Invite ==
  /\ member = Nobody /\ control.kind = "invitation"
  /\ member' = control.from /\ silence' = 0
  /\ UNCHANGED <<voice, control, midi, heard>>

Join ==
  /\ member # Nobody /\ voice = Nobody
  /\ midi.kind = "invitation" /\ midi.from.ip = member.ip
  /\ voice' = [ip |-> midi.from.ip, port |-> midi.from.port]
  /\ silence' = 0
  /\ UNCHANGED <<member, control, midi, heard>>

FromVoice == voice # Nobody /\ SameEndpoint(midi.from, voice)

Hear ==
  /\ FromVoice /\ midi.kind = "midi" /\ heard' = TRUE
  /\ UNCHANGED <<member, voice, control, midi, silence>>

HeardAll ==
  heard' = FALSE /\ UNCHANGED <<member, voice, control, midi, silence>>

Sync ==
  /\ FromVoice /\ midi.kind = "sync" /\ midi.from.id = member.id
  /\ silence' = 0
  /\ UNCHANGED <<member, voice, control, midi, heard>>

(* The initiator says so, or is silent for too long. *)
Leaving ==
  \/ voice # Nobody /\ control.kind = "endSession" /\ control.from = member
  \/ silence > (IF voice = Nobody THEN InvitationTimeout ELSE SyncTimeout)

(* An invitation to the second port that cannot be accepted. *)
Failing == voice = Nobody /\ midi.kind = "invitation" /\ midi.from.ip = member.ip

End ==
  /\ member # Nobody /\ (Leaving \/ Failing)
  /\ member' = Nobody /\ voice' = Nobody /\ heard' = FALSE
  /\ UNCHANGED <<control, midi>>

Next == \/ Arrive \/ TimePasses \/ Invite \/ Join \/ Hear \/ HeardAll
        \/ Sync \/ End

vars == <<member, voice, control, midi, silence, heard>>

Spec == Init /\ [][Next]_vars
=============================================================================
