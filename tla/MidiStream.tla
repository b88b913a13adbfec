----------------------------- MODULE MidiStream -----------------------------
(***************************************************************************)
(* What CMIDIParser promises: the messages of a MIDI byte stream, with     *)
(* running status, real-time bytes anywhere, and whatever is illegal       *)
(* dropped without harm to what follows.  Its state is the protocol's (the *)
(* status in effect and the data bytes since), not the parser's buffer.    *)
(***************************************************************************)
EXTENDS Integers, Sequences

CONSTANTS Byte,     \* the bytes that may arrive
          MaxSysEx  \* longest SysEx message, F0 and F7 included

VARIABLES status,   \* the status byte in effect, 0 if there is none
          args,     \* the data bytes received for it so far
          open,     \* a message has begun and is not complete
          calls     \* what the last byte made the parser report

vars == <<status, args, open, calls>>

Init == status = 0 /\ args = <<>> /\ open = FALSE /\ calls = <<>>

Short(bytes) == [kind |-> "short", bytes |-> bytes]
SysEx(bytes) == [kind |-> "sysex", bytes |-> bytes]
Unexpected == [kind |-> "unexpected", bytes |-> <<>>]
Overflow == [kind |-> "overflow", bytes |-> <<>>]

SystemCommon(s) == s \in 241..247
NoteOn(s) == s \in 144..159
DataBytes(s) == IF s \in 192..223 \/ s \in {241, 243} THEN 1 ELSE 2

(* F9 and FD are undefined. *)
RealTime(b) ==
  /\ b >= 248
  /\ calls' = IF b \in {249, 253} THEN <<>> ELSE <<Short(<<b>>)>>
  /\ UNCHANGED <<status, args, open>>

IgnoredData(b) ==
  /\ b < 128 /\ status = 0
  /\ calls' = <<>>
  /\ UNCHANGED <<status, args, open>>

ShortData(b, ignoreNoteOns) ==
  /\ b < 128 /\ status \notin {0, 240}
  /\ IF Len(args) + 1 < DataBytes(status)
     THEN /\ calls' = <<>>
          /\ args' = Append(args, b)
          /\ open' = TRUE
          /\ UNCHANGED status
     ELSE /\ calls' = IF NoteOn(status) /\ ignoreNoteOns THEN <<>>
                      ELSE <<Short(<<status>> \o Append(args, b))>>
          /\ status' = IF SystemCommon(status) THEN 0 ELSE status
          /\ args' = <<>>
          /\ open' = FALSE

SysExData(b) ==
  /\ b < 128 /\ status = 240 /\ Len(args) + 1 < MaxSysEx
  /\ args' = Append(args, b)
  /\ calls' = <<>>
  /\ UNCHANGED <<status, open>>

EndOfSysEx(b) ==
  /\ b = 247 /\ status = 240 /\ Len(args) + 1 < MaxSysEx
  /\ calls' = <<SysEx(<<240>> \o Append(args, 247))>>
  /\ status' = 0 /\ args' = <<>> /\ open' = FALSE

SysExTooLong(b) ==
  /\ b < 128 \/ b = 247
  /\ status = 240 /\ Len(args) + 1 = MaxSysEx
  /\ calls' = <<Overflow>>
  /\ status' = 0 /\ args' = <<>> /\ open' = FALSE

(* A status byte ends whatever was going on; F4, F5, F7 and the tune       *)
(* request F6 leave no status in effect.                                   *)
Status(b) ==
  /\ b \in 128..247
  /\ ~(b = 247 /\ status = 240)
  /\ calls' = (IF open THEN <<Unexpected>> ELSE <<>>)
                \o (IF b = 246 THEN <<Short(<<b>>)>> ELSE <<>>)
  /\ status' = IF b \in 244..247 THEN 0 ELSE b
  /\ open' = (b \notin 244..247)
  /\ args' = <<>>

Receive(b, ignoreNoteOns) ==
  \/ RealTime(b) \/ IgnoredData(b) \/ ShortData(b, ignoreNoteOns)
  \/ SysExData(b) \/ EndOfSysEx(b) \/ SysExTooLong(b) \/ Status(b)

Next == \E b \in Byte, ignoreNoteOns \in BOOLEAN : Receive(b, ignoreNoteOns)

Spec == Init /\ [][Next]_vars
=============================================================================
