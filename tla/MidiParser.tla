----------------------------- MODULE MidiParser -----------------------------
(***************************************************************************)
(* CMIDIParser (src/midiparser.cpp): the byte-at-a-time state machine that *)
(* turns what the serial, USB and network inputs deliver into the calls    *)
(* OnShortMessage, OnSysExMessage, OnUnexpectedStatus and OnSysExOverflow. *)
(* The parser's members are one record, each function of the class is an   *)
(* operator on it, and a step is one turn of ParseMIDIBytes' loop.         *)
(***************************************************************************)
EXTENDS Integers, Sequences

CONSTANTS Byte,           \* bytes that may arrive
          SysExBufferSize \* sizeof(m_MessageBuffer)

ASSUME ByteAssumption == Byte \subseteq 0..255
ASSUME BufferAssumption == SysExBufferSize \in Nat /\ SysExBufferSize >= 3

VARIABLE parser

Slots == 0..(SysExBufferSize - 1)
Calls == {"short", "sysex", "unexpected", "overflow"}

Parser == [m_State : {"StatusByte", "DataByte", "SysExByte"},
           m_MessageBuffer : [Slots -> 0..255],
           m_nMessageLength : 0..SysExBufferSize,
           calls : Seq([kind : Calls, bytes : Seq(0..255)])]

TypeOK == parser \in Parser

(* calls: the callbacks made for the last byte. *)
Init == parser = [m_State |-> "StatusByte",
                  m_MessageBuffer |-> [i \in Slots |-> 0],
                  m_nMessageLength |-> 0,
                  calls |-> <<>>]

IsStatus(b) == b >= 128

Call(p, kind, bytes) ==
  [p EXCEPT !.calls = Append(@, [kind |-> kind, bytes |-> bytes])]

(* m_MessageBuffer[m_nMessageLength++] = nByte *)
Store(p, b) == [p EXCEPT !.m_MessageBuffer[p.m_nMessageLength] = b,
                         !.m_nMessageLength = @ + 1]

Message(p) == [k \in 1..p.m_nMessageLength |-> p.m_MessageBuffer[k - 1]]

ClearStatus(p) == [p EXCEPT !.m_MessageBuffer[0] = 0]

----------------------------------------------------------------------------
(* Seeded faults. *)
ResetState_KeepsState(p, bClearStatusByte) ==
  LET q == IF bClearStatusByte THEN ClearStatus(p) ELSE p
  IN  [q EXCEPT !.m_nMessageLength = 0]
ResetState_KeepsRunningStatus(p, bClearStatusByte) ==
  [p EXCEPT !.m_nMessageLength = 0, !.m_State = "StatusByte"]
Overflowing_OffByOne(p) == p.m_nMessageLength > SysExBufferSize

----------------------------------------------------------------------------
ResetState(p, bClearStatusByte) ==
  LET q == IF bClearStatusByte THEN ClearStatus(p) ELSE p
  IN  [q EXCEPT !.m_nMessageLength = 0, !.m_State = "StatusByte"]

TwoByteMessage(s) == s \in 192..223 \/ s \in {241, 243}

(* Three bytes are complete, and so are two of the messages that have two. *)
Complete(p) == \/ p.m_nMessageLength = 3
               \/ /\ p.m_nMessageLength = 2
                  /\ TwoByteMessage(p.m_MessageBuffer[0])

CheckCompleteShortMessage(p, bIgnoreNoteOns) ==
  LET s == p.m_MessageBuffer[0]
      dropped == bIgnoreNoteOns /\ s \in 144..159
      q == IF dropped THEN p ELSE Call(p, "short", Message(p))
  IN  IF Complete(p) THEN ResetState(q, s \in 241..247) ELSE p

(* The tune request falls through to the store at the end, as any other    *)
(* status byte does, with the parser still in the StatusByte state.        *)
ParseStatus(p, b) ==
  CASE b \in {244, 245, 247} -> ClearStatus(p)
    [] b = 240 -> Store([p EXCEPT !.m_State = "SysExByte"], b)
    [] b = 246 -> Store(ClearStatus(Call(p, "short", <<b>>)), b)
    [] OTHER -> Store([p EXCEPT !.m_State = "DataByte"], b)

(* A data byte where a status is expected: running status, if one is kept. *)
ParseRunningStatus(p, b) ==
  LET q == [p EXCEPT !.m_MessageBuffer[1] = b, !.m_nMessageLength = 2]
  IN  IF p.m_MessageBuffer[0] = 0 THEN p
      ELSE IF Complete(q) THEN CheckCompleteShortMessage(q, FALSE)
      ELSE [q EXCEPT !.m_State = "DataByte"]

ParseStatusByte(p, b) ==
  IF IsStatus(b) THEN ParseStatus(p, b) ELSE ParseRunningStatus(p, b)

Restart(p, kind, b) == ParseStatusByte(ResetState(Call(p, kind, <<>>), TRUE), b)

Overflowing(p) == p.m_nMessageLength = SysExBufferSize

ParseDataByte(p, b, bIgnoreNoteOns) ==
  IF IsStatus(b) THEN Restart(p, "unexpected", b)
  ELSE CheckCompleteShortMessage(Store(p, b), bIgnoreNoteOns)

ParseSysExByte(p, b) ==
  LET q == Store(p, b)
  IN  IF IsStatus(b) /\ b # 247 THEN Restart(p, "unexpected", b)
      ELSE IF Overflowing(p) THEN Restart(p, "overflow", b)
      ELSE IF b = 247 THEN ResetState(Call(q, "sysex", Message(q)), TRUE)
      ELSE q

ParseByte(p, b, bIgnoreNoteOns) ==
  CASE b >= 248 -> IF b \in {249, 253} THEN p ELSE Call(p, "short", <<b>>)
    [] b < 248 /\ p.m_State = "StatusByte" -> ParseStatusByte(p, b)
    [] b < 248 /\ p.m_State = "DataByte" -> ParseDataByte(p, b, bIgnoreNoteOns)
    [] b < 248 /\ p.m_State = "SysExByte" -> ParseSysExByte(p, b)

----------------------------------------------------------------------------
ParseMIDIByte(b, bIgnoreNoteOns) ==
  parser' = ParseByte([parser EXCEPT !.calls = <<>>], b, bIgnoreNoteOns)

Next == \E b \in Byte, bIgnoreNoteOns \in BOOLEAN :
          ParseMIDIByte(b, bIgnoreNoteOns)

Spec == Init /\ [][Next]_parser

----------------------------------------------------------------------------
TuneRequest == 246

(* The protocol's state as the parser keeps it. *)
Args(p) == IF p.m_State = "StatusByte" THEN <<>> ELSE Tail(Message(p))

Stream == INSTANCE MidiStream WITH
            MaxSysEx <- SysExBufferSize,
            status <- parser.m_MessageBuffer[0],
            args <- Args(parser),
            open <- parser.m_State # "StatusByte",
            calls <- parser.calls

(* The parser's buffer, length and state implement the MIDI stream: every  *)
(* message is reported once, complete and with its own status, whatever    *)
(* real-time, illegal or superfluous bytes come between.                   *)
StreamSpec == Stream!Spec

(* What the buffer holds in each state: between messages at most a channel *)
(* status to run on, within one a status, its data and room for the next.  *)
ChannelStatus == 128..239
Kept(p) ==
  LET s == p.m_MessageBuffer[0]
      n == p.m_nMessageLength
  IN  /\ p.m_State = "StatusByte" => n = 0 /\ s \in {0} \cup ChannelStatus
      /\ p.m_State = "DataByte" => /\ s \in ChannelStatus \cup 241..243
                                   /\ n \in {1, 2}
                                   /\ n = 2 => ~TwoByteMessage(s)
      /\ p.m_State = "SysExByte" => s = 240 /\ n \in 1..SysExBufferSize
      /\ \A i \in 1..(n - 1) : ~IsStatus(p.m_MessageBuffer[i])

(* A message in progress is a status byte and data bytes, and what is kept *)
(* between messages is a status that running status may use (ParseMIDIByte *)
(* and ParseStatusByte, midiparser.cpp:36-168).                            *)
BufferInv == Kept(parser)

(* "Tune Request - single byte, handle immediately and clear running       *)
(* status" (midiparser.cpp:143): no message is reported that has a tune    *)
(* request for its status and the bytes that came after it for its data.   *)
TuneRequestStandsAlone ==
  \A k \in 1..Len(parser.calls) :
    LET bytes == parser.calls[k].bytes
    IN  Len(bytes) > 1 => bytes[1] # TuneRequest
=============================================================================
