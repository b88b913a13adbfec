----------------------------- MODULE MidiInput -----------------------------
(***************************************************************************)
(* How MIDI data gets from the interrupt handler and the network to the    *)
(* synth, and what a SoundFont switch does to it (src/mt32pi.cpp).  Core 0 *)
(* runs MainTask: UpdateMIDI drains m_MIDIRxBuffer into the parser, a      *)
(* deferred switch may fall due, and Yield lets the UDP receiver's task    *)
(* parse a datagram with the same parser.  A SysEx message may ask for     *)
(* another SoundFont from inside ParseMIDIBytes: SwitchSoundFont then      *)
(* calls PurgeMIDIBuffers, which calls ParseMIDIBytes again on the parser  *)
(* that is still at the message's last byte.  Interrupts enqueue meanwhile.*)
(* The parser is MidiParser's, m_MIDIRxBuffer the queue of BoundedFifo.    *)
(***************************************************************************)
EXTENDS Integers, Sequences, FiniteSets

CONSTANTS Messages,        \* what a sender may send, as USB MIDI packets
          Datagrams,       \* what may arrive by UDP
          SoundFonts,      \* indices of the SoundFonts there are
          Capacity,        \* of m_MIDIRxBuffer
          SysExBufferSize,
          NoSwitch,        \* no deferred switch
          MaxMessages,     \* bound: messages sent
          MaxDatagrams     \* bound: datagrams sent

VARIABLES
  sending, nMessages, nDatagrams,  \* what senders have left to send, have sent
  m_MIDIRxBuffer,
  socket,                          \* datagrams received, not yet read
  parser,                          \* CMIDIParser
  calls,                           \* ParseMIDIBytes in progress, innermost first
  pc,                              \* where MainTask is
  m_nCurrentSoundFontIndex,
  deferred,                        \* m_nDeferredSoundFontSwitchIndex, if any
  requested,                       \* SwitchSoundFont's argument
  arrived,                         \* history: when the message's bytes came
  sentOffs, playedOffs,            \* history: note-offs
  overrun,                         \* history: a packet was cut short
  torn                             \* history: see Yield, Overtakes, SwitchReturns

ASSUME BufferAssumption == SysExBufferSize \in Nat /\ SysExBufferSize >= 3
ASSUME CapacityAssumption == Capacity \in Nat

senders == <<sending, nMessages, nDatagrams, sentOffs, overrun>>
switching == <<m_nCurrentSoundFontIndex, deferred, requested>>
parsing == <<parser, arrived, playedOffs, torn>>
vars == <<senders, m_MIDIRxBuffer, socket, parsing, calls, pc, switching>>

(* The parser's bytes are those of the senders; the set is not used here. *)
P == INSTANCE MidiParser WITH Byte <- 0..255

(* A sender's messages are complete: a status byte and the data bytes it   *)
(* has, a SysEx message that fits the parser's buffer, or a real-time      *)
(* message.                                                                *)
IsShort(m) == /\ m[1] \in 128..239 \cup 241..243
              /\ Len(m) = IF P!TwoByteMessage(m[1]) THEN 2 ELSE 3
              /\ \A i \in 2..Len(m) : m[i] < 128
IsSysEx(m) == /\ m[1] = 240 /\ Len(m) \in 2..SysExBufferSize
              /\ \A i \in 2..(Len(m) - 1) : m[i] < 128
              /\ m[Len(m)] = 247
IsRealTime(m) == Len(m) = 1 /\ m[1] \in {248, 250, 251, 252, 254, 255}
IsMessage(m) ==
  m \in Seq(0..255) /\ m # <<>> /\ (IsShort(m) \/ IsSysEx(m) \/ IsRealTime(m))

Concat(packets) == IF Len(packets) = 1 THEN packets[1]
                   ELSE packets[1] \o packets[2]

(* One or two USB packets have room for the messages; a datagram has one   *)
(* of three bytes at most.                                                 *)
ASSUME MessageAssumption ==
  \A packets \in Messages :
    /\ packets \in Seq(Seq(0..255)) /\ Len(packets) \in {1, 2} /\ packets[1] # <<>>
    /\ IsMessage(Concat(packets))
ASSUME DatagramAssumption == \A m \in Datagrams : IsMessage(m) /\ Len(m) <= 3

When == {"idle", "busy", "busyNet"}
Received == Seq([byte : 0..255, when : When])

TypeOK ==
  /\ m_MIDIRxBuffer \in Received /\ Len(m_MIDIRxBuffer) <= Capacity
  /\ parser \in P!Parser
  /\ calls \in Seq([rest : Received, bIgnoreNoteOns : BOOLEAN,
                    then : {"events", "midi", "purge"}])
  /\ pc \in {"midi", "events", "deferred", "yield", "parse", "loading",
             "failing", "purge"}
  /\ m_nCurrentSoundFontIndex \in SoundFonts
  /\ deferred \in SoundFonts \cup {NoSwitch}
  /\ requested \in 0..127 \cup {NoSwitch}
  /\ arrived \subseteq When

Init ==
  /\ sending = <<>> /\ nMessages = 0 /\ nDatagrams = 0
  /\ m_MIDIRxBuffer = <<>> /\ socket = <<>>
  /\ P!Init
  /\ calls = <<>> /\ pc = "midi"
  /\ m_nCurrentSoundFontIndex \in SoundFonts
  /\ deferred = NoSwitch /\ requested = NoSwitch
  /\ arrived = {} /\ sentOffs = 0 /\ playedOffs = 0
  /\ overrun = FALSE /\ torn = FALSE

NoteOff(b) == b \in 128..143
NoteOn(b) == b \in 144..159

(* A SwitchSoundFont that succeeds is on the stack. *)
Busy == pc \in {"loading", "purge"}
          \/ \E k \in 1..Len(calls) : calls[k].bIgnoreNoteOns

Stamp(bytes, busyWhen) ==
  [k \in 1..Len(bytes) |-> [byte |-> bytes[k],
                            when |-> IF Busy THEN busyWhen ELSE "idle"]]

----------------------------------------------------------------------------
(* The outside: an interrupt delivers the next packet (IRQMIDIReceive-     *)
(* Handler), or the network stack a datagram, at any point of MainTask.    *)

Enqueue(block) ==
  LET space == Capacity - Len(m_MIDIRxBuffer)
      kept == SubSeq(block, 1, IF Len(block) <= space THEN Len(block) ELSE space)
  IN  /\ m_MIDIRxBuffer' = m_MIDIRxBuffer \o kept
      /\ overrun' = (overrun \/ kept # block)

Receive ==
  /\ \/ /\ sending = <<>> /\ nMessages < MaxMessages
        /\ nMessages' = nMessages + 1
        /\ \E packets \in Messages :
             /\ Enqueue(Stamp(Head(packets), "busy"))
             /\ sending' = Tail(packets)
             /\ sentOffs' = sentOffs + (IF NoteOff(packets[1][1]) THEN 1 ELSE 0)
     \/ /\ sending # <<>>
        /\ Enqueue(Stamp(Head(sending), "busy"))
        /\ sending' = Tail(sending)
        /\ UNCHANGED <<nMessages, sentOffs>>
  /\ UNCHANGED <<nDatagrams, socket, parsing, calls, pc, switching>>

DatagramArrives ==
  /\ nDatagrams < MaxDatagrams
  /\ nDatagrams' = nDatagrams + 1
  /\ \E bytes \in Datagrams :
       /\ socket' = Append(socket, Stamp(bytes, "busyNet"))
       /\ sentOffs' = sentOffs + (IF NoteOff(bytes[1]) THEN 1 ELSE 0)
  /\ UNCHANGED <<sending, nMessages, overrun, m_MIDIRxBuffer, parsing,
                 calls, pc, switching>>

----------------------------------------------------------------------------
(* MainTask's turn: UpdateMIDI, ProcessEventQueue, the deferred switch and *)
(* Yield.                                                                  *)

ParseMIDIBytes(data, bIgnoreNoteOns, then) ==
  /\ calls' = <<[rest |-> data, bIgnoreNoteOns |-> bIgnoreNoteOns,
                 then |-> then]>> \o calls
  /\ pc' = "parse"

UpdateMIDI ==
  /\ pc = "midi"
  /\ IF m_MIDIRxBuffer = <<>> THEN pc' = "events" /\ UNCHANGED calls
     ELSE ParseMIDIBytes(m_MIDIRxBuffer, FALSE, "events")
  /\ m_MIDIRxBuffer' = <<>>
  /\ UNCHANGED <<senders, socket, parsing, switching>>

(* CSoundFontSynth::SwitchSoundFont loads for seconds.  That it will fail  *)
(* is settled when it starts: nothing that happens meanwhile depends on it.*)
SwitchSoundFont(i) ==
  /\ requested' = i
  /\ \/ pc' = "failing"
     \/ i # m_nCurrentSoundFontIndex /\ i \in SoundFonts /\ pc' = "loading"

(* An event may ask for a SoundFont: DeferSwitchSoundFont. *)
ProcessEventQueue ==
  /\ pc = "events"
  /\ pc' = "deferred"
  /\ deferred' \in {deferred} \cup SoundFonts
  /\ UNCHANGED <<senders, m_MIDIRxBuffer, socket, parsing, calls,
                 m_nCurrentSoundFontIndex, requested>>

(* The deferred switch may be due, unless its name is still scrolling by. *)
DeferredSwitch ==
  /\ pc = "deferred"
  /\ \/ pc' = "yield" /\ UNCHANGED requested
     \/ deferred # NoSwitch /\ SwitchSoundFont(deferred)
  /\ UNCHANGED <<senders, m_MIDIRxBuffer, socket, parsing, calls,
                 m_nCurrentSoundFontIndex, deferred>>

(* CUDPMIDIReceiver::Run reads a datagram, if there is one. *)
Yield ==
  /\ pc = "yield"
  /\ IF socket = <<>>
     THEN pc' = "midi" /\ UNCHANGED <<calls, socket, torn>>
     ELSE /\ ParseMIDIBytes(Head(socket), FALSE, "midi")
          /\ socket' = Tail(socket)
          /\ torn' = (torn \/ parser.m_State # "StatusByte")
  /\ UNCHANGED <<senders, m_MIDIRxBuffer, parser, arrived, playedOffs, switching>>


----------------------------------------------------------------------------
(* Back from SwitchSoundFont: to MainTask, or to the SysEx message that    *)
(* asked for it, whose ParseMIDIBytes resets the parser and goes on.  A    *)
(* message the purge left half received is torn by that.                   *)
SwitchReturns ==
  \/ /\ calls = <<>>
     /\ pc' = "yield" /\ deferred' = NoSwitch
     /\ UNCHANGED <<parser, torn>>
  \/ /\ calls # <<>>
     /\ pc' = "parse" /\ UNCHANGED deferred
     /\ parser' = P!ResetState(parser, TRUE)
     /\ torn' = (torn \/ /\ parser.m_State # "StatusByte"
                         /\ 247 # parser.m_MessageBuffer[parser.m_nMessageLength - 1])

(* The purge parses newer bytes before what is left of an interrupted call. *)
Overtakes ==
  torn' = (torn \/ \E k \in 1..Len(calls) : calls[k].rest # <<>>)

(* Seeded faults. *)
PurgeTurn_PlaysNoteOns ==
  /\ pc = "purge" /\ m_MIDIRxBuffer # <<>>
  /\ ParseMIDIBytes(m_MIDIRxBuffer, FALSE, "purge")
  /\ m_MIDIRxBuffer' = <<>>
  /\ Overtakes
  /\ UNCHANGED <<senders, socket, parser, arrived, playedOffs, switching>>
PurgeTurn_ThrowsAway ==
  /\ pc = "purge" /\ m_MIDIRxBuffer # <<>>
  /\ m_MIDIRxBuffer' = <<>>
  /\ UNCHANGED <<senders, socket, parsing, calls, pc, switching>>
ParseReturns_ResetsParser ==
  /\ pc = "parse" /\ Head(calls).rest = <<>>
  /\ pc' = Head(calls).then
  /\ calls' = Tail(calls)
  /\ parser' = P!ResetState(parser, FALSE)
  /\ UNCHANGED <<senders, m_MIDIRxBuffer, socket, arrived, playedOffs, torn,
                 switching>>

----------------------------------------------------------------------------
SwitchFails ==
  /\ pc = "failing"
  /\ SwitchReturns
  /\ UNCHANGED <<senders, m_MIDIRxBuffer, socket, arrived, playedOffs, calls,
                 m_nCurrentSoundFontIndex, requested>>

SwitchSucceeds ==
  /\ pc = "loading"
  /\ m_nCurrentSoundFontIndex' = requested
  /\ pc' = "purge"
  /\ UNCHANGED <<senders, m_MIDIRxBuffer, socket, parsing, calls, deferred,
                 requested>>

(* PurgeMIDIBuffers: the queue is parsed, batch by batch, until it is empty. *)
PurgeTurn ==
  /\ pc = "purge" /\ m_MIDIRxBuffer # <<>>
  /\ ParseMIDIBytes(m_MIDIRxBuffer, TRUE, "purge")
  /\ m_MIDIRxBuffer' = <<>>
  /\ Overtakes
  /\ UNCHANGED <<senders, socket, parser, arrived, playedOffs, switching>>

PurgeEnds ==
  /\ pc = "purge" /\ m_MIDIRxBuffer = <<>>
  /\ SwitchReturns
  /\ UNCHANGED <<senders, m_MIDIRxBuffer, socket, arrived, playedOffs, calls,
                 m_nCurrentSoundFontIndex, requested>>

----------------------------------------------------------------------------
(* One turn of the innermost ParseMIDIBytes. *)

(* F0 7D 02 xx F7, seen by ParseCustomSysEx. *)
AsksForSoundFont(bytes) == Len(bytes) = 5 /\ bytes[2] = 125 /\ bytes[3] = 2

EndsSysEx(b) ==
  parser.m_State = "SysExByte" /\ b = 247 /\ ~P!Overflowing(parser)

Offs(made) ==
  Cardinality({k \in 1..Len(made) : made[k].kind = "short"
                                      /\ NoteOff(made[k].bytes[1])})

ParseByte ==
  /\ pc = "parse" /\ Head(calls).rest # <<>>
  /\ LET call == Head(calls)
         x == Head(call.rest)
         p == [parser EXCEPT !.calls = <<>>]
         q == P!Store(p, x.byte)
         r == P!ParseByte(p, x.byte, call.bIgnoreNoteOns)
     IN  /\ IF EndsSysEx(x.byte) /\ AsksForSoundFont(P!Message(q))
            THEN /\ SwitchSoundFont(P!Message(q)[4])
                 /\ parser' = P!Call(q, "sysex", P!Message(q))
                 /\ UNCHANGED playedOffs
            ELSE /\ parser' = r
                 /\ playedOffs' = playedOffs + Offs(r.calls)
                 /\ UNCHANGED <<pc, requested>>
         /\ calls' = <<[call EXCEPT !.rest = Tail(@)]>> \o Tail(calls)
         /\ arrived' = {x.when} \cup
                         (IF P!IsStatus(x.byte) \/ parser.m_State = "StatusByte"
                          THEN {} ELSE arrived)
  /\ UNCHANGED <<senders, m_MIDIRxBuffer, socket, torn,
                 m_nCurrentSoundFontIndex, deferred>>

ParseReturns ==
  /\ pc = "parse" /\ Head(calls).rest = <<>>
  /\ pc' = Head(calls).then
  /\ calls' = Tail(calls)
  /\ UNCHANGED <<senders, m_MIDIRxBuffer, socket, parsing, switching>>

MainTask == \/ UpdateMIDI \/ ProcessEventQueue \/ DeferredSwitch \/ Yield
            \/ SwitchFails \/ SwitchSucceeds \/ PurgeTurn \/ PurgeEnds
            \/ ParseByte \/ ParseReturns

Next == MainTask \/ Receive \/ DatagramArrives

Spec == Init /\ [][Next]_vars

----------------------------------------------------------------------------
Sent == {Concat(packets) : packets \in Messages} \cup Datagrams

Reported(kind) == {parser.calls[k].bytes : k \in
                     {j \in 1..Len(parser.calls) : parser.calls[j].kind = kind}}

(* A note-on that came in whole through m_MIDIRxBuffer while a SoundFont   *)
(* was being loaded is never played: not by the purge, not by the call the *)
(* purge interrupted, not later (PurgeMIDIBuffers, mt32pi.cpp:1014-1028).  *)
LateNotesDiscarded ==
  arrived = {"busy"} => \A bytes \in Reported("short") : ~NoteOn(bytes[1])

(* Purging and the parser's re-entry invent nothing: unless bytes were lost *)
(* to an overrun or a message was torn, what the parser reports is         *)
(* a message as its sender sent it (midiparser.cpp:78-106, which calls     *)
(* OnSysExMessage before it resets its state).                             *)
OnlyWhatWasSent ==
  ~overrun /\ ~torn => Reported("short") \cup Reported("sysex") \subseteq Sent

(* Every byte that waits somewhere to be parsed. *)
Waiting == <<m_MIDIRxBuffer>> \o socket \o [k \in 1..Len(calls) |-> calls[k].rest]
Longest == IF Capacity > 3 THEN Capacity ELSE 3  \* a datagram has 3 bytes
OffPlaces(lists) ==
  {at \in (1..Len(lists)) \X (1..Longest) :
     at[2] <= Len(lists[at[1]]) /\ NoteOff(lists[at[1]][at[2]].byte)}
OffsWaiting == Cardinality(OffPlaces(Waiting))
OffBegun == parser.m_State = "DataByte" /\ NoteOff(parser.m_MessageBuffer[0])

(* "Process MIDI messages from all devices/ring buffers, but ignore        *)
(* note-ons" (PurgeMIDIBuffers): no note-off is lost or played twice while *)
(* SoundFonts are switched, however the switches nest.                     *)
NoteOffsKept ==
  ~overrun /\ ~torn =>
    sentOffs = playedOffs + OffsWaiting + (IF OffBegun THEN 1 ELSE 0)

(* CHANGELOG.md: "Any note-on messages received whilst busy switching      *)
(* SoundFonts are now discarded", those that come over the network too.    *)
NetworkNotesDiscarded ==
  arrived = {"busyNet"} => \A bytes \in Reported("short") : ~NoteOn(bytes[1])
=============================================================================
