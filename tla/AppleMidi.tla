----------------------------- MODULE AppleMidi -----------------------------
(***************************************************************************)
(* CAppleMIDIParticipant (src/net/applemidi.cpp): the task that answers    *)
(* invitations on a control and a MIDI port, keeps one session, and hands  *)
(* the commands in its RTP-MIDI packets to the MIDI parser.  A turn of     *)
(* Run's loop is Receive, one of the three state handlers, and Yield; the  *)
(* handler of a session goes through the commands of a packet one by one.  *)
(* A packet may come at any time, from anybody, or never.  The clock is    *)
(* kept as the time since the two moments that the task remembers.         *)
(***************************************************************************)
EXTENDS Integers, Sequences, SequencesExt

CONSTANTS
  Initiators,     \* [ip, port, id]: id stands for both token and SSRC
  Sequences,      \* RTP sequence numbers, 0 among them
  Lists,          \* MIDI command lists, sequences of Entry
  Leftovers,      \* MIDI bytes that what is behind a list may be taken for
  InvitationTimeout, SyncTimeout, ReceiverFeedbackPeriod

ASSUME TimeoutAssumption ==
  {InvitationTimeout, SyncTimeout, ReceiverFeedbackPeriod} \subseteq Nat

Byte == 0..255

(* A command as it is in a list, behind its delta time; and the MIDI bytes *)
(* it stands for.                                                          *)
Entry == [delta : Seq(Byte), bytes : Seq(Byte), midi : Seq(Byte)]

ASSUME ListAssumption == Lists \subseteq Seq(Entry) /\ Leftovers \subseteq Seq(Byte)

VARIABLES
  pc,
  control, midi,      \* what ReceiveFrom left: its result, and the buffers
  m_State,
  initiator,          \* m_InitiatorIPAddress, the ports, the token and SSRC
  sinceSync, sinceFeedback,    \* GetSyncClock() - m_nLast...Time
  m_nSequence, m_nLastFeedbackSequence,
  commands,           \* what is left of a command list
  nRunningStatus,
  delta,              \* a delta time comes next
  delivered,          \* bytes handed to OnAppleMIDIDataReceived
  list,               \* history: the list being parsed
  sent                \* packets given to SendTo in this turn

io == <<control, midi>>
session == <<m_State, initiator>>
clock == <<sinceSync, sinceFeedback>>
sequence == <<m_nSequence, m_nLastFeedbackSequence>>
parsing == <<commands, nRunningStatus, delta, delivered, list>>
vars == <<pc, io, session, clock, sequence, parsing, sent>>

Nobody == [ip |-> "none", port |-> 0, id |-> 0]
NoPacket == [kind |-> "none", from |-> Nobody]

(* No packet comes from the null address. *)
ASSUME InitiatorAssumption ==
  Initiators \subseteq [ip : STRING, port : Int, id : Int] \ {Nobody}

(* What none of the parsers takes for one of its packets. *)
OtherPacket == [kind |-> "other", from |-> Nobody]

ControlPackets ==
  [kind : {"invitation", "endSession"}, from : Initiators] \cup {OtherPacket}
MIDIPackets ==
  [kind : {"invitation"}, from : Initiators] \cup {OtherPacket}
    \cup [kind : {"sync"}, from : Initiators, nCount : 0..2]
    \cup [kind : {"midi"}, from : Initiators, nSequence : Sequences]

(* Longer ago than the timeouts. *)
LongNoSync == 1 + SyncTimeout + InvitationTimeout
LongNoFeedback == 1 + ReceiverFeedbackPeriod

TypeOK ==
  /\ pc \in {"receive", "handle", "commands", "behind", "rest", "yield"}
  /\ control \in [result : -1..1, packet : ControlPackets \cup {NoPacket}]
  /\ midi \in MIDIPackets \cup {NoPacket}
  /\ m_State \in {"ControlInvitation", "MIDIInvitation", "Connected"}
  /\ initiator \in [control : Initiators \cup {Nobody}, midiPort : Int]
  /\ sinceSync \in 0..LongNoSync /\ sinceFeedback \in 0..LongNoFeedback
  /\ m_nSequence \in Sequences /\ m_nLastFeedbackSequence \in Sequences
  /\ commands \in Seq(Byte) /\ delivered \in Seq(Byte)
  /\ nRunningStatus \in {0} \cup 128..239
  /\ delta \in BOOLEAN
  /\ list \in Lists \cup {<<>>}

Init ==
  /\ pc = "receive"
  /\ control = [result |-> 0, packet |-> NoPacket] /\ midi = NoPacket
  /\ m_State = "ControlInvitation"
  /\ initiator = [control |-> Nobody, midiPort |-> 0]
  /\ sinceSync = LongNoSync /\ sinceFeedback = LongNoFeedback
  /\ m_nSequence = 0 /\ m_nLastFeedbackSequence = 0
  /\ commands = <<>> /\ nRunningStatus = 0 /\ delta = FALSE
  /\ delivered = <<>> /\ list = <<>>
  /\ sent = {}

----------------------------------------------------------------------------
(* The command list of an RTP-MIDI packet: pure functions of its bytes.    *)

DropFirst(s, n) == SubSeq(s, n + 1, Len(s))

FirstOf(S, otherwise) ==
  IF S = {} THEN otherwise ELSE CHOOSE k \in S : \A j \in S : k <= j

(* Up to four bytes; the last is the one without the upper bit. *)
ParseMIDIDeltaTime(s) ==
  FirstOf({k \in 1..4 : k <= Len(s) /\ s[k] < 128}, 4)

Parsed(nBytes, bytes, status) ==
  [nBytesParsed |-> nBytes, bytes |-> bytes, nRunningStatus |-> status]

(* Seeded fault: the F0 that ends a first segment is handed on. *)
ParseSysExCommand_KeepsTail(s) == Parsed(Len(s), s, 0)

(* The middle of a segmented SysEx is handed on with the F0 behind it and  *)
(* one byte more, and its last two bytes are gone through again.  The byte *)
(* behind the list is whatever the buffer holds; 0 stands for it.          *)
ParseSysExCommand(s) ==
  LET n == FirstOf({k \in 2..Len(s) : s[k] \in {240, 244, 247}}, Len(s))
      tail == IF n = 1 THEN 0 ELSE s[n]
  IN  CASE s[1] = 240 /\ tail = 240 -> Parsed(n, SubSeq(s, 1, n - 1), 0)
        [] s[1] = 247 /\ tail = 240 -> Parsed(n - 2, SubSeq(Append(s, 0), 2, n + 1), 0)
        [] s[1] = 247 /\ tail = 247 -> Parsed(n, SubSeq(s, 2, n), 0)
        [] s[1] = 247 /\ tail = 244 -> Parsed(n, <<247>>, 0)
        [] OTHER -> Parsed(n, SubSeq(s, 1, n), 0)

DataBytes(status) ==
  CASE status \in 192..223 \cup {241, 243} -> 1
    [] status \in {244, 245, 246} -> 0
    [] OTHER -> 2

RunningStatus(b) == IF b < 240 THEN b ELSE 0

(* Of a command that goes past the end of s, s has the first bytes.        *)
Command(s, n, status) ==
  Parsed(n, IF n <= Len(s) THEN SubSeq(s, 1, n) ELSE s, status)

(* A command without its status byte, which is invalid at the beginning.   *)
ParseRunningCommand(s, status) ==
  IF status = 0 THEN Parsed(0, <<>>, 0) ELSE Command(s, DataBytes(status), status)

ParseMIDICommand(s, status) ==
  LET b == s[1]
  IN  CASE b \in {249, 253} -> Parsed(1, <<>>, status)
        [] b \in {248, 250, 251, 252, 254, 255} -> Command(s, 1, status)
        [] b \in {240, 247} -> ParseSysExCommand(s)
        [] b \in 128..246 \ {240} -> Command(s, 1 + DataBytes(b), RunningStatus(b))
        [] OTHER -> ParseRunningCommand(s, status)

Encoded(entries) == FlattenSeq([k \in DOMAIN entries |->
                                  entries[k].delta \o entries[k].bytes])
Meant(entries) == FlattenSeq([k \in DOMAIN entries |-> entries[k].midi])

----------------------------------------------------------------------------
(* Run. *)

Receive ==
  /\ pc = "receive" /\ pc' = "handle"
  /\ \/ control' \in [result : {1}, packet : ControlPackets]
     \/ \E result \in {-1, 0} : control' = [control EXCEPT !.result = result]
  /\ midi' \in MIDIPackets \cup {NoPacket}
  /\ UNCHANGED <<session, clock, sequence, parsing, sent>>

(* Also lets go of the MIDI buffer, which is not read again. *)
Yield ==
  /\ pc = "yield" /\ pc' = "receive"
  /\ control' = [control EXCEPT !.result = 0] /\ midi' = NoPacket
  /\ delivered' = <<>> /\ list' = <<>> /\ sent' = {}
  /\ UNCHANGED <<session, clock, sequence, commands, nRunningStatus, delta>>

Earlier(since, long) == IF since < long THEN since + 1 ELSE since

Tick ==
  /\ pc = "receive"
  /\ sinceSync < LongNoSync \/ sinceFeedback < LongNoFeedback
  /\ sinceSync' = Earlier(sinceSync, LongNoSync)
  /\ sinceFeedback' = Earlier(sinceFeedback, LongNoFeedback)
  /\ UNCHANGED <<pc, io, session, sequence, parsing, sent>>

(* The initiator's address is left, but is set before it is next read. *)
Reset ==
  /\ m_State' = "ControlInvitation"
  /\ initiator' = [control |-> Nobody, midiPort |-> 0]
  /\ sinceSync' = LongNoSync /\ sinceFeedback' = LongNoFeedback
  /\ m_nSequence' = 0 /\ m_nLastFeedbackSequence' = 0

Reply(kind, p, port, id) == [kind |-> kind, ip |-> p.ip, port |-> port, id |-> id]

In(state) == pc = "handle" /\ m_State = state

----------------------------------------------------------------------------
(* ControlInvitationState. *)

(* Nothing received, or no invitation. *)
StayIdle ==
  /\ In("ControlInvitation") /\ pc' = "yield"
  /\ control.result = 0 \/ control.packet.kind # "invitation"
  /\ UNCHANGED <<io, session, clock, sequence, parsing, sent>>

(* After an error of the socket the buffer's last packet is parsed again.  *)
AcceptControl ==
  /\ In("ControlInvitation") /\ pc' = "yield"
  /\ control.result # 0 /\ control.packet.kind = "invitation"
  /\ LET p == control.packet.from
     IN  /\ initiator' = [initiator EXCEPT !.control = p]
         /\ sent' = {Reply("accept", p, p.port, p.id)}
  /\ \/ m_State' = "MIDIInvitation" /\ sinceSync' = 0
     \/ UNCHANGED <<m_State, sinceSync>>       \* it couldn't be sent
  /\ UNCHANGED <<io, sinceFeedback, sequence, parsing>>

----------------------------------------------------------------------------
(* MIDIInvitationState. *)

ControlFromInitiator ==
  LET p == control.packet.from
  IN  p.ip = initiator.control.ip /\ p.port = initiator.control.port

ControlReplies_None == {}      \* seeded fault

(* An invitation from anybody else is rejected. *)
ControlReplies ==
  LET p == control.packet.from
  IN  IF /\ control.result > 0 /\ control.packet.kind = "invitation"
         /\ ~ControlFromInitiator
      THEN {Reply("reject", p, p.port, p.id)}
      ELSE {}

RejectOnMIDIPort ==
  IF midi.kind = "invitation"
  THEN {Reply("reject", midi.from, midi.from.port, midi.from.id)}
  ELSE {}

MIDIInvitationUnexpected ==
  /\ In("MIDIInvitation") /\ pc' = "yield"
  /\ midi.kind # "none"
  /\ midi.kind = "invitation" => midi.from.ip # initiator.control.ip
  /\ sent' = ControlReplies \cup RejectOnMIDIPort
  /\ UNCHANGED <<io, session, clock, sequence, parsing>>

(* Seeded fault: whoever is first is taken. *)
AcceptMIDI_FromAnybody ==
  /\ In("MIDIInvitation") /\ pc' = "yield"
  /\ midi.kind = "invitation"
  /\ initiator' = [initiator EXCEPT !.midiPort = midi.from.port]
  /\ sent' = ControlReplies
  /\ m_State' = "Connected" /\ sinceSync' = 0
  /\ UNCHANGED <<io, sinceFeedback, sequence, parsing>>

AcceptMIDI ==
  /\ In("MIDIInvitation") /\ pc' = "yield"
  /\ midi.kind = "invitation" /\ midi.from.ip = initiator.control.ip
  /\ sent' = ControlReplies \cup {Reply("accept", initiator.control,
                                        midi.from.port, initiator.control.id)}
  /\ initiator' = [initiator EXCEPT !.midiPort = midi.from.port]
  /\ m_State' = "Connected" /\ sinceSync' = 0
  /\ UNCHANGED <<io, sinceFeedback, sequence, parsing>>

CannotAcceptMIDI ==
  /\ In("MIDIInvitation") /\ pc' = "yield"
  /\ midi.kind = "invitation" /\ midi.from.ip = initiator.control.ip
  /\ sent' = ControlReplies
  /\ Reset
  /\ UNCHANGED <<io, parsing>>

(* Only when there is no packet on the MIDI port. *)
MIDIInvitationTimeout ==
  /\ In("MIDIInvitation") /\ pc' = "yield"
  /\ midi.kind = "none" /\ sinceSync > InvitationTimeout
  /\ sent' = ControlReplies
  /\ Reset
  /\ UNCHANGED <<io, parsing>>

AwaitMIDIInvitation ==
  /\ In("MIDIInvitation") /\ pc' = "yield"
  /\ midi.kind = "none" /\ sinceSync <= InvitationTimeout
  /\ sent' = ControlReplies
  /\ UNCHANGED <<io, session, clock, sequence, parsing>>

----------------------------------------------------------------------------
(* ConnectedState. *)

EndOfSession ==
  /\ control.result > 0 /\ control.packet.kind = "endSession"
  /\ ControlFromInitiator /\ control.packet.from.id = initiator.control.id

SessionEnded ==
  /\ In("Connected") /\ pc' = "yield"
  /\ EndOfSession
  /\ Reset
  /\ UNCHANGED <<io, parsing, sent>>

Goes(to, replies) ==
  /\ In("Connected") /\ ~EndOfSession /\ pc' = to
  /\ sent' = ControlReplies \cup replies
  /\ UNCHANGED <<io, session, sinceFeedback, sequence>>

MIDIFromInitiator ==
  midi.from.ip = initiator.control.ip /\ midi.from.port = initiator.midiPort

(* A packet for which both parsers return false: its list is said to be    *)
(* longer than the packet, or it is no such packet.                        *)
NothingToParse ==
  /\ Goes("rest", {})
  /\ ~MIDIFromInitiator \/ midi.kind # "sync"
  /\ UNCHANGED <<sinceSync, parsing>>

(* The Z flag of the header says that the list begins with a delta time.   *)
ParseMIDIPacket ==
  /\ Goes("commands", {})
  /\ MIDIFromInitiator /\ midi.kind = "midi"
  /\ list' \in Lists
  /\ commands' = Encoded(list')
  /\ delta' = (list' # <<>> /\ list'[1].delta # <<>>)
  /\ nRunningStatus' = 0 /\ delivered' = <<>>
  /\ UNCHANGED sinceSync

ExpectedSync == midi.from.id = initiator.control.id /\ midi.nCount \in {0, 2}

SendSyncPacket ==
  IF ExpectedSync /\ midi.nCount = 0
  THEN {Reply("sync", initiator.control, initiator.midiPort, 1)}
  ELSE {}

SyncReceived ==
  /\ MIDIFromInitiator /\ midi.kind = "sync"
  /\ Goes("rest", SendSyncPacket)
  /\ sinceSync' = IF ExpectedSync THEN 0 ELSE sinceSync
  /\ UNCHANGED parsing

DeltaLength == IF delta THEN ParseMIDIDeltaTime(commands) ELSE 0

NextCommand ==
  LET s == DropFirst(commands, DeltaLength)
  IN  IF s = <<>> THEN Parsed(0, <<>>, nRunningStatus)
                  ELSE ParseMIDICommand(s, nRunningStatus)

Taken == DeltaLength + NextCommand.nBytesParsed

(* A turn of the loop over the commands. *)
CommandTurn ==
  /\ pc = "commands" /\ commands # <<>> /\ Taken <= Len(commands)
  /\ commands' = DropFirst(commands, Taken)
  /\ delivered' = delivered \o NextCommand.bytes
  /\ nRunningStatus' = NextCommand.nRunningStatus
  /\ delta' = TRUE
  /\ UNCHANGED <<pc, io, session, clock, sequence, list, sent>>

(* A delta time or a command goes past the end of the list.  The length    *)
(* that is left is a u16, which does not get to zero but wraps, and the    *)
(* loop goes on behind the list.                                           *)
PassEnd ==
  /\ pc = "commands" /\ commands # <<>> /\ Taken > Len(commands)
  /\ pc' = "behind"
  /\ commands' = <<>>
  /\ delivered' = delivered \o NextCommand.bytes
  /\ nRunningStatus' = NextCommand.nRunningStatus
  /\ delta' = TRUE
  /\ UNCHANGED <<io, session, clock, sequence, list, sent>>

(* Whatever is there is handed on as commands, until the length happens to *)
(* get to zero.                                                            *)
ReadBehind ==
  /\ pc = "behind" /\ pc' = "rest"
  /\ \E bytes \in Leftovers : delivered' = delivered \o bytes
  /\ m_nSequence' = midi.nSequence
  /\ nRunningStatus' = 0 /\ delta' = FALSE
  /\ UNCHANGED <<io, session, clock, m_nLastFeedbackSequence, commands, list, sent>>

PacketParsed ==
  /\ pc = "commands" /\ commands = <<>> /\ pc' = "rest"
  /\ m_nSequence' = midi.nSequence
  /\ nRunningStatus' = 0 /\ delta' = FALSE
  /\ UNCHANGED <<io, session, clock, m_nLastFeedbackSequence, commands,
                 delivered, list, sent>>

SendFeedbackPacket ==
  IF m_nSequence = m_nLastFeedbackSequence \/ sinceFeedback <= ReceiverFeedbackPeriod
  THEN {}
  ELSE {Reply("feedback", initiator.control, initiator.control.port, m_nSequence)}

(* Seeded fault: a silent initiator is waited for. *)
Rest_NoTimeout ==
  /\ pc = "rest" /\ pc' = "yield"
  /\ sent' = sent \cup SendFeedbackPacket
  /\ IF sinceFeedback > ReceiverFeedbackPeriod
     THEN m_nLastFeedbackSequence' = m_nSequence /\ sinceFeedback' = 0
     ELSE UNCHANGED <<m_nLastFeedbackSequence, sinceFeedback>>
  /\ UNCHANGED <<io, parsing, session, sinceSync, m_nSequence>>

(* Feedback, and the test for a silent initiator. *)
Rest ==
  /\ pc = "rest" /\ pc' = "yield"
  /\ sent' = sent \cup SendFeedbackPacket
  /\ IF sinceSync > SyncTimeout
     THEN Reset
     ELSE /\ IF sinceFeedback > ReceiverFeedbackPeriod
             THEN m_nLastFeedbackSequence' = m_nSequence /\ sinceFeedback' = 0
             ELSE UNCHANGED <<m_nLastFeedbackSequence, sinceFeedback>>
          /\ UNCHANGED <<session, sinceSync, m_nSequence>>
  /\ UNCHANGED <<io, parsing>>

Turn ==
  \/ Receive \/ StayIdle \/ AcceptControl
  \/ MIDIInvitationUnexpected \/ AcceptMIDI \/ CannotAcceptMIDI
  \/ MIDIInvitationTimeout \/ AwaitMIDIInvitation
  \/ SessionEnded \/ NothingToParse \/ ParseMIDIPacket \/ SyncReceived
  \/ CommandTurn \/ PassEnd \/ PacketParsed \/ Rest \/ Yield

Next == Turn \/ ReadBehind \/ Tick

(* The scheduler runs the task again whenever it has yielded, and the      *)
(* clock runs on whatever the task does.  Nothing says that the loop comes *)
(* back from behind a list.                                                *)
Spec == Init /\ [][Next]_vars /\ WF_vars(Turn) /\ SF_vars(Tick)

----------------------------------------------------------------------------
Silent(p) == IF m_State = "ControlInvitation" THEN Nobody ELSE p

Session == INSTANCE MidiSession WITH
  Peers <- Initiators,
  member <- Silent(initiator.control),
  voice <- IF m_State = "Connected"
           THEN [ip |-> initiator.control.ip, port |-> initiator.midiPort]
           ELSE Nobody,
  control <- control.packet, midi <- midi, silence <- sinceSync,
  heard <- pc \in {"commands", "behind"}

(* One session at a time; only its initiator's end packet or its silence   *)
(* ends it, nobody else's packets prolong it, and no MIDI commands are     *)
(* taken from another address.  (After an error of the control socket the  *)
(* invitation that arrived last may open a session once more.)             *)
SessionSpec == Session!Spec

(* A peer that invites the Pi on the control port is told yes or no, with  *)
(* its own token, whatever the Pi is doing; except that the initiator of   *)
(* the session in progress gets no second answer ("Unexpected packet").    *)
InvitationsAnswered ==
  [][LET p == control.packet.from
     IN  pc = "handle" /\ control.result > 0 /\ control.packet.kind = "invitation" =>
           \/ \E kind \in {"accept", "reject"} : Reply(kind, p, p.port, p.id) \in sent'
           \/ m_State # "ControlInvitation" /\ ControlFromInitiator]_vars

(* One byte with the upper bit unset, and perhaps some with it before it.  *)
IsDelta(d) ==
  Len(d) \in 1..4 /\ \A i \in DOMAIN d : d[i] < 128 <=> i = Len(d)

IsData(s) == \A i \in DOMAIN s : s[i] < 128

(* The data bytes of a status byte, as MIDI 1.0 has it; 244 and 245 are    *)
(* undefined.                                                              *)
IsDataOf(status, data) ==
  /\ IsData(data)
  /\ \/ status \in 128..191 \cup 224..239 \cup {242} /\ Len(data) = 2
     \/ status \in 192..223 \cup {241, 243} /\ Len(data) = 1
     \/ status = 246 /\ Len(data) = 0

IsFramed(s, head, tail) ==
  /\ Len(s) >= 2 /\ s[1] = head /\ s[Len(s)] = tail
  /\ IsData(SubSeq(s, 2, Len(s) - 1))

(* How a command may be written behind a running status: in full, without  *)
(* its status byte, as a system realtime message that counts or one that   *)
(* does not, as a whole SysEx, or as its first or last segment.            *)
IsWritten(c, status) ==
  LET s == c.bytes
  IN  \/ s # <<>> /\ IsDataOf(s[1], Tail(s)) /\ c.midi = s
      \/ s # <<>> /\ status # 0 /\ IsDataOf(status, s) /\ c.midi = s
      \/ Len(s) = 1 /\ s[1] \in {248, 250, 251, 252, 254, 255} /\ c.midi = s
      \/ Len(s) = 1 /\ s[1] \in {249, 253} /\ c.midi = <<>>
      \/ IsFramed(s, 240, 247) /\ c.midi = s
      \/ IsFramed(s, 240, 240) /\ c.midi = Front(s)
      \/ IsFramed(s, 247, 247) /\ c.midi = Tail(s)

(* The running status that the k-th command finds. *)
RunningBefore(entries, k) ==
  LET S == {j \in 1..(k - 1) : entries[j].bytes[1] \in 128..247}
      status == entries[Max(S)].bytes[1]
  IN  IF S # {} /\ status < 240 THEN status ELSE 0

WellFormed(entries) ==
  \A k \in DOMAIN entries :
    /\ IsDelta(entries[k].delta) \/ (k = 1 /\ entries[k].delta = <<>>)
    /\ IsWritten(entries[k], RunningBefore(entries, k))

(* What a command list stands for is handed on in full and in order, and   *)
(* its end is not run past, whatever delta times and running status it is  *)
(* written with: the length that is left comes to zero.  The middle        *)
(* of a SysEx, and the cancellation of one, are not among what it may have *)
(* in it: the code hands them on with the wrong bytes (applemidi.cpp:264,  *)
(* 281).                                                                   *)
CommandsDelivered ==
  pc \in {"rest", "behind"} /\ WellFormed(list) =>
    pc = "rest" /\ delivered = Meant(list)

(* A session is over some time after the last sync packet of its           *)
(* initiator, unless a list keeps the task behind its end for ever; and a  *)
(* half-made one unless packets keep coming on the MIDI port, which keep   *)
(* it from timing out.                                                     *)
SessionEnds ==
  /\ <>[](pc = "behind") \/ []<>(m_State # "Connected" \/ sinceSync = 0)
  /\ []<>(m_State # "MIDIInvitation" \/ midi.kind # "none")
=============================================================================
