------------------------- MODULE MidiDisplayProofs -------------------------
(***************************************************************************)
(* Proofs about what MIDI bytes do to the display.  The parser, for every  *)
(* buffer size: its buffer is well kept, and for every set of bytes        *)
(* without the tune request it implements the MIDI stream, one byte a      *)
(* step.  The MIDI monitor, for any channels and notes, any release time   *)
(* and whatever is played and sent: its meters follow the keys, and core 1 *)
(* ends no envelope before its time.  The user interface, for any texts,   *)
(* times and calls: what is drawn lies within its text, and stays for its  *)
(* time.                                                                   *)
(***************************************************************************)
EXTENDS MidiDisplay, SequenceTheorems, TLAPS

(* What the small operators do to a parser's members. *)
LEMMA SeqOfFunction ==
  ASSUME NEW S, NEW n \in Nat, NEW f \in [1..n -> S]
  PROVE  f \in Seq(S) /\ Len(f) = n
OBVIOUS

(* A message is a sequence of bytes, as long as the length kept for it. *)
LEMMA MessageType ==
  ASSUME NEW p \in Parser
  PROVE  Message(p) \in Seq(0..255) /\ Len(Message(p)) = p.m_nMessageLength
<1>1. Message(p) \in [1..p.m_nMessageLength -> 0..255]
  BY SMTT(30), BufferAssumption DEF Message, Parser, Slots
<1>2. p.m_nMessageLength \in Nat
  BY BufferAssumption DEF Parser
<1>3. QED
  BY <1>1, <1>2, SeqOfFunction, ZenonT(30)

(* A buffer stays a buffer when a byte is stored in one of its slots. *)
LEMMA BufferUpdate ==
  ASSUME NEW f \in [Slots -> 0..255], NEW i \in Slots, NEW b \in 0..255
  PROVE  [f EXCEPT ![i] = b] \in [Slots -> 0..255]
OBVIOUS

(* A callback changes nothing of the parser but the calls made. *)
LEMMA CallFacts ==
  ASSUME NEW p \in Parser, NEW kind \in Calls, NEW bytes \in Seq(0..255)
  PROVE  /\ Call(p, kind, bytes) \in Parser
         /\ Call(p, kind, bytes).m_State = p.m_State
         /\ Call(p, kind, bytes).m_MessageBuffer = p.m_MessageBuffer
         /\ Call(p, kind, bytes).m_nMessageLength = p.m_nMessageLength
         /\ Call(p, kind, bytes).calls
              = Append(p.calls, [kind |-> kind, bytes |-> bytes])
<1> DEFINE Made == [kind : Calls, bytes : Seq(0..255)]
           all == Append(p.calls, [kind |-> kind, bytes |-> bytes])
<1>1. p.calls \in Seq(Made)
  BY DEF Parser
<1>2. all \in Seq(Made)
  BY <1>1, AppendProperties
<1> HIDE DEF all
<1>3. /\ [p EXCEPT !.calls = all] \in Parser
      /\ [p EXCEPT !.calls = all].m_State = p.m_State
      /\ [p EXCEPT !.calls = all].m_MessageBuffer = p.m_MessageBuffer
      /\ [p EXCEPT !.calls = all].m_nMessageLength = p.m_nMessageLength
      /\ [p EXCEPT !.calls = all].calls = all
  BY <1>2 DEF Parser
<1>4. QED
  BY <1>3 DEF Call, all

(* Storing a byte moves the length by one and stays in the buffer. *)
LEMMA StoreFacts ==
  ASSUME NEW p \in Parser, NEW b \in 0..255,
         p.m_nMessageLength < SysExBufferSize
  PROVE  /\ Store(p, b) \in Parser
         /\ Store(p, b).m_State = p.m_State
         /\ Store(p, b).m_MessageBuffer
              = [p.m_MessageBuffer EXCEPT ![p.m_nMessageLength] = b]
         /\ Store(p, b).m_nMessageLength = p.m_nMessageLength + 1
         /\ Store(p, b).calls = p.calls
<1> DEFINE f == [p.m_MessageBuffer EXCEPT ![p.m_nMessageLength] = b]
           n == p.m_nMessageLength + 1
<1>1. /\ p.m_MessageBuffer \in [Slots -> 0..255]
      /\ p.m_nMessageLength \in 0..SysExBufferSize
  BY DEF Parser
<1>2. p.m_nMessageLength \in Slots /\ n \in 0..SysExBufferSize
  BY <1>1, BufferAssumption DEF Slots
<1>3. f \in [Slots -> 0..255]
  BY <1>1, <1>2, BufferUpdate
<1>4. Store(p, b) = [p EXCEPT !.m_MessageBuffer = f, !.m_nMessageLength = n]
  BY Zenon DEF Store, Parser
<1> HIDE DEF f, n
<1>5. QED
  <2>1. /\ Store(p, b) \in Parser
        /\ Store(p, b).m_State = p.m_State
        /\ Store(p, b).m_MessageBuffer = f
        /\ Store(p, b).m_nMessageLength = n
        /\ Store(p, b).calls = p.calls
    BY ZenonT(40), <1>2, <1>3, <1>4 DEF Parser
  <2>2. QED
    BY <2>1 DEF f, n

(* Clearing the status changes the first byte of the buffer only. *)
LEMMA ClearFacts ==
  ASSUME NEW p \in Parser
  PROVE  /\ ClearStatus(p) \in Parser
         /\ ClearStatus(p).m_State = p.m_State
         /\ ClearStatus(p).m_MessageBuffer = [p.m_MessageBuffer EXCEPT ![0] = 0]
         /\ ClearStatus(p).m_nMessageLength = p.m_nMessageLength
         /\ ClearStatus(p).calls = p.calls
<1> DEFINE f == [p.m_MessageBuffer EXCEPT ![0] = 0]
<1>1. p.m_MessageBuffer \in [Slots -> 0..255] /\ 0 \in Slots /\ 0 \in 0..255
  BY BufferAssumption DEF Parser, Slots
<1>2. f \in [Slots -> 0..255]
  BY <1>1, BufferUpdate
<1>3. ClearStatus(p) = [p EXCEPT !.m_MessageBuffer = f]
  BY DEF ClearStatus, Parser
<1> HIDE DEF f
<1>4. /\ ClearStatus(p) \in Parser
      /\ ClearStatus(p).m_State = p.m_State
      /\ ClearStatus(p).m_MessageBuffer = f
      /\ ClearStatus(p).m_nMessageLength = p.m_nMessageLength
      /\ ClearStatus(p).calls = p.calls
  BY ZenonT(40), <1>2, <1>3 DEF Parser
<1>5. QED
  BY <1>4 DEF f

(* What ResetState does to each member of the parser. *)
LEMMA ResetFacts ==
  ASSUME NEW p \in Parser, NEW clear \in BOOLEAN
  PROVE  /\ ResetState(p, clear) \in Parser
         /\ ResetState(p, clear).m_State = "StatusByte"
         /\ ResetState(p, clear).m_MessageBuffer
              = IF clear THEN [p.m_MessageBuffer EXCEPT ![0] = 0]
                ELSE p.m_MessageBuffer
         /\ ResetState(p, clear).m_nMessageLength = 0
         /\ ResetState(p, clear).calls = p.calls
<1> DEFINE c == IF clear THEN ClearStatus(p) ELSE p
<1>1. /\ c \in Parser
      /\ c.m_MessageBuffer = IF clear THEN [p.m_MessageBuffer EXCEPT ![0] = 0]
                             ELSE p.m_MessageBuffer
      /\ c.calls = p.calls
  BY ClearFacts
<1>2. ResetState(p, clear) = [c EXCEPT !.m_nMessageLength = 0,
                                       !.m_State = "StatusByte"]
  BY DEF ResetState
<1>3. 0 \in 0..SysExBufferSize
  BY BufferAssumption
<1> HIDE DEF c
<1>4. /\ ResetState(p, clear) \in Parser
      /\ ResetState(p, clear).m_State = "StatusByte"
      /\ ResetState(p, clear).m_MessageBuffer = c.m_MessageBuffer
      /\ ResetState(p, clear).m_nMessageLength = 0
      /\ ResetState(p, clear).calls = c.calls
  <2> DEFINE n == 0
             rest == "StatusByte"
  <2>1. n \in 0..SysExBufferSize /\ rest \in {"StatusByte", "DataByte", "SysExByte"}
    BY <1>3
  <2>2. ResetState(p, clear) = [c EXCEPT !.m_nMessageLength = n, !.m_State = rest]
    BY <1>2
  <2> HIDE DEF n, rest
  <2>3. /\ ResetState(p, clear) \in Parser
        /\ ResetState(p, clear).m_State = rest
        /\ ResetState(p, clear).m_MessageBuffer = c.m_MessageBuffer
        /\ ResetState(p, clear).m_nMessageLength = n
        /\ ResetState(p, clear).calls = c.calls
    BY ZenonT(40), <1>1, <2>1, <2>2 DEF Parser
  <2>4. QED
    BY <2>3 DEF n, rest
<1>5. QED
  BY <1>1, <1>4

(* ResetState(true) leaves no running status. *)
LEMMA ResetClears ==
  ASSUME NEW p \in Parser
  PROVE  /\ ResetState(p, TRUE) \in Parser
         /\ ResetState(p, TRUE).m_State = "StatusByte"
         /\ ResetState(p, TRUE).m_MessageBuffer[0] = 0
         /\ ResetState(p, TRUE).m_nMessageLength = 0
         /\ ResetState(p, TRUE).calls = p.calls
<1>1. /\ ResetState(p, TRUE) \in Parser
      /\ ResetState(p, TRUE).m_State = "StatusByte"
      /\ ResetState(p, TRUE).m_MessageBuffer = [p.m_MessageBuffer EXCEPT ![0] = 0]
      /\ ResetState(p, TRUE).m_nMessageLength = 0
      /\ ResetState(p, TRUE).calls = p.calls
  BY ResetFacts, Zenon
<1>2. p.m_MessageBuffer \in [Slots -> 0..255] /\ 0 \in Slots
  BY BufferAssumption DEF Parser, Slots
<1>3. QED
  BY <1>1, <1>2

(* ResetState(false) leaves the running status. *)
LEMMA ResetKeeps ==
  ASSUME NEW p \in Parser
  PROVE  /\ ResetState(p, FALSE) \in Parser
         /\ ResetState(p, FALSE).m_State = "StatusByte"
         /\ ResetState(p, FALSE).m_MessageBuffer = p.m_MessageBuffer
         /\ ResetState(p, FALSE).m_nMessageLength = 0
         /\ ResetState(p, FALSE).calls = p.calls
BY ResetFacts, Zenon

(* Assigning m_State changes nothing else. *)
LEMMA InState ==
  ASSUME NEW p \in Parser, NEW s \in {"DataByte", "SysExByte"}
  PROVE  /\ [p EXCEPT !.m_State = s] \in Parser
         /\ [p EXCEPT !.m_State = s].m_State = s
         /\ [p EXCEPT !.m_State = s].m_MessageBuffer = p.m_MessageBuffer
         /\ [p EXCEPT !.m_State = s].m_nMessageLength = p.m_nMessageLength
         /\ [p EXCEPT !.m_State = s].calls = p.calls
BY DEF Parser

----------------------------------------------------------------------------
(* The first byte of a message is its status. *)
LEMMA StoreFirst ==
  ASSUME NEW p \in Parser, NEW b \in 0..255, p.m_nMessageLength = 0
  PROVE  /\ Store(p, b) \in Parser
         /\ Store(p, b).m_State = p.m_State
         /\ Store(p, b).m_MessageBuffer[0] = b
         /\ Store(p, b).m_nMessageLength = 1
         /\ Store(p, b).calls = p.calls
<1>1. p.m_nMessageLength < SysExBufferSize
  BY BufferAssumption
<1>2. p.m_MessageBuffer \in [Slots -> 0..255] /\ 0 \in Slots
  BY BufferAssumption DEF Parser, Slots
<1>3. [p.m_MessageBuffer EXCEPT ![0] = b][0] = b
  BY <1>2
<1>4. /\ Store(p, b) \in Parser
      /\ Store(p, b).m_State = p.m_State
      /\ Store(p, b).m_MessageBuffer
           = [p.m_MessageBuffer EXCEPT ![p.m_nMessageLength] = b]
      /\ Store(p, b).m_nMessageLength = p.m_nMessageLength + 1
      /\ Store(p, b).calls = p.calls
  BY <1>1, StoreFacts
<1>5. QED
  BY <1>3, <1>4

(* Every function of the parser keeps its buffer well. *)
LEMMA ParseStatusKept ==
  ASSUME NEW p \in Parser, p.m_State = "StatusByte", Kept(p),
         NEW b \in 128..247, b # TuneRequest
  PROVE  ParseStatus(p, b) \in Parser /\ Kept(ParseStatus(p, b))
<1>1. /\ p.m_nMessageLength = 0 /\ p.m_nMessageLength < SysExBufferSize
      /\ p.m_MessageBuffer \in [Slots -> 0..255] /\ 0 \in Slots /\ b \in 0..255
  BY BufferAssumption DEF Kept, Parser, Slots
<1>2. CASE b \in {244, 245, 247}
  <2>1. ParseStatus(p, b) = ClearStatus(p)
    BY <1>2 DEF ParseStatus
  <2>2. /\ ClearStatus(p) \in Parser /\ ClearStatus(p).m_State = "StatusByte"
        /\ ClearStatus(p).m_nMessageLength = 0
        /\ ClearStatus(p).m_MessageBuffer = [p.m_MessageBuffer EXCEPT ![0] = 0]
    BY <1>1, ClearFacts
  <2>3. ClearStatus(p).m_MessageBuffer[0] = 0
    BY <1>1, <2>2
  <2>4. QED
    BY <2>1, <2>2, <2>3 DEF Kept
<1>3. CASE b = 240
  <2> DEFINE q == [p EXCEPT !.m_State = "SysExByte"]
  <2>1. ParseStatus(p, b) = Store(q, b)
    BY <1>3 DEF ParseStatus
  <2>2. /\ q \in Parser /\ q.m_State = "SysExByte"
        /\ q.m_MessageBuffer = p.m_MessageBuffer /\ q.m_nMessageLength = 0
    BY <1>1, InState
  <2> HIDE DEF q
  <2>3. /\ Store(q, b) \in Parser /\ Store(q, b).m_State = "SysExByte"
        /\ Store(q, b).m_MessageBuffer[0] = b
        /\ Store(q, b).m_nMessageLength = 1
    BY <1>1, <2>2, StoreFirst
  <2>4. QED
    BY <1>3, <2>1, <2>3, BufferAssumption DEF Kept
<1>4. CASE b \notin {240, 244, 245, 247}
  <2> DEFINE q == [p EXCEPT !.m_State = "DataByte"]
  <2>1. ParseStatus(p, b) = Store(q, b)
    BY <1>4 DEF ParseStatus, TuneRequest
  <2>2. /\ q \in Parser /\ q.m_State = "DataByte"
        /\ q.m_MessageBuffer = p.m_MessageBuffer /\ q.m_nMessageLength = 0
    BY <1>1, InState
  <2> HIDE DEF q
  <2>3. /\ Store(q, b) \in Parser /\ Store(q, b).m_State = "DataByte"
        /\ Store(q, b).m_MessageBuffer[0] = b
        /\ Store(q, b).m_nMessageLength = 1
    BY <1>1, <2>2, StoreFirst
  <2>4. b \in ChannelStatus \cup 241..243
    BY <1>4 DEF ChannelStatus, TuneRequest
  <2>5. QED
    BY <2>1, <2>3, <2>4 DEF Kept
<1>5. QED
  BY <1>2, <1>3, <1>4

(* A message that may be complete: what CheckCompleteShortMessage leaves. *)
LEMMA CheckKept ==
  ASSUME NEW p \in Parser, NEW ignore \in BOOLEAN,
         p.m_MessageBuffer[0] \in ChannelStatus \cup 241..243,
         p.m_nMessageLength \in {2, 3},
         p.m_State \in {"StatusByte", "DataByte"},
         p.m_nMessageLength = 3 => ~TwoByteMessage(p.m_MessageBuffer[0]),
         ~Complete(p) => p.m_State = "DataByte" /\ ~IsStatus(p.m_MessageBuffer[1])
  PROVE  LET q == CheckCompleteShortMessage(p, ignore)
         IN  q \in Parser /\ Kept(q)
<1> DEFINE s == p.m_MessageBuffer[0]
           q == IF ignore /\ s \in 144..159 THEN p
                ELSE Call(p, "short", Message(p))
<1>1. /\ q \in Parser
      /\ q.m_MessageBuffer = p.m_MessageBuffer
  <2>1. Message(p) \in Seq(0..255) /\ "short" \in Calls
    BY MessageType DEF Calls
  <2>2. QED
    BY <2>1, CallFacts
<1>2. CASE Complete(p) /\ s \in 241..247
  <2> DEFINE r == ResetState(q, TRUE)
  <2>1. CheckCompleteShortMessage(p, ignore) = r
    BY <1>2 DEF CheckCompleteShortMessage, ResetState
  <2> HIDE DEF q
  <2>2. /\ r \in Parser /\ r.m_State = "StatusByte"
        /\ r.m_MessageBuffer[0] = 0 /\ r.m_nMessageLength = 0
    BY <1>1, ResetClears
  <2> HIDE DEF r
  <2>3. QED
    BY <2>1, <2>2 DEF Kept
<1>5. CASE Complete(p) /\ s \notin 241..247
  <2> DEFINE r == ResetState(q, FALSE)
  <2>1. CheckCompleteShortMessage(p, ignore) = r
    BY <1>5 DEF CheckCompleteShortMessage, ResetState
  <2> HIDE DEF q
  <2>2. s \in ChannelStatus
    BY <1>5
  <2>3. /\ r \in Parser /\ r.m_State = "StatusByte"
        /\ r.m_MessageBuffer[0] = s /\ r.m_nMessageLength = 0
    BY <1>1, ResetKeeps
  <2> HIDE DEF r, s
  <2>4. QED
    BY <2>1, <2>2, <2>3 DEF Kept
<1>3. CASE ~Complete(p)
  <2>1. CheckCompleteShortMessage(p, ignore) = p
    BY <1>3 DEF CheckCompleteShortMessage
  <2>2. p.m_nMessageLength = 2 /\ ~TwoByteMessage(s)
    BY <1>3 DEF Complete
  <2>3. QED
    BY <1>3, <2>1, <2>2 DEF Kept
<1>4. QED
  BY <1>2, <1>3, <1>5

(* A data byte between messages keeps the buffer well. *)
LEMMA ParseRunningKept ==
  ASSUME NEW p \in Parser, p.m_State = "StatusByte", Kept(p), NEW b \in 0..127
  PROVE  ParseRunningStatus(p, b) \in Parser /\ Kept(ParseRunningStatus(p, b))
<1> DEFINE f == [p.m_MessageBuffer EXCEPT ![1] = b]
           q == [p EXCEPT !.m_MessageBuffer[1] = b, !.m_nMessageLength = 2]
           s == p.m_MessageBuffer[0]
<1>1. /\ p.m_MessageBuffer \in [Slots -> 0..255]
      /\ 0 \in Slots /\ 1 \in Slots /\ b \in 0..255
      /\ 2 \in 0..SysExBufferSize
  BY BufferAssumption DEF Parser, Slots
<1>2. f \in [Slots -> 0..255] /\ f[1] = b /\ f[0] = s
  <2>1. f \in [Slots -> 0..255]
    BY <1>1, BufferUpdate
  <2>2. f[1] = b /\ f[0] = s
    BY <1>1
  <2>3. QED
    BY <2>1, <2>2
<1>3. q = [p EXCEPT !.m_MessageBuffer = f, !.m_nMessageLength = 2]
  BY Zenon DEF Parser
<1>4. q \in Parser /\ q.m_State = "StatusByte" /\ q.m_MessageBuffer = f
      /\ q.m_nMessageLength = 2
  <2> DEFINE n == 2
  <2>1. n \in 0..SysExBufferSize
    BY <1>1
  <2>2. q = [p EXCEPT !.m_MessageBuffer = f, !.m_nMessageLength = n]
    BY <1>3
  <2> HIDE DEF f, n, q
  <2>3. /\ q \in Parser /\ q.m_State = p.m_State /\ q.m_MessageBuffer = f
        /\ q.m_nMessageLength = n
    BY <1>2, <2>1, <2>2 DEF Parser
  <2>4. QED
    BY <2>3 DEF n
<1>5. CASE s = 0
  BY <1>5 DEF ParseRunningStatus
<1>6. CASE s # 0 /\ Complete(q)
  <2>1. ParseRunningStatus(p, b) = CheckCompleteShortMessage(q, FALSE)
    BY <1>6 DEF ParseRunningStatus
  <2> DEFINE ignore == FALSE
  <2>2. s \in ChannelStatus
    BY <1>6 DEF Kept
  <2>3. ParseRunningStatus(p, b) = CheckCompleteShortMessage(q, ignore)
        /\ ignore \in BOOLEAN
    BY <2>1, Zenon
  <2> HIDE DEF q, f, ignore
  <2>4. QED
    BY <1>2, <1>4, <1>6, <2>2, <2>3, CheckKept
<1>7. CASE s # 0 /\ ~Complete(q)
  <2> DEFINE r == [q EXCEPT !.m_State = "DataByte"]
  <2>1. ParseRunningStatus(p, b) = r
    BY <1>7 DEF ParseRunningStatus
  <2>2. s \in ChannelStatus /\ ~IsStatus(b)
    BY <1>7 DEF Kept, IsStatus
  <2>3. ~TwoByteMessage(s)
    BY <1>2, <1>4, <1>7 DEF Complete
  <2> HIDE DEF q
  <2>4. /\ r \in Parser /\ r.m_State = "DataByte" /\ r.m_MessageBuffer = f
        /\ r.m_nMessageLength = 2
    BY <1>4, InState
  <2> HIDE DEF r, f
  <2>5. QED
    BY <1>2, <2>1, <2>2, <2>3, <2>4 DEF Kept
<1>8. QED
  BY <1>5, <1>6, <1>7

(* ParseStatusByte keeps the buffer well. *)
LEMMA ParseStatusByteKept ==
  ASSUME NEW p \in Parser, p.m_State = "StatusByte", Kept(p),
         NEW b \in 0..247, b # TuneRequest
  PROVE  ParseStatusByte(p, b) \in Parser /\ Kept(ParseStatusByte(p, b))
<1>1. CASE IsStatus(b)
  <2>1. b \in 128..247
    BY <1>1 DEF IsStatus
  <2>2. QED
    BY <1>1, <2>1, ParseStatusKept DEF ParseStatusByte
<1>2. CASE ~IsStatus(b)
  <2>1. b \in 0..127
    BY <1>2 DEF IsStatus
  <2>2. QED
    BY <1>2, <2>1, ParseRunningKept DEF ParseStatusByte
<1>3. QED
  BY <1>1, <1>2

(* Dropping a message and starting over keeps the buffer well. *)
LEMMA RestartKept ==
  ASSUME NEW p \in Parser, NEW kind \in Calls, NEW b \in 0..247,
         b # TuneRequest
  PROVE  Restart(p, kind, b) \in Parser /\ Kept(Restart(p, kind, b))
<1> DEFINE c == Call(p, kind, <<>>)
           r == ResetState(c, TRUE)
<1>1. c \in Parser
  <2>1. <<>> \in Seq(0..255)
    OBVIOUS
  <2>2. QED
    BY <2>1, CallFacts
<1>2. Restart(p, kind, b) = ParseStatusByte(r, b)
  BY DEF Restart
<1> HIDE DEF c
<1>3. /\ r \in Parser /\ r.m_State = "StatusByte"
      /\ r.m_MessageBuffer[0] = 0 /\ r.m_nMessageLength = 0
  BY <1>1, ResetClears
<1> HIDE DEF r
<1>4. Kept(r)
  BY <1>3 DEF Kept
<1>5. QED
  BY <1>2, <1>3, <1>4, ParseStatusByteKept

(* A byte in the DataByte state keeps the buffer well. *)
LEMMA ParseDataKept ==
  ASSUME NEW p \in Parser, p.m_State = "DataByte", Kept(p),
         NEW b \in 0..247, b # TuneRequest, NEW ignore \in BOOLEAN
  PROVE  LET q == ParseDataByte(p, b, ignore) IN q \in Parser /\ Kept(q)
<1>1. CASE IsStatus(b)
  BY <1>1, RestartKept DEF ParseDataByte, Calls
<1>2. CASE ~IsStatus(b)
  <2> DEFINE q == Store(p, b)
             n == p.m_nMessageLength
             s == p.m_MessageBuffer[0]
  <2>1. ParseDataByte(p, b, ignore) = CheckCompleteShortMessage(q, ignore)
    BY <1>2 DEF ParseDataByte
  <2>2. /\ n \in {1, 2} /\ n < SysExBufferSize /\ n \in Slots /\ 0 \in Slots
        /\ p.m_MessageBuffer \in [Slots -> 0..255]
        /\ s \in ChannelStatus \cup 241..243
        /\ n = 2 => ~TwoByteMessage(s)
    BY BufferAssumption DEF Kept, Parser, Slots
  <2>3. /\ q \in Parser /\ q.m_State = "DataByte"
        /\ q.m_MessageBuffer = [p.m_MessageBuffer EXCEPT ![n] = b]
        /\ q.m_nMessageLength = n + 1
    <3>1. b \in 0..255
      OBVIOUS
    <3>2. QED
      BY <2>2, <3>1, StoreFacts
  <2>4. q.m_MessageBuffer[0] = s /\ (n = 1 => q.m_MessageBuffer[1] = b)
    BY <2>2, <2>3
  <2>5. ~Complete(q) => n = 1
    BY <2>2, <2>3 DEF Complete
  <2> HIDE DEF q
  <2>6. QED
    BY <1>2, <2>1, <2>2, <2>3, <2>4, <2>5, CheckKept
<1>3. QED
  BY <1>1, <1>2

(* A byte in the SysExByte state keeps the buffer well. *)
LEMMA ParseSysExKept ==
  ASSUME NEW p \in Parser, p.m_State = "SysExByte", Kept(p),
         NEW b \in 0..247, b # TuneRequest
  PROVE  ParseSysExByte(p, b) \in Parser /\ Kept(ParseSysExByte(p, b))
<1>1. CASE IsStatus(b) /\ b # 247
  BY SMTT(30), <1>1, RestartKept DEF ParseSysExByte, Calls
<1>2. CASE ~(IsStatus(b) /\ b # 247) /\ Overflowing(p)
  BY SMTT(30), <1>2, RestartKept DEF ParseSysExByte, Calls
<1>3. CASE ~(IsStatus(b) /\ b # 247) /\ ~Overflowing(p)
  <2> DEFINE q == Store(p, b)
             n == p.m_nMessageLength
  <2>1. /\ n \in 1..(SysExBufferSize - 1) /\ n < SysExBufferSize
        /\ n \in Slots /\ 0 \in Slots
        /\ p.m_MessageBuffer \in [Slots -> 0..255]
        /\ p.m_MessageBuffer[0] = 240
    BY <1>3, BufferAssumption DEF Kept, Parser, Slots, Overflowing
  <2>2. /\ q \in Parser /\ q.m_State = "SysExByte"
        /\ q.m_MessageBuffer = [p.m_MessageBuffer EXCEPT ![n] = b]
        /\ q.m_nMessageLength = n + 1
    <3>1. b \in 0..255 /\ p.m_nMessageLength < SysExBufferSize
      BY <2>1
    <3>2. QED
      BY <3>1, StoreFacts
  <2>3. CASE b = 247
    <3> DEFINE c == Call(q, "sysex", Message(q))
               r == ResetState(c, TRUE)
    <3>1. ParseSysExByte(p, b) = r
      BY <1>3, <2>3 DEF ParseSysExByte
    <3> HIDE DEF q
    <3>2. c \in Parser
      BY <2>2, MessageType, CallFacts DEF Calls
    <3> HIDE DEF c
    <3>3. /\ r \in Parser /\ r.m_State = "StatusByte"
          /\ r.m_MessageBuffer[0] = 0 /\ r.m_nMessageLength = 0
      BY <3>2, ResetClears
    <3> HIDE DEF r
    <3>4. QED
      BY <3>1, <3>3 DEF Kept
  <2>4. CASE b # 247
    <3>1. ParseSysExByte(p, b) = q /\ ~IsStatus(b)
      BY <1>3, <2>4 DEF ParseSysExByte
    <3>2. q.m_MessageBuffer[0] = 240 /\ q.m_MessageBuffer[n] = b
      BY <2>1, <2>2
    <3>3. ASSUME NEW i \in 1..n
          PROVE  ~IsStatus(q.m_MessageBuffer[i])
      <4>1. CASE i = n
        BY <3>1, <3>2, <4>1
      <4>2. CASE i # n
        <5>1. i \in 1..(n - 1) /\ i \in Slots
          BY <2>1, <4>2, BufferAssumption DEF Slots
        <5>2. q.m_MessageBuffer[i] = p.m_MessageBuffer[i]
          BY <2>1, <2>2, <4>2, <5>1
        <5>3. QED
          BY <5>1, <5>2 DEF Kept
      <4>3. QED
        BY <4>1, <4>2
    <3>4. q.m_nMessageLength \in 1..SysExBufferSize
          /\ 1..(q.m_nMessageLength - 1) = 1..n
      BY <2>1, <2>2, BufferAssumption
    <3> HIDE DEF q, n
    <3>5. QED
      BY <2>2, <3>1, <3>2, <3>3, <3>4 DEF Kept
  <2>5. QED
    BY <2>3, <2>4
<1>4. QED
  BY <1>1, <1>2, <1>3

(* Any byte keeps the buffer well. *)
LEMMA ParseByteKept ==
  ASSUME NEW p \in Parser, Kept(p), NEW b \in 0..255, b # TuneRequest,
         NEW ignore \in BOOLEAN
  PROVE  LET q == ParseByte(p, b, ignore) IN q \in Parser /\ Kept(q)
<1>1. CASE b >= 248
  <2>1. <<b>> \in Seq(0..255) /\ "short" \in Calls
    BY DEF Calls
  <2> DEFINE c == Call(p, "short", <<b>>)
  <2>2. /\ c \in Parser /\ c.m_State = p.m_State
        /\ c.m_MessageBuffer = p.m_MessageBuffer
        /\ c.m_nMessageLength = p.m_nMessageLength
    BY <2>1, CallFacts
  <2>3. ParseByte(p, b, ignore) \in {p, c}
    BY <1>1 DEF ParseByte
  <2> HIDE DEF c
  <2>4. Kept(c)
    BY <2>2 DEF Kept
  <2>5. QED
    BY <2>2, <2>3, <2>4
<1>2. CASE b < 248
  <2>1. b \in 0..247 /\ ~(b >= 248)
    BY <1>2
  <2>2. CASE p.m_State = "StatusByte"
    BY <2>1, <2>2, ParseStatusByteKept DEF ParseByte
  <2>3. CASE p.m_State = "DataByte"
    <3>1. ParseByte(p, b, ignore) = ParseDataByte(p, b, ignore)
      BY <2>1, <2>3 DEF ParseByte
    <3>2. QED
      BY <2>1, <2>3, <3>1, ParseDataKept, Zenon
  <2>4. CASE p.m_State = "SysExByte"
    BY <2>1, <2>4, ParseSysExKept DEF ParseByte
  <2>5. QED
    BY <2>2, <2>3, <2>4 DEF Parser
<1>3. QED
  BY <1>1, <1>2

----------------------------------------------------------------------------
(* The constructor leaves the buffer well kept. *)
LEMMA KeptInit == Init => TypeOK /\ BufferInv
<1> SUFFICES ASSUME Init PROVE TypeOK /\ BufferInv
  OBVIOUS
<1> DEFINE f == [i \in Slots |-> 0]
           n == 0
           none == <<>>
<1>1. parser = [m_State |-> "StatusByte", m_MessageBuffer |-> f,
                m_nMessageLength |-> n, calls |-> none]
  BY DEF Init
<1>2. f \in [Slots -> 0..255] /\ f[0] = 0 /\ n \in 0..SysExBufferSize
  BY BufferAssumption DEF Slots
<1>3. none \in Seq([kind : Calls, bytes : Seq(0..255)])
  OBVIOUS
<1> HIDE DEF f, none
<1>4. parser \in Parser
  <2> HIDE DEF n
  <2>1. QED
    BY <1>1, <1>2, <1>3 DEF Parser
<1>5. QED
  BY <1>1, <1>2, <1>4 DEF TypeOK, BufferInv, Kept

(* Every turn of ParseMIDIBytes keeps the buffer well. *)
LEMMA KeptStep ==
  ASSUME TuneRequest \notin Byte, TypeOK, BufferInv, [Next]_parser
  PROVE  TypeOK' /\ BufferInv'
<1>1. CASE UNCHANGED parser
  BY <1>1 DEF TypeOK, BufferInv
<1>2. ASSUME NEW b \in Byte, NEW ignore \in BOOLEAN, ParseMIDIByte(b, ignore)
      PROVE  TypeOK' /\ BufferInv'
  <2> DEFINE none == <<>>
             p == [parser EXCEPT !.calls = none]
             q == ParseByte(p, b, ignore)
  <2>1. parser' = q
    BY <1>2 DEF ParseMIDIByte
  <2>2. /\ p \in Parser /\ p.m_State = parser.m_State
        /\ p.m_MessageBuffer = parser.m_MessageBuffer
        /\ p.m_nMessageLength = parser.m_nMessageLength
    <3>1. none \in Seq([kind : Calls, bytes : Seq(0..255)])
      OBVIOUS
    <3> HIDE DEF none
    <3>2. QED
      BY <3>1 DEF TypeOK, Parser
  <2> HIDE DEF p
  <2>3. Kept(p)
    BY <2>2 DEF BufferInv, Kept
  <2>4. b \in 0..255 /\ b # TuneRequest
    BY ByteAssumption
  <2>5. q \in Parser /\ Kept(q)
    BY <2>2, <2>3, <2>4, ParseByteKept, Zenon
  <2> HIDE DEF q
  <2>6. QED
    BY <2>1, <2>5 DEF TypeOK, BufferInv
<1>3. QED
  BY <1>1, <1>2 DEF Next

(* As long as no tune request arrives, the parser's buffer holds at every  *)
(* byte what its state says, and its length never leaves the buffer.       *)
THEOREM BufferKept ==
  ASSUME TuneRequest \notin Byte
  PROVE  Spec => [](TypeOK /\ BufferInv)
BY KeptInit, KeptStep, PTL DEF Spec

----------------------------------------------------------------------------
(* The parser implements the MIDI stream. *)

(* The data bytes of the message in the buffer. *)
Data(p) == [k \in 1..(p.m_nMessageLength - 1) |-> p.m_MessageBuffer[k]]

(* The state of the stream that the parser is in: between two messages,    *)
(* with at most a status in effect, or within one, with its data so far.   *)
Between(q, s, c) ==
  q.m_State = "StatusByte" /\ q.m_MessageBuffer[0] = s /\ q.calls = c
Within(q, s, a, c) ==
  /\ q.m_State # "StatusByte" /\ q.m_MessageBuffer[0] = s
  /\ Tail(Message(q)) = a /\ q.calls = c

(* A sequence is its head before its tail. *)
LEMMA HeadTailJoined ==
  ASSUME NEW S, NEW s \in Seq(S), s # <<>>
  PROVE  s = <<Head(s)>> \o Tail(s)
<1> DEFINE h == <<Head(s)>>
           t == Tail(s)
           j == h \o t
<1>1. Len(s) \in Nat /\ Len(s) >= 1
  OBVIOUS
<1>2. h \in Seq(S) /\ Len(h) = 1 /\ h[1] = s[1]
  BY <1>1
<1>3. t \in Seq(S) /\ Len(t) = Len(s) - 1
  BY <1>1
<1>4. \A k \in 1..Len(t) : t[k] = s[k + 1]
  BY <1>1
<1> HIDE DEF h, t
<1>5. j \in Seq(S) /\ Len(j) = Len(h) + Len(t)
      /\ \A k \in 1..(Len(h) + Len(t)) :
           j[k] = IF k <= Len(h) THEN h[k] ELSE t[k - Len(h)]
  BY <1>2, <1>3, ConcatProperties
<1> HIDE DEF j
<1>6. j \in Seq(S) /\ Len(j) = Len(s)
  BY <1>1, <1>2, <1>3, <1>5
<1>7. ASSUME NEW k \in 1..Len(s) PROVE j[k] = s[k]
  <2>1. CASE k = 1
    BY <1>1, <1>2, <1>3, <1>5, <2>1
  <2>2. CASE k # 1
    <3>1. j[k] = t[k - 1] /\ k - 1 \in 1..Len(t) /\ (k - 1) + 1 = k
      BY <1>1, <1>2, <1>3, <1>5, <2>2
    <3>2. QED
      BY <1>4, <3>1
  <2>3. QED
    BY <2>1, <2>2
<1>8. j = s
  BY <1>6, <1>7, SeqEqual
<1>9. QED
  BY <1>8 DEF h, t, j

(* The data are bytes, one fewer than the message has. *)
LEMMA DataType ==
  ASSUME NEW p \in Parser, p.m_nMessageLength >= 1
  PROVE  /\ Data(p) \in Seq(0..255) /\ Len(Data(p)) = p.m_nMessageLength - 1
         /\ \A k \in 1..(p.m_nMessageLength - 1) :
              Data(p)[k] = p.m_MessageBuffer[k]
<1> DEFINE n == p.m_nMessageLength - 1
           f == p.m_MessageBuffer
           d == Data(p)
<1>1. n \in Nat /\ \A k \in 1..n : f[k] \in 0..255
  <2>1. n \in Nat /\ \A k \in 1..n : k \in Slots
    BY BufferAssumption DEF Parser, Slots
  <2>2. f \in [Slots -> 0..255]
    BY DEF Parser
  <2>3. QED
    BY <2>1, <2>2
<1>2. d = [k \in 1..n |-> f[k]]
  BY Zenon DEF Data
<1> HIDE DEF n, f, d
<1>3. d \in [1..n -> 0..255] /\ \A k \in 1..n : d[k] = f[k]
  BY <1>1, <1>2
<1> DEFINE bytes == 0..255
<1>4. d \in [1..n -> bytes]
  BY <1>3
<1> HIDE DEF bytes
<1>5. d \in Seq(bytes) /\ Len(d) = n
  BY <1>1, <1>4, SeqOfFunction, Zenon
<1>6. QED
  BY <1>3, <1>5 DEF n, f, d, bytes

(* A message is its status and its data. *)
LEMMA MessageParts ==
  ASSUME NEW p \in Parser, p.m_nMessageLength >= 1
  PROVE  /\ Tail(Message(p)) = Data(p)
         /\ Message(p) = <<p.m_MessageBuffer[0]>> \o Data(p)
<1> DEFINE n == p.m_nMessageLength
           f == p.m_MessageBuffer
           d == Data(p)
           m == Message(p)
<1>1. n \in Nat /\ n >= 1
  BY BufferAssumption DEF Parser
<1>2. m \in Seq(0..255) /\ Len(m) = n
  BY MessageType
<1>3. \A k \in 1..n : m[k] = f[k - 1]
  BY DEF Message
<1>4. d \in Seq(0..255) /\ Len(d) = n - 1 /\ \A k \in 1..(n - 1) : d[k] = f[k]
  BY DataType
<1> HIDE DEF n, f, d, m
<1> DEFINE t == Tail(m)
<1>6. t = d
  <2>1. t \in Seq(0..255) /\ Len(t) = n - 1
    BY <1>1, <1>2
  <2>2. \A k \in 1..(n - 1) : t[k] = m[k + 1]
    BY <1>1, <1>2
  <2> HIDE DEF t
  <2>3. ASSUME NEW k \in 1..(n - 1) PROVE t[k] = d[k]
    <3>1. k + 1 \in 1..n /\ (k + 1) - 1 = k
      BY <1>1
    <3>2. m[k + 1] = f[k]
      BY <1>3, <3>1
    <3>3. QED
      BY <1>4, <2>2, <3>2
  <2>4. QED
    BY <1>4, <2>1, <2>3, SeqEqual
<1>7. m = <<f[0]>> \o d
  <2>1. m # <<>> /\ Head(m) = m[1] /\ 1 \in 1..n /\ 1 - 1 = 0
    BY <1>1, <1>2
  <2>2. Head(m) = f[0]
    BY <1>3, <2>1
  <2>3. m = <<Head(m)>> \o Tail(m)
    BY <1>2, <2>1, HeadTailJoined
  <2>4. QED
    BY <1>6, <2>2, <2>3, Zenon
<1>8. QED
  BY <1>6, <1>7 DEF n, f, d, m

(* Storing a byte adds it to the data. *)
LEMMA DataStored ==
  ASSUME NEW p \in Parser, NEW b \in 0..255,
         p.m_nMessageLength >= 1, p.m_nMessageLength < SysExBufferSize
  PROVE  /\ Data(Store(p, b)) = Append(Data(p), b)
         /\ Store(p, b).m_MessageBuffer[0] = p.m_MessageBuffer[0]
<1> DEFINE n == p.m_nMessageLength
           f == p.m_MessageBuffer
           q == Store(p, b)
           g == q.m_MessageBuffer
           d == Data(p)
           e == Data(q)
           a == Append(d, b)
<1>1. /\ n \in Nat /\ n >= 1 /\ f \in [Slots -> 0..255]
      /\ 0 \in Slots /\ \A k \in 0..n : k \in Slots
  BY BufferAssumption DEF Parser, Slots
<1>2. /\ q \in Parser /\ g = [f EXCEPT ![n] = b]
      /\ q.m_nMessageLength = n + 1
  BY StoreFacts
<1>3. /\ d \in Seq(0..255) /\ Len(d) = n - 1 /\ \A k \in 1..(n - 1) : d[k] = f[k]
  BY DataType
<1>4. /\ e \in Seq(0..255) /\ Len(e) = n /\ \A k \in 1..n : e[k] = g[k]
  <2> HIDE DEF q
  <2>1. q.m_nMessageLength >= 1
    BY <1>1, <1>2
  <2> DEFINE l == q.m_nMessageLength - 1
  <2>2. e \in Seq(0..255) /\ Len(e) = l /\ \A k \in 1..l : e[k] = g[k]
    BY <1>2, <2>1, DataType
  <2>3. l = n
    BY <1>1, <1>2
  <2> HIDE DEF l, e, g
  <2>4. QED
    BY <2>2, <2>3
<1> HIDE DEF n, f, g, q, d, e
<1>5. /\ a \in Seq(0..255) /\ Len(a) = n /\ a[n] = b
      /\ \A k \in 1..(n - 1) : a[k] = d[k]
  BY <1>1, <1>3
<1> HIDE DEF a
<1>6. ASSUME NEW k \in 1..n PROVE e[k] = a[k]
  <2>1. k \in Slots /\ n \in Slots
    BY <1>1
  <2>2. CASE k = n
    <3>1. g[k] = b
      BY <1>1, <1>2, <2>1, <2>2
    <3>2. QED
      BY <1>4, <1>5, <2>2, <3>1
  <2>3. CASE k # n
    <3>1. k \in 1..(n - 1)
      BY <1>1, <2>3
    <3>2. g[k] = f[k]
      BY <1>1, <1>2, <2>1, <2>3
    <3>3. QED
      BY <1>3, <1>4, <1>5, <3>1, <3>2
  <2>4. QED
    BY <2>2, <2>3
<1>7. e = a
  BY <1>4, <1>5, <1>6, SeqEqual
<1>8. g[0] = f[0]
  <2>1. n \in Slots /\ n # 0
    BY <1>1
  <2>2. QED
    BY <1>1, <1>2, <2>1
<1>9. QED
  BY <1>7, <1>8 DEF n, f, g, q, d, e, a

(* A message is in progress, and has room for a byte. *)
Octet == 0..255
HasRoom(p) == /\ p.m_State # "StatusByte" /\ p.m_nMessageLength >= 1
              /\ p.m_nMessageLength < SysExBufferSize

(* A message begun or resumed shows its data. *)
LEMMA WithinShown ==
  ASSUME NEW q \in Parser, q.m_State # "StatusByte", q.m_nMessageLength >= 1
  PROVE  Within(q, q.m_MessageBuffer[0], Data(q), q.calls)
<1>1. Tail(Message(q)) = Data(q)
  BY MessageParts
<1>2. QED
  BY <1>1 DEF Within

(* The first byte of a message leaves it without data. *)
LEMMA BegunShown ==
  ASSUME NEW p \in Parser, NEW b \in 0..255, p.m_nMessageLength = 0,
         p.m_State # "StatusByte"
  PROVE  Within(Store(p, b), b, <<>>, p.calls)
<1> DEFINE q == Store(p, b)
           d == Data(q)
<1>1. /\ q \in Parser /\ q.m_State = p.m_State /\ q.m_MessageBuffer[0] = b
      /\ q.m_nMessageLength = 1 /\ q.calls = p.calls
  BY StoreFirst, ZenonT(30)
<1>2. q.m_nMessageLength >= 1 /\ q.m_State # "StatusByte"
  BY <1>1
<1> HIDE DEF q
<1>3. d = <<>>
  <2>1. d \in Seq(0..255) /\ Len(d) = q.m_nMessageLength - 1
    BY <1>1, <1>2, DataType
  <2> HIDE DEF d
  <2>2. QED
    BY <1>1, <2>1
<1>4. Within(q, q.m_MessageBuffer[0], d, q.calls)
  BY <1>1, <1>2, WithinShown
<1> HIDE DEF d
<1>5. QED
  BY <1>1, <1>3, <1>4, Zenon DEF q

(* Between messages, and what a status byte leaves then. *)
AtRest(p) == p.m_State = "StatusByte" /\ p.m_nMessageLength = 0
StatusBytes == 128..247 \ {TuneRequest}
StatusLeft(q, b, c) ==
  IF b \in 244..247 THEN Between(q, 0, c) ELSE Within(q, b, <<>>, c)

(* A status byte, with no message in progress. *)
LEMMA StatusShown ==
  ASSUME NEW p \in Parser, AtRest(p), NEW b \in StatusBytes
  PROVE  StatusLeft(ParseStatus(p, b), b, p.calls)
<1>0. p.m_State = "StatusByte" /\ p.m_nMessageLength = 0
      /\ b \in 128..247 /\ b # TuneRequest
  BY DEF AtRest, StatusBytes
<1>1. CASE b \in {244, 245, 247}
  <2> DEFINE q == ClearStatus(p)
  <2>1. ParseStatus(p, b) = q
    BY <1>1 DEF ParseStatus
  <2>2. /\ q.m_State = "StatusByte" /\ q.calls = p.calls
        /\ q.m_MessageBuffer = [p.m_MessageBuffer EXCEPT ![0] = 0]
    BY <1>0, ClearFacts
  <2>3. p.m_MessageBuffer \in [Slots -> 0..255] /\ 0 \in Slots
    BY BufferAssumption DEF Parser, Slots
  <2> HIDE DEF q
  <2>4. q.m_MessageBuffer[0] = 0
    BY <2>2, <2>3
  <2>5. Between(q, 0, p.calls)
    BY <2>2, <2>4 DEF Between
  <2>6. b \in 244..247
    BY <1>1
  <2>7. QED
    BY <2>1, <2>5, <2>6 DEF StatusLeft
<1>2. CASE b \notin {244, 245, 247}
  <2>1. b \notin 244..247 /\ b \in 0..255
    BY <1>0, <1>2 DEF TuneRequest
  <2>2. PICK s \in {"DataByte", "SysExByte"} :
          ParseStatus(p, b) = Store([p EXCEPT !.m_State = s], b)
    BY <1>0, <1>2 DEF ParseStatus, TuneRequest
  <2> DEFINE r == [p EXCEPT !.m_State = s]
  <2>3. r \in Parser /\ r.m_State = s /\ r.m_nMessageLength = 0 /\ r.calls = p.calls
    BY <1>0, InState
  <2>4. ParseStatus(p, b) = Store(r, b) /\ r.m_State # "StatusByte"
    BY <2>2, <2>3
  <2> HIDE DEF r
  <2>5. Within(Store(r, b), b, <<>>, r.calls)
    <3>1. r \in Parser /\ r.m_nMessageLength = 0 /\ r.m_State # "StatusByte"
      BY <2>3, <2>4
    <3>2. b \in 0..255
      BY <2>1
    <3>3. QED
      BY <3>1, <3>2, BegunShown
  <2>6. Within(ParseStatus(p, b), b, <<>>, p.calls)
    BY <2>3, <2>4, <2>5, Zenon
  <2>7. QED
    BY <2>1, <2>6 DEF StatusLeft
<1>3. QED
  BY <1>1, <1>2

(* The callback of a short message, none for a Note On that is dropped. *)
ShortCall(s, data, ignore) ==
  IF s \in 144..159 /\ ignore THEN <<>>
  ELSE <<[kind |-> "short", bytes |-> <<s>> \o data]>>

(* The status that runs on after a message. *)
StatusAfter(s) == IF s \in 241..247 THEN 0 ELSE s

(* No callback has been made yet. *)
Fresh(p) == p.calls = <<>>

(* The first callback for a byte is the only one so far. *)
LEMMA FirstCall ==
  ASSUME NEW p \in Parser, NEW kind \in Calls, NEW bytes \in Seq(0..255),
         Fresh(p)
  PROVE  Call(p, kind, bytes).calls = <<[kind |-> kind, bytes |-> bytes]>>
<1> DEFINE call == [kind |-> kind, bytes |-> bytes]
<1>1. Call(p, kind, bytes).calls = Append(p.calls, call)
  BY CallFacts
<1> HIDE DEF call
<1>2. Append(<<>>, call) = <<call>>
  OBVIOUS
<1>3. QED
  BY <1>1, <1>2, Zenon DEF call, Fresh

(* A byte stored within a message is one more of its data. *)
LEMMA Stored ==
  ASSUME NEW p \in Parser, NEW b \in Octet, HasRoom(p), Fresh(p)
  PROVE  LET r == Store(p, b)
         IN  /\ r \in Parser /\ r.m_State = p.m_State
             /\ r.m_nMessageLength = p.m_nMessageLength + 1 /\ Fresh(r)
             /\ r.m_MessageBuffer[0] = p.m_MessageBuffer[0]
             /\ Data(r) = Append(Tail(Message(p)), b)
             /\ Within(r, p.m_MessageBuffer[0], Append(Tail(Message(p)), b), <<>>)
<1> DEFINE r == Store(p, b)
           n == p.m_nMessageLength
           d == Append(Tail(Message(p)), b)
<1>1. /\ n \in Nat /\ n >= 1 /\ n < SysExBufferSize /\ b \in 0..255
      /\ p.m_State # "StatusByte"
  BY BufferAssumption DEF HasRoom, Parser, Octet
<1>2. r \in Parser /\ r.m_State = p.m_State /\ r.m_nMessageLength = n + 1
      /\ r.calls = p.calls
  BY <1>1, StoreFacts
<1>3. Data(r) = Append(Data(p), b) /\ r.m_MessageBuffer[0] = p.m_MessageBuffer[0]
  BY <1>1, DataStored
<1>4. Tail(Message(p)) = Data(p)
  BY <1>1, MessageParts
<1>5. Data(r) = d
  BY <1>3, <1>4, Zenon
<1>6. r.m_nMessageLength >= 1 /\ r.m_State # "StatusByte"
  BY <1>1, <1>2
<1> HIDE DEF r, d
<1>7. Within(r, r.m_MessageBuffer[0], Data(r), r.calls)
  BY <1>2, <1>6, WithinShown
<1>8. Within(r, p.m_MessageBuffer[0], d, <<>>) /\ Fresh(r)
  BY <1>2, <1>3, <1>5, <1>7, Zenon DEF Fresh
<1>9. QED
  BY <1>2, <1>3, <1>5, <1>8 DEF r, d

(* A short message that is complete is reported whole, and its status may  *)
(* run on.                                                                 *)
LEMMA CheckShown ==
  ASSUME NEW p \in Parser, NEW ignore \in BOOLEAN, Complete(p), Fresh(p)
  PROVE  LET s == p.m_MessageBuffer[0]
         IN  Between(CheckCompleteShortMessage(p, ignore), StatusAfter(s),
                     ShortCall(s, Data(p), ignore))
<1> DEFINE s == p.m_MessageBuffer[0]
           c == Call(p, "short", Message(p))
           q == IF ignore /\ s \in 144..159 THEN p ELSE c
           d == Data(p)
           short == [kind |-> "short", bytes |-> <<s>> \o d]
<1>1. q \in Parser /\ q.m_MessageBuffer = p.m_MessageBuffer
      /\ q.calls = ShortCall(s, d, ignore)
  <2>1. Message(p) \in Seq(0..255) /\ "short" \in Calls
    BY MessageType DEF Calls
  <2>2. c \in Parser /\ c.m_MessageBuffer = p.m_MessageBuffer
    BY <2>1, CallFacts
  <2>3. c.calls = <<[kind |-> "short", bytes |-> Message(p)]>>
    BY <2>1, FirstCall
  <2>4. Message(p) = <<s>> \o d
    <3>1. p.m_nMessageLength >= 1
      BY DEF Complete
    <3>2. QED
      BY <3>1, MessageParts
  <2>5. c.calls = <<short>>
    BY <2>3, <2>4, Zenon
  <2> HIDE DEF c, short
  <2>6. CASE ignore /\ s \in 144..159
    <3>1. ShortCall(s, d, ignore) = <<>>
      BY <2>6 DEF ShortCall
    <3>2. QED
      BY <2>6, <3>1 DEF Fresh
  <2>7. CASE ~(ignore /\ s \in 144..159)
    <3>1. ShortCall(s, d, ignore) = <<short>>
      BY <2>7 DEF ShortCall, short
    <3>2. q = c
      BY <2>7
    <3>3. QED
      BY <2>2, <2>5, <3>1, <3>2, Zenon
  <2>8. QED
    BY <2>6, <2>7
<1> DEFINE r == CheckCompleteShortMessage(p, ignore)
<1>2. CASE s \in 241..247
  <2>1. r = ResetState(q, TRUE)
    BY <1>2 DEF CheckCompleteShortMessage, ResetState
  <2> HIDE DEF q, r
  <2>2. r.m_State = "StatusByte" /\ r.m_MessageBuffer[0] = 0 /\ r.calls = q.calls
    BY <1>1, <2>1, ResetClears
  <2>3. StatusAfter(s) = 0
    BY <1>2 DEF StatusAfter
  <2> HIDE DEF s, d
  <2>4. Between(r, StatusAfter(s), ShortCall(s, d, ignore))
    BY <1>1, <2>2, <2>3 DEF Between
  <2>5. QED
    BY <2>4 DEF r, s, d
<1>3. CASE s \notin 241..247
  <2>1. r = ResetState(q, FALSE)
    BY <1>3 DEF CheckCompleteShortMessage, ResetState
  <2> HIDE DEF q, r
  <2>2. r.m_State = "StatusByte" /\ r.m_MessageBuffer = q.m_MessageBuffer
        /\ r.calls = q.calls
    BY <1>1, <2>1, ResetKeeps
  <2>3. StatusAfter(s) = s /\ r.m_MessageBuffer[0] = s
    BY <1>1, <1>3, <2>2 DEF StatusAfter
  <2> HIDE DEF s, d
  <2>4. Between(r, StatusAfter(s), ShortCall(s, d, ignore))
    BY <1>1, <2>2, <2>3 DEF Between
  <2>5. QED
    BY <2>4 DEF r, s, d
<1>4. QED
  BY <1>2, <1>3

(* A channel status runs on. *)
LEMMA ChannelRunsOn ==
  ASSUME NEW s \in ChannelStatus
  PROVE  StatusAfter(s) = s
  BY DEF ChannelStatus, StatusAfter

(* A data byte between messages: nothing without a running status, else    *)
(* the first byte of a message with it.                                    *)
LEMMA RunningShown ==
  ASSUME NEW p \in Parser, p.m_State = "StatusByte", Kept(p), Fresh(p),
         NEW b \in 0..127
  PROVE  LET s == p.m_MessageBuffer[0]
             q == ParseRunningStatus(p, b)
         IN  /\ s = 0 => Between(q, s, <<>>)
             /\ s # 0 /\ TwoByteMessage(s) =>
                  Between(q, s, <<[kind |-> "short", bytes |-> <<s>> \o <<b>>]>>)
             /\ s # 0 /\ ~TwoByteMessage(s) => Within(q, s, <<b>>, <<>>)
<1> DEFINE s == p.m_MessageBuffer[0]
           q == ParseRunningStatus(p, b)
           f == [p.m_MessageBuffer EXCEPT ![1] = b]
           n == 2
           r == [p EXCEPT !.m_MessageBuffer[1] = b, !.m_nMessageLength = 2]
<1>1. /\ p.m_MessageBuffer \in [Slots -> 0..255] /\ p.m_nMessageLength = 0
      /\ 0 \in Slots /\ 1 \in Slots /\ b \in 0..255 /\ n \in 0..SysExBufferSize
      /\ s \in {0} \cup ChannelStatus
  BY BufferAssumption DEF Parser, Slots, Kept
<1>2. f \in [Slots -> 0..255] /\ f[1] = b /\ f[0] = s
  <2>1. f \in [Slots -> 0..255]
    BY <1>1, BufferUpdate, ZenonT(30)
  <2>2. f[1] = b /\ f[0] = s
    BY <1>1
  <2>3. QED
    BY <2>1, <2>2
<1>3. r = [p EXCEPT !.m_MessageBuffer = f, !.m_nMessageLength = n]
  BY Zenon DEF Parser
<1>4. r \in Parser /\ r.m_State = p.m_State /\ r.m_MessageBuffer = f
      /\ r.m_nMessageLength = n /\ r.calls = p.calls
  <2>1. f \in [Slots -> 0..255] /\ n \in 0..SysExBufferSize
    BY <1>1, <1>2
  <2> HIDE DEF f, n, r
  <2>2. QED
    BY <1>3, <2>1 DEF Parser
<1>5. r.m_MessageBuffer[0] = s /\ (Complete(r) <=> TwoByteMessage(s))
  BY <1>2, <1>4 DEF Complete
<1>6. Data(r) = <<b>>
  <2> DEFINE d == Data(r)
  <2>1. r.m_nMessageLength >= 1 /\ r.m_nMessageLength - 1 = 1
    BY <1>4
  <2> HIDE DEF r
  <2>2. d \in Seq(0..255) /\ Len(d) = r.m_nMessageLength - 1
        /\ \A k \in 1..(r.m_nMessageLength - 1) : d[k] = r.m_MessageBuffer[k]
    BY <1>4, <2>1, DataType
  <2> HIDE DEF d, f
  <2>3. d \in Seq(0..255) /\ Len(d) = 1 /\ d[1] = b
    BY <1>2, <1>4, <2>1, <2>2
  <2>4. d = <<b>>
    BY <2>3
  <2>5. QED
    BY <2>4 DEF d
<1>7. CASE s = 0
  <2>1. q = p
    BY <1>7 DEF ParseRunningStatus
  <2> HIDE DEF q, s
  <2>2. Between(q, s, <<>>)
    BY <2>1 DEF Between, Fresh, s
  <2>3. QED
    BY <1>7, <2>2 DEF q, s
<1>8. CASE s # 0 /\ TwoByteMessage(s)
  <2> DEFINE ignore == FALSE
             c == ShortCall(s, <<b>>, ignore)
  <2>1. q = CheckCompleteShortMessage(r, ignore) /\ Complete(r)
    BY <1>5, <1>8 DEF ParseRunningStatus
  <2>2. s \in ChannelStatus
    BY <1>1, <1>8
  <2>3. StatusAfter(s) = s
    BY <2>2, ChannelRunsOn
  <2>4. c = <<[kind |-> "short", bytes |-> <<s>> \o <<b>>]>>
    BY Zenon DEF ShortCall
  <2>5. ignore \in BOOLEAN /\ Fresh(r)
    BY <1>4 DEF Fresh
  <2> HIDE DEF ignore, r, q, s
  <2>6. Between(q, StatusAfter(s), ShortCall(s, Data(r), ignore))
    BY <1>4, <1>5, <2>1, <2>5, CheckShown
  <2> HIDE DEF c
  <2>7. Between(q, s, c)
    BY <1>6, <2>3, <2>6, Zenon DEF c
  <2>8. Between(q, s, <<[kind |-> "short", bytes |-> <<s>> \o <<b>>]>>)
    BY <2>4, <2>7, Zenon
  <2>9. QED
    BY <1>8, <2>8, Zenon DEF q, s
<1>9. CASE s # 0 /\ ~TwoByteMessage(s)
  <2> DEFINE t == [r EXCEPT !.m_State = "DataByte"]
  <2>1. q = t
    BY <1>5, <1>9 DEF ParseRunningStatus
  <2> HIDE DEF r, q, s
  <2>2. /\ t \in Parser /\ t.m_State = "DataByte"
        /\ t.m_MessageBuffer = r.m_MessageBuffer
        /\ t.m_nMessageLength = r.m_nMessageLength /\ t.calls = r.calls
    BY <1>4, InState
  <2> HIDE DEF t
  <2>3. Data(t) = Data(r)
    BY <2>2, Zenon DEF Data
  <2>4. Within(t, t.m_MessageBuffer[0], Data(t), t.calls)
    <3>1. t.m_State # "StatusByte" /\ t.m_nMessageLength >= 1
      BY <1>4, <2>2
    <3>2. QED
      BY <2>2, <3>1, WithinShown
  <2>5. t.m_MessageBuffer[0] = s /\ t.calls = <<>>
    BY <1>4, <1>5, <2>2 DEF Fresh
  <2>6. Within(q, s, <<b>>, <<>>)
    BY <1>6, <2>1, <2>3, <2>4, <2>5, Zenon
  <2>7. QED
    BY <1>9, <2>6, Zenon DEF q, s
<1>10. QED
  BY <1>7, <1>8, <1>9

(* Starting over: the callback, and the new byte as if between messages    *)
(* with no status kept.                                                    *)
LEMMA RestartShown ==
  ASSUME NEW p \in Parser, NEW kind \in Calls, Fresh(p),
         NEW b \in 0..247, b # TuneRequest
  PROVE  LET q == Restart(p, kind, b)
             c == <<[kind |-> kind, bytes |-> <<>>]>>
         IN  /\ b \in 0..127 \cup 244..247 => Between(q, 0, c)
             /\ b \in 128..243 => Within(q, b, <<>>, c)
<1> DEFINE none == <<>>
           q == Restart(p, kind, b)
           c == <<[kind |-> kind, bytes |-> none]>>
           d == Call(p, kind, none)
           r == ResetState(d, TRUE)
<1>1. none \in Seq(0..255)
  OBVIOUS
<1>2. q = ParseStatusByte(r, b)
  BY DEF Restart
<1>3. d \in Parser /\ d.calls = c
  <2> HIDE DEF none
  <2>1. d \in Parser
    BY <1>1, CallFacts
  <2>2. d.calls = c
    BY <1>1, FirstCall
  <2>3. QED
    BY <2>1, <2>2
<1> HIDE DEF d, c
<1>4. /\ r \in Parser /\ r.m_State = "StatusByte" /\ r.m_MessageBuffer[0] = 0
      /\ r.m_nMessageLength = 0 /\ r.calls = d.calls
  BY <1>3, ResetClears
<1> HIDE DEF r, q
<1>5. CASE b \in 0..127
  <2>1. q = r
    BY <1>2, <1>4, <1>5 DEF ParseStatusByte, IsStatus, ParseRunningStatus
  <2>2. Between(q, 0, c)
    BY <1>3, <1>4, <2>1 DEF Between
  <2>3. b \notin 128..243
    BY <1>5
  <2>4. QED
    BY <2>2, <2>3 DEF q, c
<1>6. CASE b \in 128..247
  <2>1. q = ParseStatus(r, b)
    BY <1>2, <1>6 DEF ParseStatusByte, IsStatus
  <2>2. AtRest(r) /\ b \in StatusBytes
    BY <1>4, <1>6 DEF AtRest, StatusBytes
  <2>3. StatusLeft(ParseStatus(r, b), b, r.calls)
    BY <1>4, <2>2, StatusShown
  <2>4. StatusLeft(q, b, c)
    BY <1>3, <1>4, <2>1, <2>3, Zenon
  <2>5. CASE b \in 244..247
    <3>1. Between(q, 0, c) /\ b \notin 128..243
      BY <2>4, <2>5 DEF StatusLeft
    <3>2. QED
      BY <3>1 DEF q, c
  <2>6. CASE b \notin 244..247
    <3>1. Within(q, b, none, c) /\ b \notin 0..127 \cup 244..247
      BY <1>6, <2>4, <2>6 DEF StatusLeft
    <3>2. QED
      BY <3>1 DEF q, c
  <2>7. QED
    BY <2>5, <2>6
<1>7. QED
  BY <1>5, <1>6

(* The statuses of a short message that has data. *)
ShortStatus == ChannelStatus \cup 241..243
LEMMA ShortStatusFacts ==
  ASSUME NEW s \in ShortStatus
  PROVE  s # 0 /\ s # 240
  BY DEF ShortStatus, ChannelStatus

(* A data byte within a short message. *)
LEMMA DataShown ==
  ASSUME NEW p \in Parser, p.m_State = "DataByte", Kept(p), Fresh(p),
         NEW b \in 0..127, NEW ignore \in BOOLEAN
  PROVE  LET s == p.m_MessageBuffer[0]
             a == Tail(Message(p))
             q == ParseDataByte(p, b, ignore)
         IN  /\ s \in ShortStatus /\ a \in Seq(0..255)
             /\ Len(a) \in {0, 1}
             /\ Len(a) = 0 /\ ~TwoByteMessage(s) =>
                  Within(q, s, Append(a, b), <<>>)
             /\ Len(a) = 1 \/ TwoByteMessage(s) =>
                  Between(q, StatusAfter(s), ShortCall(s, Append(a, b), ignore))
<1> DEFINE s == p.m_MessageBuffer[0]
           a == Tail(Message(p))
           q == ParseDataByte(p, b, ignore)
           n == p.m_nMessageLength
           r == Store(p, b)
           d == Append(a, b)
<1>1. n \in {1, 2} /\ n < SysExBufferSize /\ s \in ShortStatus
  BY BufferAssumption DEF Kept, ShortStatus
<1>2. q = CheckCompleteShortMessage(r, ignore)
  BY DEF ParseDataByte, IsStatus
<1>3. a \in Seq(0..255) /\ Len(a) = n - 1
  <2>1. n >= 1
    BY <1>1
  <2>2. a = Data(p)
    BY <2>1, MessageParts
  <2>3. Data(p) \in Seq(0..255) /\ Len(Data(p)) = n - 1
    BY <2>1, DataType
  <2>4. QED
    BY <2>2, <2>3, Zenon
<1>4. b \in Octet /\ HasRoom(p)
  BY <1>1 DEF Octet, HasRoom
<1>5. /\ r \in Parser /\ r.m_nMessageLength = n + 1 /\ Fresh(r)
      /\ r.m_MessageBuffer[0] = s /\ Data(r) = d /\ Within(r, s, d, <<>>)
  BY <1>4, Stored, Zenon
<1>6. Complete(r) <=> Len(a) = 1 \/ TwoByteMessage(s)
  <2> HIDE DEF r, a, s
  <2>1. QED
    BY <1>1, <1>3, <1>5 DEF Complete
<1>7. Len(a) \in {0, 1}
  <2> HIDE DEF a
  <2>1. QED
    BY <1>1, <1>3
<1> HIDE DEF s, a, q, n, r
<1>8. CASE Complete(r)
  <2>1. Between(CheckCompleteShortMessage(r, ignore),
                StatusAfter(r.m_MessageBuffer[0]),
                ShortCall(r.m_MessageBuffer[0], Data(r), ignore))
    BY <1>5, <1>8, CheckShown
  <2>2. Between(q, StatusAfter(s), ShortCall(s, d, ignore))
    BY <1>2, <1>5, <2>1, Zenon
  <2> HIDE DEF d
  <2>3. ~(Len(a) = 0 /\ ~TwoByteMessage(s))
    BY <1>6, <1>8
  <2>4. QED
    BY <1>1, <1>3, <1>7, <2>2, <2>3 DEF s, a, q, d
<1>9. CASE ~Complete(r)
  <2>1. q = r
    BY <1>2, <1>9 DEF CheckCompleteShortMessage
  <2> HIDE DEF d
  <2>2. Within(q, s, d, <<>>)
    BY <1>5, <2>1, Zenon
  <2>3. ~(Len(a) = 1 \/ TwoByteMessage(s))
    BY <1>6, <1>9
  <2>4. QED
    BY <1>1, <1>3, <1>7, <2>2, <2>3 DEF s, a, q, d
<1>10. QED
  BY <1>8, <1>9

(* What may come within a SysEx message: data, or its end. *)
SysExBytes == 0..127 \cup {247}

(* A byte within a SysEx message that has room for it. *)
LEMMA SysExShown ==
  ASSUME NEW p \in Parser, p.m_State = "SysExByte", Kept(p), Fresh(p),
         ~Overflowing(p), NEW b \in SysExBytes
  PROVE  LET d == Append(Tail(Message(p)), b)
             q == ParseSysExByte(p, b)
         IN  /\ b = 247 => Between(q, 0, <<[kind |-> "sysex",
                                            bytes |-> <<240>> \o d]>>)
             /\ b # 247 => Within(q, 240, d, <<>>)
<1> DEFINE d == Append(Tail(Message(p)), b)
           q == ParseSysExByte(p, b)
           r == Store(p, b)
           n == p.m_nMessageLength
           sysex == [kind |-> "sysex", bytes |-> <<240>> \o d]
<1>1. n \in Nat /\ n >= 1 /\ n < SysExBufferSize
  BY BufferAssumption DEF Parser, Kept, Overflowing
<1>2. p.m_MessageBuffer[0] = 240 /\ ~(IsStatus(b) /\ b # 247)
  BY DEF Kept, IsStatus, SysExBytes
<1>3. b \in Octet /\ HasRoom(p)
  BY <1>1 DEF Octet, HasRoom, SysExBytes
<1>4. /\ r \in Parser /\ r.m_nMessageLength = n + 1 /\ Fresh(r)
      /\ r.m_MessageBuffer[0] = p.m_MessageBuffer[0] /\ Data(r) = d
      /\ Within(r, p.m_MessageBuffer[0], d, <<>>)
  BY <1>3, Stored, Zenon
<1>5. r.m_nMessageLength >= 1
  BY <1>1, <1>4
<1>6. CASE b = 247
  <2> DEFINE c == Call(r, "sysex", Message(r))
             t == ResetState(c, TRUE)
  <2>1. q = t
    BY <1>2, <1>6 DEF ParseSysExByte
  <2> HIDE DEF r, d
  <2>2. Message(r) = <<240>> \o d
    <3>1. Message(r) = <<r.m_MessageBuffer[0]>> \o Data(r)
      BY <1>4, <1>5, MessageParts
    <3>2. QED
      BY <1>2, <1>4, <3>1, Zenon
  <2>3. Message(r) \in Seq(0..255) /\ "sysex" \in Calls
    BY <1>4, MessageType DEF Calls
  <2>4. c \in Parser
    BY <1>4, <2>3, CallFacts
  <2>5. c.calls = <<[kind |-> "sysex", bytes |-> Message(r)]>>
    BY <1>4, <2>3, FirstCall
  <2>6. c.calls = <<sysex>>
    BY <2>2, <2>5, Zenon
  <2> HIDE DEF c, q
  <2>7. t.m_State = "StatusByte" /\ t.m_MessageBuffer[0] = 0 /\ t.calls = c.calls
    BY <2>4, ResetClears
  <2> HIDE DEF t, sysex
  <2>8. Between(q, 0, <<sysex>>)
    BY <2>1, <2>6, <2>7 DEF Between
  <2>9. QED
    BY <1>6, <2>8 DEF q, sysex, d
<1>7. CASE b # 247
  <2>1. q = r
    BY <1>2, <1>7 DEF ParseSysExByte
  <2> HIDE DEF r, q, d
  <2>2. Within(q, 240, d, <<>>)
    BY <1>2, <1>4, <2>1
  <2>3. QED
    BY <1>7, <2>2 DEF q, d
<1>8. QED
  BY <1>6, <1>7

----------------------------------------------------------------------------
(* A message is in progress. *)
Open(q) == q.m_State # "StatusByte"

(* What the stream sees of a parser between two messages, and within one.  *)
LEMMA BetweenSeen ==
  ASSUME NEW q, NEW s, NEW c, Between(q, s, c)
  PROVE  /\ q.m_MessageBuffer[0] = s /\ Args(q) = <<>> /\ q.calls = c
         /\ ~Open(q)
  BY DEF Between, Args, Open

LEMMA WithinSeen ==
  ASSUME NEW q, NEW s, NEW a, NEW c, Within(q, s, a, c)
  PROVE  /\ q.m_MessageBuffer[0] = s /\ Args(q) = a /\ q.calls = c
         /\ Open(q)
  BY DEF Within, Args, Open

(* The status that a status byte leaves, and whether it begins a message.  *)
NewStatus(b) == IF b \in 244..247 THEN 0 ELSE b
Begins(b) == b \notin 244..247

LEMMA StatusSeen ==
  ASSUME NEW q, NEW b, NEW c, StatusLeft(q, b, c)
  PROVE  /\ q.m_MessageBuffer[0] = NewStatus(b)
         /\ Args(q) = <<>> /\ q.calls = c
         /\ Open(q) <=> Begins(b)
<1>1. CASE b \in 244..247
  <2>1. Between(q, 0, c)
    BY <1>1 DEF StatusLeft
  <2>2. QED
    BY <1>1, <2>1 DEF Between, Args, Open, NewStatus, Begins
<1>2. CASE b \notin 244..247
  <2>1. Within(q, b, <<>>, c)
    BY <1>2 DEF StatusLeft
  <2>2. QED
    BY <1>2, <2>1 DEF Within, Args, Open, NewStatus, Begins
<1>3. QED
  BY <1>1, <1>2

(* The parser as a byte finds it: the same, with no callback made yet. *)
Begun == [parser EXCEPT !.calls = <<>>]

LEMMA BegunFacts ==
  ASSUME TypeOK, BufferInv
  PROVE  /\ Begun \in Parser /\ Kept(Begun) /\ Fresh(Begun)
         /\ Begun.m_State = parser.m_State
         /\ Begun.m_MessageBuffer = parser.m_MessageBuffer
         /\ Begun.m_nMessageLength = parser.m_nMessageLength
         /\ Message(Begun) = Message(parser)
<1> DEFINE none == <<>>
           p == Begun
<1>1. none \in Seq([kind : Calls, bytes : Seq(0..255)])
  OBVIOUS
<1>2. p = [parser EXCEPT !.calls = none]
  BY DEF Begun
<1> HIDE DEF none, p
<1>3. /\ p \in Parser /\ p.calls = none /\ p.m_State = parser.m_State
      /\ p.m_MessageBuffer = parser.m_MessageBuffer
      /\ p.m_nMessageLength = parser.m_nMessageLength
  BY <1>1, <1>2 DEF TypeOK, Parser
<1>4. Fresh(p)
  BY <1>3, Zenon DEF Fresh, none
<1>5. Kept(p)
  BY <1>3 DEF BufferInv, Kept
<1>6. Message(p) = Message(parser)
  BY <1>3, Zenon DEF Message
<1>7. QED
  BY <1>3, <1>4, <1>5, <1>6 DEF p

(* A status byte ends what was going on. *)
LEMMA StatusAction ==
  ASSUME NEW b \in StatusBytes, NEW c, StatusLeft(parser', b, c),
         ~(b = 247 /\ parser.m_MessageBuffer[0] = 240),
         c = IF parser.m_State # "StatusByte" THEN <<Stream!Unexpected>> ELSE <<>>
  PROVE  Stream!Status(b)
<1>1. b \in 128..247 /\ b # 246
  BY DEF StatusBytes, TuneRequest
<1>2. c \o <<>> = c
  <2>1. c \in {<<Stream!Unexpected>>, <<>>}
    OBVIOUS
  <2> DEFINE u == Stream!Unexpected
  <2> HIDE DEF u
  <2>2. <<u>> \o <<>> = <<u>> /\ <<>> \o <<>> = <<>>
    OBVIOUS
  <2>3. QED
    BY <2>1, <2>2 DEF u
<1>3. /\ parser'.m_MessageBuffer[0] = NewStatus(b)
      /\ Args(parser') = <<>> /\ parser'.calls = c
      /\ Open(parser') <=> Begins(b)
  BY StatusSeen, ZenonT(40)
<1>4. (IF b = 246 THEN <<Stream!Short(<<b>>)>> ELSE <<>>) = <<>>
  BY <1>1
<1>5. parser'.calls = c \o (IF b = 246 THEN <<Stream!Short(<<b>>)>> ELSE <<>>)
  BY <1>2, <1>3, <1>4, Zenon
<1>6. (parser'.m_State # "StatusByte") = (b \notin 244..247)
  BY <1>3 DEF Open, Begins
<1>7. QED
  BY <1>1, <1>3, <1>5, <1>6 DEF Stream!Status, NewStatus

(* A data byte adds to a short message or completes it. *)
LEMMA ShortAction ==
  ASSUME NEW b \in 0..127, NEW ignore \in BOOLEAN, NEW s, NEW a,
         s = parser.m_MessageBuffer[0], s \in ShortStatus,
         a = Args(parser), Len(a) \in {0, 1},
         Len(a) = 0 /\ ~TwoByteMessage(s) =>
           Within(parser', s, Append(a, b), <<>>),
         Len(a) = 1 \/ TwoByteMessage(s) =>
           Between(parser', StatusAfter(s), ShortCall(s, Append(a, b), ignore))
  PROVE  Stream!ShortData(b, ignore)
<1> DEFINE d == Append(a, b)
<1>1. b < 128 /\ s \notin {0, 240}
  BY ShortStatusFacts
<1>2. Len(a) + 1 < Stream!DataBytes(s) <=> Len(a) = 0 /\ ~TwoByteMessage(s)
  BY DEF Stream!DataBytes, TwoByteMessage
<1> HIDE DEF d
<1>3. CASE Len(a) + 1 < Stream!DataBytes(s)
  <2>1. Within(parser', s, d, <<>>)
    BY <1>2, <1>3 DEF d
  <2>2. /\ parser'.m_MessageBuffer[0] = s /\ Args(parser') = d
        /\ parser'.calls = <<>> /\ Open(parser')
    BY <2>1, WithinSeen, Zenon
  <2>3. QED
    BY <1>1, <1>3, <2>2 DEF Stream!ShortData, d, Open
<1>4. CASE ~(Len(a) + 1 < Stream!DataBytes(s))
  <2> DEFINE c == ShortCall(s, d, ignore)
  <2>1. Len(a) = 1 \/ TwoByteMessage(s)
    BY <1>2, <1>4
  <2>2. Between(parser', StatusAfter(s), c)
    BY <2>1 DEF d
  <2>3. /\ parser'.m_MessageBuffer[0] = StatusAfter(s) /\ Args(parser') = <<>>
        /\ parser'.calls = c /\ ~Open(parser')
    BY <2>2, BetweenSeen, Zenon
  <2>4. c = IF Stream!NoteOn(s) /\ ignore THEN <<>>
            ELSE <<Stream!Short(<<s>> \o d)>>
    BY DEF ShortCall, Stream!NoteOn, Stream!Short
  <2>5. StatusAfter(s) = IF Stream!SystemCommon(s) THEN 0 ELSE s
    BY DEF StatusAfter, Stream!SystemCommon
  <2> HIDE DEF c
  <2>6. QED
    BY <1>1, <1>4, <2>3, <2>4, <2>5 DEF Stream!ShortData, d, Open
<1>5. QED
  BY <1>3, <1>4

(* A real-time byte is reported by itself and disturbs nothing. *)
LEMMA RealTimeAction ==
  ASSUME TypeOK, BufferInv, NEW b \in 248..255, NEW ignore \in BOOLEAN,
         parser' = ParseByte(Begun, b, ignore)
  PROVE  Stream!RealTime(b)
<1> DEFINE c == Call(Begun, "short", <<b>>)
<1>1. /\ Begun \in Parser /\ Fresh(Begun) /\ Begun.m_State = parser.m_State
      /\ Begun.m_MessageBuffer = parser.m_MessageBuffer
      /\ Begun.m_nMessageLength = parser.m_nMessageLength
  BY BegunFacts
<1>2. <<b>> \in Seq(0..255) /\ "short" \in Calls
  BY DEF Calls
<1>3. c.m_State = Begun.m_State /\ c.m_MessageBuffer = Begun.m_MessageBuffer
      /\ c.m_nMessageLength = Begun.m_nMessageLength
  BY <1>1, <1>2, CallFacts, ZenonT(30)
<1>4. c.calls = <<[kind |-> "short", bytes |-> <<b>>]>>
  BY <1>1, <1>2, FirstCall
<1>5. parser' = IF b \in {249, 253} THEN Begun ELSE c
  BY DEF ParseByte
<1> HIDE DEF c
<1>6. /\ parser'.m_State = parser.m_State
      /\ parser'.m_MessageBuffer = parser.m_MessageBuffer
      /\ parser'.m_nMessageLength = parser.m_nMessageLength
  BY <1>1, <1>3, <1>5
<1>7. Args(parser') = Args(parser)
  <2>1. Message(parser') = Message(parser)
    BY <1>6, Zenon DEF Message
  <2>2. QED
    BY <1>6, <2>1, Zenon DEF Args
<1>8. parser'.calls = IF b \in {249, 253} THEN <<>> ELSE <<Stream!Short(<<b>>)>>
  <2>1. CASE b \in {249, 253}
    BY <1>1, <1>5, <2>1 DEF Fresh
  <2>2. CASE b \notin {249, 253}
    <3>1. parser'.calls = <<Stream!Short(<<b>>)>>
      BY <1>4, <1>5, <2>2 DEF Stream!Short
    <3>2. QED
      BY <2>2, <3>1
  <2>3. QED
    BY <2>1, <2>2
<1>9. QED
  BY <1>6, <1>7, <1>8 DEF Stream!RealTime

(* A byte between two messages. *)
LEMMA AtRestAction ==
  ASSUME TypeOK, BufferInv, parser.m_State = "StatusByte",
         NEW b \in 0..247, b # TuneRequest, NEW ignore \in BOOLEAN,
         parser' = ParseByte(Begun, b, ignore)
  PROVE  Stream!Receive(b, ignore)
<1> DEFINE s == parser.m_MessageBuffer[0]
           p == Begun
<1>1. /\ p \in Parser /\ Kept(p) /\ Fresh(p) /\ p.m_State = "StatusByte"
      /\ p.m_MessageBuffer[0] = s
  BY BegunFacts
<1>2. parser' = ParseStatusByte(p, b)
  BY <1>1 DEF ParseByte
<1>3. s \in {0} \cup ChannelStatus /\ AtRest(p)
  BY <1>1 DEF Kept, AtRest
<1>4. Args(parser) = <<>> /\ ~(parser.m_State # "StatusByte")
  BY DEF Args
<1>5. CASE b \in 128..247
  <2>1. parser' = ParseStatus(p, b)
    BY <1>2, <1>5 DEF ParseStatusByte, IsStatus
  <2>2. b \in StatusBytes
    BY <1>5 DEF StatusBytes
  <2> HIDE DEF p
  <2>3. StatusLeft(parser', b, p.calls)
    BY <1>1, <1>3, <2>1, <2>2, StatusShown
  <2> DEFINE c == p.calls
  <2>4. c = IF parser.m_State # "StatusByte" THEN <<Stream!Unexpected>> ELSE <<>>
    BY <1>1, <1>4 DEF Fresh
  <2>5. s # 240
    BY <1>3 DEF ChannelStatus
  <2> HIDE DEF c
  <2>6. StatusLeft(parser', b, c)
    BY <2>3 DEF c
  <2>7. Stream!Status(b)
    BY <2>2, <2>4, <2>5, <2>6, StatusAction
  <2>8. QED
    BY <2>7, Zenon DEF Stream!Receive
<1>6. CASE b \in 0..127
  <2>1. parser' = ParseRunningStatus(p, b)
    BY <1>2, <1>6 DEF ParseStatusByte, IsStatus
  <2> HIDE DEF p
  <2> DEFINE q == ParseRunningStatus(p, b)
  <2>2. /\ s = 0 => Between(q, s, <<>>)
        /\ s # 0 /\ TwoByteMessage(s) =>
             Between(q, s, <<[kind |-> "short", bytes |-> <<s>> \o <<b>>]>>)
        /\ s # 0 /\ ~TwoByteMessage(s) => Within(q, s, <<b>>, <<>>)
    BY <1>1, <1>6, RunningShown
  <2>3. parser' = q
    BY <2>1
  <2> HIDE DEF q, s
  <2>4. CASE s = 0
    <3>1. Between(parser', s, <<>>)
      BY <2>2, <2>3, <2>4
    <3>2. /\ parser'.m_MessageBuffer[0] = s /\ Args(parser') = <<>>
          /\ parser'.calls = <<>> /\ ~Open(parser')
      BY <3>1, BetweenSeen, Zenon
    <3>3. Stream!IgnoredData(b)
      BY <1>4, <1>6, <2>4, <3>2 DEF Stream!IgnoredData, Open, s
    <3>4. QED
      BY <3>3, Zenon DEF Stream!Receive
  <2>5. CASE s # 0
    <3> DEFINE none == <<>>
               d == Append(none, b)
    <3>1. s \in ChannelStatus
      BY <1>3, <2>5
    <3>2. d = <<b>>
      OBVIOUS
    <3> HIDE DEF d
    <3>3. ~TwoByteMessage(s) => Within(parser', s, d, <<>>)
      BY <2>2, <2>3, <2>5, <3>2, Zenon
    <3>4. TwoByteMessage(s) =>
            Between(parser', StatusAfter(s), ShortCall(s, d, ignore))
      <4> SUFFICES ASSUME TwoByteMessage(s)
                   PROVE  Between(parser', StatusAfter(s), ShortCall(s, d, ignore))
        OBVIOUS
      <4>1. StatusAfter(s) = s
        BY <3>1, ChannelRunsOn
      <4>2. s \notin 144..159
        BY DEF TwoByteMessage
      <4>3. ShortCall(s, d, ignore) = <<[kind |-> "short", bytes |-> <<s>> \o d]>>
        BY <4>2, Zenon DEF ShortCall
      <4>4. Between(q, s, <<[kind |-> "short", bytes |-> <<s>> \o <<b>>]>>)
        BY <2>2, <2>5, Zenon
      <4>5. QED
        BY <2>3, <3>2, <4>1, <4>3, <4>4, Zenon
    <3>5. s \in ShortStatus /\ s = parser.m_MessageBuffer[0]
      BY <3>1 DEF ShortStatus, s
    <3>6. none = Args(parser) /\ Len(none) = 0 /\ Len(none) \in {0, 1}
          /\ Len(none) # 1
      BY <1>4
    <3> HIDE DEF none
    <3>7. Stream!ShortData(b, ignore)
      <4>1. Len(none) = 0 /\ ~TwoByteMessage(s) =>
              Within(parser', s, Append(none, b), <<>>)
        BY <3>3 DEF d
      <4>2. Len(none) = 1 \/ TwoByteMessage(s) =>
              Between(parser', StatusAfter(s), ShortCall(s, Append(none, b), ignore))
        BY <3>4, <3>6 DEF d
      <4>3. QED
        BY <1>6, <3>5, <3>6, <4>1, <4>2, ShortAction
    <3>8. QED
      BY <3>7, Zenon DEF Stream!Receive
  <2>6. QED
    BY <2>4, <2>5
<1>7. QED
  BY <1>5, <1>6

(* A status byte that interrupts a message. *)
LEMMA InterruptAction ==
  ASSUME TypeOK, BufferInv, parser.m_State # "StatusByte",
         NEW b \in StatusBytes, ~(b = 247 /\ parser.m_MessageBuffer[0] = 240),
         parser' = Restart(Begun, "unexpected", b)
  PROVE  Stream!Status(b)
<1> DEFINE c == <<[kind |-> "unexpected", bytes |-> <<>>]>>
           q == Restart(Begun, "unexpected", b)
<1>1. Begun \in Parser /\ Fresh(Begun) /\ "unexpected" \in Calls
  BY BegunFacts DEF Calls
<1>2. b \in 0..247 /\ b # TuneRequest /\ b \in 128..247
  BY DEF StatusBytes
<1>3. /\ b \in 0..127 \cup 244..247 => Between(q, 0, c)
      /\ b \in 128..243 => Within(q, b, <<>>, c)
  BY <1>1, <1>2, RestartShown
<1> HIDE DEF c, q
<1>4. StatusLeft(q, b, c)
  <2>1. CASE b \in 244..247
    BY <1>3, <2>1 DEF StatusLeft
  <2>2. CASE b \notin 244..247
    <3>1. b \in 128..243
      BY <1>2, <2>2
    <3>2. QED
      BY <1>3, <2>2, <3>1 DEF StatusLeft
  <2>3. QED
    BY <2>1, <2>2
<1>5. c = IF parser.m_State # "StatusByte" THEN <<Stream!Unexpected>> ELSE <<>>
  BY DEF Stream!Unexpected, c
<1>6. parser' = q
  BY DEF q
<1>7. StatusLeft(parser', b, c)
  BY <1>4, <1>6, Zenon
<1>8. QED
  BY <1>5, <1>7, StatusAction

(* A byte within a short message. *)
LEMMA WithinShortAction ==
  ASSUME TypeOK, BufferInv, parser.m_State = "DataByte",
         NEW b \in 0..247, b # TuneRequest, NEW ignore \in BOOLEAN,
         parser' = ParseByte(Begun, b, ignore)
  PROVE  Stream!Receive(b, ignore)
<1> DEFINE s == parser.m_MessageBuffer[0]
           p == Begun
           a == Tail(Message(p))
<1>1. /\ p \in Parser /\ Kept(p) /\ Fresh(p) /\ p.m_State = "DataByte"
      /\ p.m_MessageBuffer[0] = s /\ Message(p) = Message(parser)
  BY BegunFacts
<1>2. parser' = ParseDataByte(p, b, ignore)
  BY <1>1 DEF ParseByte
<1>3. a = Args(parser)
  BY <1>1 DEF Args
<1>4. CASE b \in 128..247
  <2>1. parser' = Restart(p, "unexpected", b)
    BY <1>2, <1>4 DEF ParseDataByte, IsStatus
  <2>2. b \in StatusBytes
    BY <1>4 DEF StatusBytes
  <2>3. s # 240
    <3>1. s \in ShortStatus
      BY <1>1 DEF Kept, ShortStatus
    <3>2. QED
      BY <3>1, ShortStatusFacts
  <2>4. Stream!Status(b)
    BY <2>1, <2>2, <2>3, InterruptAction
  <2>5. QED
    BY <2>4, Zenon DEF Stream!Receive
<1>5. CASE b \in 0..127
  <2> DEFINE q == ParseDataByte(p, b, ignore)
  <2>1. /\ s \in ShortStatus /\ a \in Seq(0..255)
        /\ Len(a) \in {0, 1}
        /\ Len(a) = 0 /\ ~TwoByteMessage(s) =>
             Within(q, s, Append(a, b), <<>>)
        /\ Len(a) = 1 \/ TwoByteMessage(s) =>
             Between(q, StatusAfter(s), ShortCall(s, Append(a, b), ignore))
    BY <1>1, <1>5, DataShown, ZenonT(40)
  <2>2. parser' = q /\ s = parser.m_MessageBuffer[0]
    BY <1>2
  <2> HIDE DEF q, a, p, s
  <2>3. Len(a) = 0 /\ ~TwoByteMessage(s) =>
          Within(parser', s, Append(a, b), <<>>)
    BY <2>1, <2>2
  <2>4. Len(a) = 1 \/ TwoByteMessage(s) =>
          Between(parser', StatusAfter(s), ShortCall(s, Append(a, b), ignore))
    BY <2>1, <2>2
  <2>5. Stream!ShortData(b, ignore)
    BY <1>3, <1>5, <2>1, <2>2, <2>3, <2>4, ShortAction
  <2>6. QED
    BY <2>5, Zenon DEF Stream!Receive
<1>6. QED
  BY <1>4, <1>5

(* A byte within a SysEx message. *)
LEMMA WithinSysExAction ==
  ASSUME TypeOK, BufferInv, parser.m_State = "SysExByte",
         NEW b \in 0..247, b # TuneRequest, NEW ignore \in BOOLEAN,
         parser' = ParseByte(Begun, b, ignore)
  PROVE  Stream!Receive(b, ignore)
<1> DEFINE p == Begun
           n == parser.m_nMessageLength
           a == Args(parser)
<1>1. /\ p \in Parser /\ Kept(p) /\ Fresh(p) /\ p.m_State = "SysExByte"
      /\ p.m_nMessageLength = n /\ Message(p) = Message(parser)
      /\ p.m_MessageBuffer = parser.m_MessageBuffer
  BY BegunFacts
<1>2. parser' = ParseSysExByte(p, b)
  BY <1>1 DEF ParseByte
<1>3. parser.m_MessageBuffer[0] = 240 /\ n \in 1..SysExBufferSize
  BY <1>1 DEF Kept
<1>4. Tail(Message(p)) = a /\ parser.m_State # "StatusByte"
  BY <1>1 DEF Args
<1>5. Len(a) = n - 1
  <2>1. p.m_nMessageLength >= 1
    BY <1>1, <1>3, BufferAssumption
  <2>2. Len(Data(p)) = p.m_nMessageLength - 1
    BY <1>1, <2>1, DataType
  <2>3. Tail(Message(p)) = Data(p)
    BY <1>1, <2>1, MessageParts
  <2>4. QED
    BY <1>1, <1>4, <2>2, <2>3
<1> HIDE DEF p, a
<1>6. CASE b \in 128..246
  <2>1. parser' = Restart(Begun, "unexpected", b)
    <3>1. IsStatus(b) /\ b # 247
      BY <1>6 DEF IsStatus
    <3>2. QED
      BY <1>2, <3>1, Zenon DEF ParseSysExByte, p
  <2>2. b \in StatusBytes /\ b # 247
    BY <1>6 DEF StatusBytes
  <2>3. Stream!Status(b)
    BY <1>4, <2>1, <2>2, InterruptAction
  <2>4. QED
    BY <2>3, Zenon DEF Stream!Receive
<1>7. CASE b \in SysExBytes /\ Overflowing(p)
  <2> DEFINE c == <<[kind |-> "overflow", bytes |-> <<>>]>>
             q == Restart(p, "overflow", b)
  <2>1. parser' = q
    BY <1>2, <1>7 DEF ParseSysExByte, IsStatus, SysExBytes
  <2>2. "overflow" \in Calls /\ b \in 0..127 \cup 244..247
    BY <1>7 DEF Calls, SysExBytes
  <2>3. Between(q, 0, c)
    BY <1>1, <2>2, RestartShown
  <2> HIDE DEF q
  <2>4. Len(a) + 1 = SysExBufferSize
    BY <1>1, <1>3, <1>5, <1>7, BufferAssumption DEF Overflowing
  <2>5. c = <<Stream!Overflow>>
    BY DEF Stream!Overflow
  <2> HIDE DEF c
  <2>6. Between(parser', 0, c)
    BY <2>1, <2>3
  <2>7. /\ parser'.m_MessageBuffer[0] = 0 /\ Args(parser') = <<>>
        /\ parser'.calls = c /\ ~Open(parser')
    BY <2>6, BetweenSeen, Zenon
  <2>8. Stream!SysExTooLong(b)
    <3>1. b < 128 \/ b = 247
      BY <1>7 DEF SysExBytes
    <3>2. QED
      BY <1>3, <2>4, <2>5, <2>7, <3>1 DEF Stream!SysExTooLong, Open, a
  <2>9. QED
    BY <2>8, Zenon DEF Stream!Receive
<1>8. CASE b \in SysExBytes /\ ~Overflowing(p)
  <2> DEFINE d == Append(a, b)
             q == ParseSysExByte(p, b)
  <2>1. /\ b = 247 => Between(q, 0, <<[kind |-> "sysex",
                                       bytes |-> <<240>> \o d]>>)
        /\ b # 247 => Within(q, 240, d, <<>>)
    <3>1. LET e == Append(Tail(Message(p)), b)
          IN  /\ b = 247 => Between(q, 0, <<[kind |-> "sysex",
                                             bytes |-> <<240>> \o e]>>)
              /\ b # 247 => Within(q, 240, e, <<>>)
      BY <1>1, <1>8, SysExShown
    <3>2. QED
      BY <1>4, <3>1
  <2>2. parser' = q
    BY <1>2
  <2> HIDE DEF d, q
  <2>3. Len(a) + 1 < SysExBufferSize
    BY <1>1, <1>3, <1>5, <1>8, BufferAssumption DEF Overflowing
  <2>4. CASE b = 247
    <3> DEFINE c == <<[kind |-> "sysex", bytes |-> <<240>> \o d]>>
    <3>1. c = <<Stream!SysEx(<<240>> \o Append(a, 247))>>
      BY <2>4 DEF Stream!SysEx, d
    <3>2. Between(parser', 0, c)
      BY <2>1, <2>2, <2>4
    <3> HIDE DEF c
    <3>3. /\ parser'.m_MessageBuffer[0] = 0 /\ Args(parser') = <<>>
          /\ parser'.calls = c /\ ~Open(parser')
      BY <3>2, BetweenSeen, Zenon
    <3>4. Stream!EndOfSysEx(b)
      BY <1>3, <2>3, <2>4, <3>1, <3>3 DEF Stream!EndOfSysEx, Open, a
    <3>5. QED
      BY <3>4, Zenon DEF Stream!Receive
  <2>5. CASE b # 247
    <3> DEFINE s == 240
    <3>1. Within(parser', s, d, <<>>)
      BY <2>1, <2>2, <2>5
    <3> HIDE DEF s
    <3>2. /\ parser'.m_MessageBuffer[0] = s /\ Args(parser') = d
          /\ parser'.calls = <<>> /\ Open(parser')
      BY <3>1, WithinSeen, Zenon
    <3>3. b < 128
      BY <1>8, <2>5 DEF SysExBytes
    <3>4. Stream!SysExData(b)
      BY <1>3, <1>4, <2>3, <3>2, <3>3 DEF Stream!SysExData, Open, a, d, s
    <3>5. QED
      BY <3>4, Zenon DEF Stream!Receive
  <2>6. QED
    BY <2>4, <2>5
<1>9. b \in 128..246 \/ b \in SysExBytes
  BY DEF SysExBytes
<1>10. QED
  BY <1>6, <1>7, <1>8, <1>9

(* The parser begins as the stream does. *)
LEMMA StreamBegins == Init => Stream!Init
<1> SUFFICES ASSUME Init PROVE Stream!Init
  OBVIOUS
<1>1. parser.m_State = "StatusByte" /\ parser.calls = <<>>
      /\ parser.m_MessageBuffer = [i \in Slots |-> 0]
  BY DEF Init
<1>2. 0 \in Slots
  BY BufferAssumption DEF Slots
<1>3. parser.m_MessageBuffer[0] = 0 /\ Args(parser) = <<>>
  BY <1>1, <1>2 DEF Args
<1>4. QED
  BY <1>1, <1>3 DEF Stream!Init

(* Every byte is one step of the stream. *)
LEMMA StreamStep ==
  ASSUME TuneRequest \notin Byte, TypeOK, BufferInv, [Next]_parser
  PROVE  [Stream!Next]_(Stream!vars)
<1>1. CASE UNCHANGED parser
  BY <1>1 DEF Stream!vars
<1>2. ASSUME NEW b \in Byte, NEW ignore \in BOOLEAN, ParseMIDIByte(b, ignore)
      PROVE  Stream!Next
  <2>1. b \in 0..255 /\ b # TuneRequest
    BY ByteAssumption
  <2>2. parser' = ParseByte(Begun, b, ignore)
    BY <1>2 DEF ParseMIDIByte, Begun
  <2>3. Stream!Receive(b, ignore)
    <3>1. CASE b \in 248..255
      <4>1. Stream!RealTime(b)
        BY <2>2, <3>1, RealTimeAction
      <4>2. QED
        BY <4>1, Zenon DEF Stream!Receive
    <3>2. CASE b \in 0..247 /\ parser.m_State = "StatusByte"
      BY <2>1, <2>2, <3>2, AtRestAction
    <3>3. CASE b \in 0..247 /\ parser.m_State = "DataByte"
      BY <2>1, <2>2, <3>3, WithinShortAction
    <3>4. CASE b \in 0..247 /\ parser.m_State = "SysExByte"
      BY <2>1, <2>2, <3>4, WithinSysExAction
    <3>5. b \in 248..255 \/ b \in 0..247
      BY <2>1
    <3>6. QED
      BY <3>1, <3>2, <3>3, <3>4, <3>5 DEF TypeOK, Parser
  <2>4. QED
    BY <2>3, Zenon DEF Stream!Next
<1>3. QED
  BY <1>1, <1>2, Zenon DEF Next

(* As long as no tune request arrives, the parser's buffer, length and     *)
(* state implement the MIDI stream.                                        *)
THEOREM StreamImplemented ==
  ASSUME TuneRequest \notin Byte
  PROVE  Spec => StreamSpec
<1>1. Spec => [](TypeOK /\ BufferInv)
  BY BufferKept
<1>2. Init => Stream!Init
  BY StreamBegins
<1>3. TypeOK /\ BufferInv /\ [Next]_parser => [Stream!Next]_(Stream!vars)
  BY StreamStep
<1>4. QED
  BY <1>1, <1>2, <1>3, PTL DEF Spec, StreamSpec, Stream!Spec

----------------------------------------------------------------------------

(* The phase of a note once what core 0 still writes has arrived. *)
Phase(n) == IF <<n, "EnvelopePhase">> \in DOMAIN unwritten
            THEN unwritten[<<n, "EnvelopePhase">>] ELSE EnvelopePhase[n]

(* Its times once they have. *)
OnTime(n) == IF <<n, "nNoteOnTime">> \in DOMAIN unwritten
             THEN unwritten[<<n, "nNoteOnTime">>] ELSE nNoteOnTime[n]
OffTime(n) == IF <<n, "nNoteOffTime">> \in DOMAIN unwritten
              THEN unwritten[<<n, "nNoteOffTime">>] ELSE nNoteOffTime[n]

(* What sounds is held by a key, or flagged, and then by the pedal; no     *)
(* drum counts as held, nor does note 127; and core 1 computes no envelope *)
(* of a held note.                                                         *)
KeysInv ==
  /\ sends \in Sends
  /\ key \subseteq Keys /\ bDamperFlag \subseteq All
  /\ key \ excused \subseteq All
  /\ EnvelopePhase = [n \in All |-> EnvelopePhase[n]]
  /\ \A n \in key \ excused : Phase(n) = "NoteOn" /\ ~Percussive(n)
  /\ \A n \in All \ (key \cup bDamperFlag \cup excused) : Phase(n) # "NoteOn"
  /\ \A n \in bDamperFlag \ excused : n[1] \in nDamper
  /\ place # "loop" /\ ~crossed => ~Sending /\ note \notin key \ excused

(* The envelope of a note goes by a time that was written for this note.   *)
Owned(n) == Percussive(n) \/ n \notin overlaid

(* Core 1's clock is not older than the note it computes, unless a message *)
(* came across, or note 127 changed the time that the note began; when it  *)
(* is about to end an envelope, that is over.                              *)
EnvelopeInv ==
  /\ nNoteOnTime \in [All -> 0..Over] /\ nNoteOffTime \in [All -> Ages]
  /\ \A n \in All : OnTime(n) \in 0..Over /\ OffTime(n) \in Ages
  /\ \A n \in All \ overlaid : OffTime(n) >= 0
  /\ clockLag \in 0..MaxClockLag
  /\ IF place = "loop" THEN clockLag = 0 ELSE note \in All
  /\ place = "compute" /\ ~crossed /\ Owned(note) => Began(note) >= clockLag
  /\ place = "end" /\ ~crossed /\ Owned(note) => Began(note) > ReleaseTime

MonitorInv == KeysInv /\ EnvelopeInv

(* At the start no key is down and no envelope runs. *)
LEMMA MonitorStarts == MonitorInit => MonitorInv
<1> SUFFICES ASSUME MonitorInit PROVE MonitorInv
  OBVIOUS
<1>1. KeysInv
  BY DEF MonitorInit, KeysInv, Phase
<1>2. /\ \A n \in All : OnTime(n) = Over /\ OffTime(n) = Over
      /\ Over \in 0..Over /\ Over \in Ages /\ Over >= 0
  BY MonitorTimeAssumption DEF MonitorInit, OnTime, OffTime, Over, Ages
<1>3. EnvelopeInv
  BY <1>2, MonitorTimeAssumption DEF MonitorInit, EnvelopeInv
<1>4. QED
  BY <1>1, <1>3 DEF MonitorInv

(* What the invariant says of the times of one note. *)
LEMMA TimesOf ==
  ASSUME EnvelopeInv, NEW n \in All
  PROVE  /\ nNoteOnTime[n] \in 0..Over /\ nNoteOffTime[n] \in Ages
         /\ OnTime(n) \in 0..Over /\ OffTime(n) \in Ages
         /\ n \notin overlaid => OffTime(n) >= 0
         /\ ~Sending => OnTime(n) = nNoteOnTime[n] /\ OffTime(n) = nNoteOffTime[n]
<1>1. nNoteOnTime \in [All -> 0..Over] /\ nNoteOffTime \in [All -> Ages]
  BY DEF EnvelopeInv
<1>2. nNoteOnTime[n] \in 0..Over /\ nNoteOffTime[n] \in Ages
  BY <1>1
<1>3. OnTime(n) \in 0..Over /\ OffTime(n) \in Ages
  BY DEF EnvelopeInv
<1>4. n \notin overlaid => OffTime(n) >= 0
  BY DEF EnvelopeInv
<1>5. ~Sending => OnTime(n) = nNoteOnTime[n] /\ OffTime(n) = nNoteOffTime[n]
  BY DEF Sending, OnTime, OffTime
<1>6. QED
  BY <1>2, <1>3, <1>4, <1>5

(* A message leaves the envelopes to the stores it sets out, and marks     *)
(* what core 1 is computing as crossed.                                    *)
LEMMA SendKeepsEnvelopes ==
  ASSUME EnvelopeInv, NEW writes, Send(writes),
         \A n \in All : /\ <<n, "nNoteOnTime">> \in DOMAIN writes =>
                             writes[<<n, "nNoteOnTime">>] \in 0..Over
                        /\ <<n, "nNoteOffTime">> \in DOMAIN writes =>
                             /\ writes[<<n, "nNoteOffTime">>] \in Ages
                             /\ n \notin overlaid' =>
                                  writes[<<n, "nNoteOffTime">>] >= 0
                        /\ <<n, "nNoteOffTime">> \notin DOMAIN writes =>
                             (n \in overlaid => n \in overlaid')
  PROVE  EnvelopeInv'
<1>1. /\ UNCHANGED <<nNoteOnTime, nNoteOffTime, place, note, clockLag>>
      /\ crossed' = (place # "loop") /\ unwritten' = writes /\ DOMAIN unwritten = {}
  BY DEF Send, envelopes, meter, Sending
<1>2. ~Sending
  BY DEF Send
<1>3. \A n \in All : /\ OnTime(n)' \in 0..Over /\ OffTime(n)' \in Ages
                     /\ n \notin overlaid' => OffTime(n)' >= 0
  <2> TAKE n \in All
  <2>1. /\ nNoteOnTime[n] \in 0..Over /\ nNoteOffTime[n] \in Ages
        /\ n \notin overlaid => nNoteOffTime[n] >= 0
    BY <1>2, TimesOf
  <2>2. OnTime(n)' \in 0..Over
    BY <1>1, <2>1 DEF OnTime, Over
  <2>3. OffTime(n)' \in Ages /\ (n \notin overlaid' => OffTime(n)' >= 0)
    BY <1>1, <2>1 DEF OffTime, Ages, Over
  <2>4. QED
    BY <2>2, <2>3
<1>4. QED
  BY <1>1, <1>3 DEF EnvelopeInv, Over, Ages

(* A message without stores says nothing of any note.                      *)
LEMMA NothingSent ==
  ASSUME Send(<< >>)
  PROVE  /\ \A n : Phase(n)' = Phase(n) /\ Phase(n) = EnvelopePhase[n]
         /\ UNCHANGED <<EnvelopePhase, place, note, sends>>
         /\ place # "loop" => crossed'
<1>1. \A n : <<n, "EnvelopePhase">> \notin DOMAIN << >>
  OBVIOUS
<1>2. \A n : <<n, "EnvelopePhase">> \notin DOMAIN unwritten'
  BY <1>1 DEF Send
<1>3. \A n : Phase(n) = EnvelopePhase[n]
  BY DEF Send, Sending, Phase
<1>4. QED
  BY <1>2, <1>3 DEF Send, Phase, envelopes, meter

(* What a message says of a note is what its stores say, or what it was.   *)
LEMMA Sent ==
  ASSUME NEW writes, Send(writes), NEW n
  PROVE  /\ Phase(n) = EnvelopePhase[n]
         /\ Phase(n)' = IF <<n, "EnvelopePhase">> \in DOMAIN writes
                        THEN writes[<<n, "EnvelopePhase">>] ELSE EnvelopePhase[n]
         /\ UNCHANGED <<EnvelopePhase, place, note, sends>>
         /\ place # "loop" => crossed'
BY DEF Send, Sending, Phase, envelopes, meter

(* A message that says what a phase of some notes is says it of no others. *)
LEMMA Said ==
  ASSUME NEW S, NEW phase, NEW time \in {"nNoteOnTime", "nNoteOffTime"}, NEW since,
         Send(Stores(S, phase, time, since))
  PROVE  /\ \A n : Phase(n)' = IF n \in S THEN phase ELSE Phase(n)
         /\ UNCHANGED <<EnvelopePhase, sends>>
         /\ place' # "loop" => crossed'
<1> DEFINE w == Stores(S, phase, time, since)
<1>1. \A n : /\ <<n, "EnvelopePhase">> \in DOMAIN w <=> n \in S
             /\ n \in S => w[<<n, "EnvelopePhase">>] = phase
  BY DEF Stores
<1>2. Send(w)
  OBVIOUS
<1> HIDE DEF w
<1>3. \A n : Phase(n)' = IF n \in S THEN phase ELSE Phase(n)
  BY <1>1, <1>2, Sent
<1>4. UNCHANGED <<EnvelopePhase, sends>> /\ (place' # "loop" => crossed')
  BY <1>2, Sent
<1>5. QED
  BY <1>3, <1>4

----------------------------------------------------------------------------
(* Messages keep KeysInv: one step for each, by what it sets out to store. *)

LEMMA NoteOnKeeps == KeysInv /\ NoteOn => KeysInv'
<1> SUFFICES ASSUME KeysInv, NoteOn PROVE KeysInv'
  OBVIOUS
<1>1. PICK n \in sends.played \cap All :
        /\ Send(Stores({n}, "NoteOn", "nNoteOnTime", 0))
        /\ bDamperFlag' = IF n[1] \in nDamper THEN bDamperFlag \cup {n}
                                              ELSE bDamperFlag \ {n}
        /\ key' = key \cup {n}
        /\ excused' = IF Percussive(n) THEN excused \cup {n} ELSE excused \ {n}
  BY DEF NoteOn
<1>2. n \in All /\ n \in Keys /\ UNCHANGED <<nDamper, m_nPercussionMask>>
  BY DEF NoteOn, All
<1>3. \A m \in All : Phase(m)' = IF m = n THEN "NoteOn" ELSE Phase(m)
  BY <1>1, Said
<1>4. UNCHANGED <<EnvelopePhase, sends>> /\ (place' # "loop" => crossed')
  BY <1>1, Said
<1>5. QED
  BY <1>1, <1>2, <1>3, <1>4 DEF KeysInv, Percussive

LEMMA NoteOffKeeps == KeysInv /\ NoteOff => KeysInv'
<1> SUFFICES ASSUME KeysInv, NoteOff PROVE KeysInv'
  OBVIOUS
<1>1. PICK n \in All : Release({n} \ bDamperFlag) /\ key' = key \ {n}
  BY DEF NoteOff
<1>2. UNCHANGED <<bDamperFlag, nDamper, m_nPercussionMask, excused>>
  BY DEF NoteOff, flags
<1>3. \A m \in All : Phase(m)' = IF m \in {n} \ bDamperFlag
                                 THEN "NoteOff" ELSE Phase(m)
  BY <1>1, Said DEF Release
<1>4. UNCHANGED <<EnvelopePhase, sends>> /\ (place' # "loop" => crossed')
  BY <1>1, Said DEF Release
<1>5. QED
  BY <1>1, <1>2, <1>3, <1>4 DEF KeysInv, Percussive

(* Note 127 counts as lost, and so do the notes that it is written over.   *)
LEMMA NoteOnBehindKeeps == KeysInv /\ NoteOnBehind => KeysInv'
<1> SUFFICES ASSUME KeysInv, NoteOnBehind PROVE KeysInv'
  OBVIOUS
<1>1. PICK n \in sends.played \ All, phase \in Phases, since \in Ages :
        /\ Send(Stores(Behind(n), phase, "nNoteOffTime", since))
        /\ PhaseBehind(n)
        /\ key' = key \cup {n}
        /\ excused' = excused \cup {n} \cup Behind(n) \cup FlaggedBehind(n)
  BY DEF NoteOnBehind
<1>2. \A m \in All : m \notin Behind(n) => Phase(m)' = Phase(m)
  BY <1>1, Said
<1>3. UNCHANGED <<EnvelopePhase, sends>> /\ (place' # "loop" => crossed')
  BY <1>1, Said
<1>4. /\ UNCHANGED <<bDamperFlag, m_nPercussionMask>>
      /\ \A m \in bDamperFlag \ FlaggedBehind(n) : m[1] \in nDamper => m[1] \in nDamper'
  BY <1>1 DEF PhaseBehind, FlaggedBehind
<1>5. n \in Keys
  BY SendsAssumption DEF KeysInv
<1>6. QED
  BY <1>1, <1>2, <1>3, <1>4, <1>5 DEF KeysInv, Percussive

LEMMA NoteOffBehindKeeps == KeysInv /\ NoteOffBehind => KeysInv'
<1> SUFFICES ASSUME KeysInv, NoteOffBehind PROVE KeysInv'
  OBVIOUS
<1>1. PICK n \in sends.played \ All :
        /\ key' = key \ {n}
        /\ \/ Send(<< >>) /\ UNCHANGED <<flags, excused>>
           \/ /\ Send([x \in Behind(n) \X {"nNoteOnTime"} |-> 0])
              /\ PhaseBehind(n)
              /\ excused' = excused \cup FlaggedBehind(n)
  BY DEF NoteOffBehind
<1>2. CASE Send(<< >>) /\ UNCHANGED <<flags, excused>>
  BY <1>1, <1>2, NothingSent DEF KeysInv, Percussive, flags
<1>3. CASE /\ Send([x \in Behind(n) \X {"nNoteOnTime"} |-> 0])
           /\ PhaseBehind(n)
           /\ excused' = excused \cup FlaggedBehind(n)
  <2> DEFINE w == [x \in Behind(n) \X {"nNoteOnTime"} |-> 0]
  <2>1. Send(w) /\ \A m : <<m, "EnvelopePhase">> \notin DOMAIN w
    BY <1>3
  <2> HIDE DEF w
  <2>2. /\ \A m : Phase(m)' = Phase(m)
        /\ UNCHANGED <<EnvelopePhase, sends>>
        /\ place' # "loop" => crossed'
    BY <2>1, Sent
  <2>3. /\ UNCHANGED <<bDamperFlag, m_nPercussionMask>>
        /\ \A m \in bDamperFlag \ FlaggedBehind(n) : m[1] \in nDamper => m[1] \in nDamper'
    BY <1>3 DEF PhaseBehind, FlaggedBehind
  <2>4. QED
    BY <1>1, <1>3, <2>1, <2>2, <2>3 DEF KeysInv, Percussive
<1>4. QED
  BY <1>1, <1>2, <1>3

LEMMA DamperDownKeeps == KeysInv /\ DamperDown => KeysInv'
<1> SUFFICES ASSUME KeysInv, DamperDown PROVE KeysInv'
  OBVIOUS
<1>1. Send(<< >>) /\ nDamper \subseteq nDamper'
      /\ UNCHANGED <<bDamperFlag, m_nPercussionMask, key, excused>>
  BY DEF DamperDown
<1>2. QED
  BY <1>1, NothingSent DEF KeysInv, Percussive

LEMMA DamperUpKeeps == KeysInv /\ DamperUp => KeysInv'
<1> SUFFICES ASSUME KeysInv, DamperUp PROVE KeysInv'
  OBVIOUS
<1>1. PICK ch \in Parts :
        /\ nDamper' = nDamper \ {ch}
        /\ Release(Flagged(ch))
        /\ bDamperFlag' = bDamperFlag \ Flagged(ch)
        /\ excused' = excused \cup (Flagged(ch) \cap key)
  BY DEF DamperUp
<1>2. UNCHANGED <<m_nPercussionMask, key>>
  BY DEF DamperUp
<1>3. \A n : Phase(n)' = IF n \in Flagged(ch) THEN "NoteOff" ELSE Phase(n)
  BY <1>1, Said DEF Release
<1>4. UNCHANGED <<EnvelopePhase, sends>> /\ (place' # "loop" => crossed')
  BY <1>1, Said DEF Release
<1>5. \A n \in bDamperFlag : n \in Flagged(ch) <=> n[1] = ch
  BY DEF Flagged, On, KeysInv, All
<1>6. QED
  BY <1>1, <1>2, <1>3, <1>4, <1>5 DEF KeysInv, Percussive

(* Notes that All Notes Off finds are released, and none is left sounding. *)
LEMMA AllReleased ==
  ASSUME KeysInv, AllNotesOff
  PROVE  /\ \A n \in All : Phase(n)' # "NoteOn"
         /\ bDamperFlag' = {} /\ UNCHANGED <<EnvelopePhase, sends>>
         /\ place' # "loop" => crossed'
<1>1. Send(Stores(Sounding, "NoteOff", "nNoteOffTime", 0)) /\ bDamperFlag' = {}
  BY DEF AllNotesOff, Release
<1>2. \A n : /\ Phase(n)' = IF n \in Sounding THEN "NoteOff" ELSE Phase(n)
             /\ Phase(n) = EnvelopePhase[n]
  BY <1>1, Said DEF Send, Sending, Phase
<1>3. \A n \in All : Phase(n)' # "NoteOn"
  BY <1>2 DEF Sounding
<1>4. UNCHANGED <<EnvelopePhase, sends>> /\ (place' # "loop" => crossed')
  BY <1>1, Said
<1>5. QED
  BY <1>1, <1>3, <1>4

LEMMA ChannelModeKeeps == KeysInv /\ ChannelMode => KeysInv'
<1> SUFFICES ASSUME KeysInv, ChannelMode PROVE KeysInv'
  OBVIOUS
<1>1. AllNotesOff /\ key' \subseteq key /\ key' \subseteq excused'
  BY DEF ChannelMode
<1>2. QED
  BY <1>1, AllReleased DEF KeysInv

LEMMA ResetMIDIMonitorKeeps == KeysInv /\ ResetMIDIMonitor => KeysInv'
<1> SUFFICES ASSUME KeysInv, ResetMIDIMonitor PROVE KeysInv'
  OBVIOUS
<1>1. AllNotesOff /\ key' = {}
  BY DEF ResetMIDIMonitor
<1>2. QED
  BY <1>1, AllReleased DEF KeysInv

LEMMA ResetControllersKeeps == KeysInv /\ ResetControllers => KeysInv'
<1> SUFFICES ASSUME KeysInv, ResetControllers PROVE KeysInv'
  OBVIOUS
<1>1. /\ Send(<< >>) /\ excused' = excused \cup bDamperFlag
      /\ UNCHANGED <<bDamperFlag, m_nPercussionMask, key>>
  BY DEF ResetControllers
<1>2. QED
  BY <1>1, NothingSent DEF KeysInv, Percussive

LEMMA SystemResetKeeps == KeysInv /\ SystemReset => KeysInv'
<1> SUFFICES ASSUME KeysInv, SystemReset PROVE KeysInv'
  OBVIOUS
<1>1. /\ Send(<< >>) /\ key' = {} /\ excused' = excused \cup Sounding
      /\ UNCHANGED <<bDamperFlag, nDamper>>
  BY DEF SystemReset, flags
<1>2. QED
  BY <1>1, NothingSent DEF KeysInv, Sounding

LEMMA UseForRhythmPartKeeps == KeysInv /\ UseForRhythmPart => KeysInv'
<1> SUFFICES ASSUME KeysInv, UseForRhythmPart PROVE KeysInv'
  OBVIOUS
<1>1. PICK ch \in Parts :
        /\ m_nPercussionMask' \in {m_nPercussionMask \cup {ch},
                                   m_nPercussionMask \ {ch}}
        /\ excused' = excused \cup (key \cap On(ch))
  BY DEF UseForRhythmPart
<1>2. Send(<< >>) /\ UNCHANGED <<bDamperFlag, nDamper, key>>
  BY DEF UseForRhythmPart
<1>3. \A n \in key \ excused' : n[1] # ch
  BY <1>1 DEF On, KeysInv
<1>4. QED
  BY <1>1, <1>2, <1>3, NothingSent DEF KeysInv, Percussive

----------------------------------------------------------------------------
(* Stores, core 1 and the clock. *)

LEMMA WriteKeeps == MonitorInv /\ MonitorWrite => MonitorInv'
<1> SUFFICES ASSUME MonitorInv, MonitorWrite PROVE MonitorInv'
  OBVIOUS
<1> USE DEF MonitorInv
<1>1. PICK x \in DOMAIN unwritten :
        /\ EnvelopePhase' = Put(EnvelopePhase, x, "EnvelopePhase", unwritten[x])
        /\ nNoteOnTime' = Put(nNoteOnTime, x, "nNoteOnTime", unwritten[x])
        /\ nNoteOffTime' = Put(nNoteOffTime, x, "nNoteOffTime", unwritten[x])
        /\ unwritten' = Restrict(unwritten, DOMAIN unwritten \ {x})
  BY DEF MonitorWrite
<1>2. UNCHANGED <<sends, flags, meter, key, excused, overlaid, crossed>>
  BY DEF MonitorWrite
<1>3. place # "loop" => crossed
  BY <1>1 DEF KeysInv, Sending
<1>4. \A n \in All : Phase(n)' = Phase(n)
  BY <1>1 DEF Phase, Put, Restrict, KeysInv
<1>5. EnvelopePhase' = [n \in All |-> EnvelopePhase'[n]]
  BY <1>1 DEF Put
<1>6. KeysInv'
  BY <1>2, <1>3, <1>4, <1>5 DEF KeysInv, Percussive, flags, meter
<1>7. \A n \in All : OnTime(n)' = OnTime(n) /\ OffTime(n)' = OffTime(n)
  <2>1. \A n \in All : OnTime(n)' = OnTime(n)
    BY <1>1 DEF OnTime, Put, Restrict
  <2>2. \A n \in All : OffTime(n)' = OffTime(n)
    BY <1>1 DEF OffTime, Put, Restrict
  <2>3. QED
    BY <2>1, <2>2
<1>8. nNoteOnTime' \in [All -> 0..Over] /\ nNoteOffTime' \in [All -> Ages]
  <2>1. \A n \in All : nNoteOnTime'[n] \in {nNoteOnTime[n], OnTime(n)}
    BY <1>1 DEF OnTime, Put
  <2>2. \A n \in All : nNoteOffTime'[n] \in {nNoteOffTime[n], OffTime(n)}
    BY <1>1 DEF OffTime, Put
  <2>3. /\ nNoteOnTime' = [n \in All |-> nNoteOnTime'[n]]
        /\ nNoteOffTime' = [n \in All |-> nNoteOffTime'[n]]
    BY <1>1 DEF Put
  <2>4. /\ \A n \in All : nNoteOnTime[n] \in 0..Over /\ OnTime(n) \in 0..Over
        /\ \A n \in All : nNoteOffTime[n] \in Ages /\ OffTime(n) \in Ages
    BY TimesOf
  <2>5. QED
    BY <2>1, <2>2, <2>3, <2>4, Zenon
<1>9. EnvelopeInv'
  BY <1>2, <1>3, <1>7, <1>8 DEF EnvelopeInv, meter
<1>10. QED
  BY <1>6, <1>9

LEMMA ReadClockKeeps ==
  ASSUME NEW n \in All, MonitorInv, ReadClock(n) PROVE MonitorInv'
<1> USE DEF MonitorInv
<1>1. /\ place = "loop" /\ MayEnd(n)
      /\ place' = "compute" /\ note' = n /\ crossed' = Sending
      /\ UNCHANGED <<sends, envelopes, flags, unwritten, clockLag, key, excused,
                     overlaid>>
  BY DEF ReadClock
<1>2. ~Sending => n \notin key \ excused
  BY <1>1 DEF KeysInv, MayEnd, Sending, Phase
<1>3. KeysInv'
  BY <1>1, <1>2 DEF KeysInv, Sending, Phase, Percussive, envelopes, flags
<1>4. ~Sending /\ Owned(n) => Began(n) >= 0
  <2>1. ~Sending => OffTime(n) = nNoteOffTime[n]
    BY DEF Sending, OffTime
  <2>2. nNoteOnTime[n] \in 0..Over /\ (n \notin overlaid => OffTime(n) >= 0)
    BY TimesOf
  <2>3. QED
    BY <2>1, <2>2, MonitorTimeAssumption DEF Began, Owned, Over
<1>5. Began(n)' = Began(n) /\ (Owned(n)' <=> Owned(n))
  BY <1>1 DEF Began, Owned, Percussive, envelopes, flags
<1>6. \A m \in All : OnTime(m)' = OnTime(m) /\ OffTime(m)' = OffTime(m)
  BY <1>1 DEF OnTime, OffTime, envelopes
<1>7. EnvelopeInv'
  BY <1>1, <1>4, <1>5, <1>6, MonitorTimeAssumption DEF EnvelopeInv, envelopes
<1>8. QED
  BY <1>3, <1>7

LEMMA ComputeKeeps == MonitorInv /\ Compute => MonitorInv'
<1> SUFFICES ASSUME MonitorInv, Compute PROVE MonitorInv'
  OBVIOUS
<1> USE DEF MonitorInv
<1>1. /\ place = "compute"
      /\ UNCHANGED <<sends, envelopes, flags, unwritten, key, excused, overlaid>>
  BY DEF Compute
<1> DEFINE Times == \A n \in All : /\ OnTime(n) \in 0..Over /\ OffTime(n) \in Ages
                                   /\ n \notin overlaid => OffTime(n) >= 0
<1>0. Times /\ Times'
  <2>1. \A n \in All : OnTime(n)' = OnTime(n) /\ OffTime(n)' = OffTime(n)
    BY <1>1 DEF OnTime, OffTime, envelopes
  <2>2. QED
    BY <1>1, <2>1, TimesOf DEF Over, Ages
<1>2. CASE Duration(note) > ReleaseTime
  <2>1. place' = "end" /\ UNCHANGED <<note, clockLag, crossed>>
    BY <1>2 DEF Compute
  <2>2. KeysInv'
    BY <1>1, <2>1 DEF KeysInv, Sending, Phase, Percussive, envelopes, flags
  <2>3. ~crossed /\ Owned(note) => Began(note) > ReleaseTime
    <3>1. Began(note) \in Ages \cup 0..Over /\ clockLag \in 0..MaxClockLag
      BY <1>1 DEF EnvelopeInv, Began
    <3>2. ~crossed /\ Owned(note) => Began(note) >= clockLag
      BY <1>1 DEF EnvelopeInv
    <3>3. QED
      BY <1>2, <3>1, <3>2, MonitorTimeAssumption DEF Duration, Over, Ages
  <2>4. Began(note)' = Began(note) /\ (Owned(note)' <=> Owned(note))
    BY <1>1, <2>1 DEF Began, Owned, Percussive, envelopes, flags
  <2>5. EnvelopeInv'
    BY <1>0, <1>1, <2>1, <2>3, <2>4 DEF EnvelopeInv, envelopes
  <2>6. QED
    BY <2>2, <2>5
<1>3. CASE ~(Duration(note) > ReleaseTime)
  <2>1. place' = "loop" /\ clockLag' = 0
    BY <1>3 DEF Compute, NextNote
  <2>2. KeysInv'
    BY <1>1, <2>1 DEF KeysInv, Sending, Phase, Percussive, envelopes, flags
  <2>3. EnvelopeInv'
    BY <1>0, <1>1, <2>1, MonitorTimeAssumption DEF EnvelopeInv, envelopes
  <2>4. QED
    BY <2>2, <2>3
<1>4. QED
  BY <1>2, <1>3

LEMMA EndEnvelopeKeeps == MonitorInv /\ EndEnvelope => MonitorInv'
<1> SUFFICES ASSUME MonitorInv, EndEnvelope PROVE MonitorInv'
  OBVIOUS
<1> USE DEF MonitorInv
<1>1. /\ place = "end" /\ place' = "loop" /\ clockLag' = 0
      /\ EnvelopePhase' = [EnvelopePhase EXCEPT ![note] = "Idle"]
      /\ excused' = IF crossed THEN excused \cup {note} ELSE excused
      /\ UNCHANGED <<sends, nNoteOnTime, nNoteOffTime, flags, unwritten, key,
                     overlaid>>
  BY DEF EndEnvelope, NextNote
<1>2. EnvelopePhase' = [n \in All |-> EnvelopePhase'[n]]
  BY <1>1 DEF KeysInv
<1>3. note \notin key \ excused'
  BY <1>1 DEF KeysInv
<1>4. \A n \in All : Phase(n)' = Phase(n) \/ (n = note /\ Phase(n)' = "Idle")
  BY <1>1 DEF KeysInv, Phase
<1>5. KeysInv'
  BY <1>1, <1>2, <1>3, <1>4 DEF KeysInv, Percussive, flags
<1>6. \A n \in All : OnTime(n)' = OnTime(n) /\ OffTime(n)' = OffTime(n)
  BY <1>1 DEF OnTime, OffTime
<1>7. EnvelopeInv'
  BY <1>1, <1>6, MonitorTimeAssumption DEF EnvelopeInv
<1>8. QED
  BY <1>5, <1>7

LEMMA TickKeeps == MonitorInv /\ MonitorTick => MonitorInv'
<1> SUFFICES ASSUME MonitorInv, MonitorTick PROVE MonitorInv'
  OBVIOUS
<1> USE DEF MonitorInv
<1>1. /\ nNoteOnTime' = [n \in All |-> Aged(nNoteOnTime[n])]
      /\ nNoteOffTime' = [n \in All |-> Aged(nNoteOffTime[n])]
      /\ clockLag' = IF place = "loop" THEN 0 ELSE clockLag + 1
      /\ place # "loop" => clockLag < MaxClockLag
      /\ UNCHANGED <<sends, EnvelopePhase, flags, unwritten, place, note, key, excused,
                     overlaid, crossed>>
      /\ DOMAIN unwritten = {}
  BY DEF MonitorTick, Sending
<1>2. KeysInv'
  BY <1>1 DEF KeysInv, Sending, Phase, Percussive, flags
<1>3. /\ \A t \in 0..Over : Aged(t) \in 0..Over /\ Aged(t) >= t /\ (t = Over \/ Aged(t) = t + 1)
      /\ \A t \in Ages : /\ Aged(t) \in Ages /\ Aged(t) >= t
                         /\ t = Over \/ Aged(t) = t + 1
  BY MonitorTimeAssumption DEF Aged, Over, Ages
<1>4. \A n \in All : /\ nNoteOnTime'[n] = Aged(nNoteOnTime[n])
                     /\ nNoteOffTime'[n] = Aged(nNoteOffTime[n])
  BY <1>1
<1>5. /\ \A n \in All : nNoteOnTime'[n] \in 0..Over /\ nNoteOffTime'[n] \in Ages
      /\ nNoteOnTime' \in [All -> 0..Over] /\ nNoteOffTime' \in [All -> Ages]
  <2>1. \A n \in All : nNoteOnTime'[n] \in 0..Over /\ nNoteOffTime'[n] \in Ages
    BY <1>3, <1>4, TimesOf, Zenon
  <2>2. QED
    BY <1>1, <2>1
<1>6. \A n \in All : /\ OnTime(n)' \in 0..Over /\ OffTime(n)' \in Ages
                     /\ n \notin overlaid' => OffTime(n)' >= 0
  <2> TAKE n \in All
  <2>1. OnTime(n)' = nNoteOnTime'[n] /\ OffTime(n)' = nNoteOffTime'[n]
    BY <1>1 DEF OnTime, OffTime
  <2>2. n \notin overlaid => nNoteOffTime[n] \in Ages /\ nNoteOffTime[n] >= 0
    <3>1. ~Sending
      BY <1>1 DEF Sending
    <3>2. QED
      BY <3>1, TimesOf
  <2>3. n \notin overlaid' => nNoteOffTime'[n] >= 0
    <3>1. nNoteOffTime[n] \in Int /\ Aged(nNoteOffTime[n]) \in Int
          /\ Aged(nNoteOffTime[n]) >= nNoteOffTime[n]
      BY <1>3, TimesOf, MonitorTimeAssumption DEF Ages, Over
    <3>2. UNCHANGED overlaid
      BY <1>1
    <3>3. QED
      BY <1>4, <2>2, <3>1, <3>2
  <2>4. QED
    BY <1>5, <2>1, <2>3
<1>7. note \in All => /\ Began(note)' = Aged(Began(note))
                     /\ Began(note) \in Ages \cup 0..Over
  BY <1>1, <1>4, TimesOf DEF Began, Percussive, flags
<1>8. note \in All => Began(note)' = Over \/ Began(note)' = Began(note) + 1
  <2>1. \A t \in Ages \cup 0..Over : Aged(t) = Over \/ Aged(t) = t + 1
    BY MonitorTimeAssumption DEF Aged, Ages, Over
  <2>2. QED
    BY <1>7, <2>1
<1>9. EnvelopeInv'
  <2>1. clockLag' \in 0..MaxClockLag
    BY <1>1, MonitorTimeAssumption DEF EnvelopeInv
  <2>2. IF place' = "loop" THEN clockLag' = 0 ELSE note' \in All
    BY <1>1 DEF EnvelopeInv
  <2>3. note' = note /\ (Owned(note)' <=> Owned(note))
    BY <1>1 DEF Owned, Percussive, flags
  <2>4. place' = "compute" /\ ~crossed' /\ Owned(note)' => Began(note)' >= clockLag'
    <3>1. SUFFICES ASSUME place = "compute", ~crossed, Owned(note)
                   PROVE  Began(note)' >= clockLag'
      BY <1>1, <2>3
    <3>2. /\ note \in All /\ Began(note) >= clockLag /\ clockLag' = clockLag + 1
          /\ clockLag \in 0..MaxClockLag /\ clockLag < MaxClockLag
      BY <1>1, <3>1 DEF EnvelopeInv
    <3>3. Began(note)' = Over \/ Began(note)' = Began(note) + 1
      BY <1>8, <3>2
    <3>4. QED
      BY <1>7, <3>2, <3>3, MonitorTimeAssumption DEF Over, Ages
  <2>5. place' = "end" /\ ~crossed' /\ Owned(note)' => Began(note)' > ReleaseTime
    <3>1. SUFFICES ASSUME place = "end", ~crossed, Owned(note)
                   PROVE  Began(note)' > ReleaseTime
      BY <1>1, <2>3
    <3>2. note \in All /\ Began(note) > ReleaseTime
      BY <3>1 DEF EnvelopeInv
    <3>3. Began(note)' = Over \/ Began(note)' = Began(note) + 1
      BY <1>8, <3>2
    <3>4. QED
      BY <1>7, <3>2, <3>3, MonitorTimeAssumption DEF Over, Ages
  <2>6. QED
    BY <1>5, <1>6, <2>1, <2>2, <2>3, <2>4, <2>5 DEF EnvelopeInv
<1>10. QED
  BY <1>2, <1>9

(* A message that says nothing of times keeps the envelopes, and so does   *)
(* one that releases notes.                                                *)
LEMMA NothingKeepsEnvelopes ==
  ASSUME EnvelopeInv, Send(<< >>), UNCHANGED overlaid
  PROVE  EnvelopeInv'
<1>1. \A x : x \notin DOMAIN << >>
  OBVIOUS
<1> DEFINE writes == << >>
<1>2. Send(writes) /\ \A x : x \notin DOMAIN writes
  BY <1>1
<1> HIDE DEF writes
<1>3. QED
  BY <1>2, SendKeepsEnvelopes

LEMMA ReleaseKeepsEnvelopes ==
  ASSUME EnvelopeInv, NEW S, Release(S)
  PROVE  EnvelopeInv'
<1> DEFINE writes == Stores(S, "NoteOff", "nNoteOffTime", 0)
<1>1. Send(writes) /\ overlaid' = overlaid \ S
  BY DEF Release
<1>2. \A n : /\ <<n, "nNoteOnTime">> \notin DOMAIN writes
             /\ <<n, "nNoteOffTime">> \in DOMAIN writes <=> n \in S
             /\ n \in S => writes[<<n, "nNoteOffTime">>] = 0
  BY DEF Stores
<1>3. 0 \in Ages
  BY MonitorTimeAssumption DEF Ages, Over
<1> HIDE DEF writes
<1>4. QED
  BY <1>1, <1>2, <1>3, SendKeepsEnvelopes

(* So does a note-on; and note 127, which changes times but says so.       *)
LEMMA NoteOnKeepsEnvelopes ==
  ASSUME EnvelopeInv, NoteOn
  PROVE  EnvelopeInv'
<1>1. PICK n : Send(Stores({n}, "NoteOn", "nNoteOnTime", 0))
  BY DEF NoteOn
<1> DEFINE writes == Stores({n}, "NoteOn", "nNoteOnTime", 0)
<1>2. \A m : /\ <<m, "nNoteOffTime">> \notin DOMAIN writes
             /\ <<m, "nNoteOnTime">> \in DOMAIN writes => writes[<<m, "nNoteOnTime">>] = 0
  BY DEF Stores
<1>3. 0 \in 0..Over
  BY MonitorTimeAssumption DEF Over
<1>4. Send(writes) /\ UNCHANGED overlaid
  BY <1>1 DEF NoteOn
<1> HIDE DEF writes
<1>5. QED
  BY <1>2, <1>3, <1>4, SendKeepsEnvelopes

LEMMA NoteOnBehindKeepsEnvelopes ==
  ASSUME EnvelopeInv, NoteOnBehind
  PROVE  EnvelopeInv'
<1>1. PICK n \in sends.played \ All, phase \in Phases, since \in Ages :
        /\ Send(Stores(Behind(n), phase, "nNoteOffTime", since))
        /\ overlaid' = overlaid \cup Behind(n)
  BY DEF NoteOnBehind
<1> DEFINE writes == Stores(Behind(n), phase, "nNoteOffTime", since)
<1>2. \A m : /\ <<m, "nNoteOnTime">> \notin DOMAIN writes
             /\ <<m, "nNoteOffTime">> \in DOMAIN writes <=> m \in Behind(n)
             /\ m \in Behind(n) => writes[<<m, "nNoteOffTime">>] = since
  BY DEF Stores
<1>3. Send(writes)
  BY <1>1
<1> HIDE DEF writes
<1>4. QED
  BY <1>1, <1>2, <1>3, SendKeepsEnvelopes

LEMMA NoteOffBehindKeepsEnvelopes ==
  ASSUME EnvelopeInv, NoteOffBehind
  PROVE  EnvelopeInv'
<1>1. UNCHANGED overlaid
  BY DEF NoteOffBehind
<1>2. CASE Send(<< >>)
  BY <1>1, <1>2, NothingKeepsEnvelopes
<1>3. ASSUME NEW n, Send([x \in Behind(n) \X {"nNoteOnTime"} |-> 0])
      PROVE  EnvelopeInv'
  <2> DEFINE writes == [x \in Behind(n) \X {"nNoteOnTime"} |-> 0]
  <2>1. /\ \A m : <<m, "nNoteOffTime">> \notin DOMAIN writes
        /\ \A x \in DOMAIN writes : writes[x] = 0
    OBVIOUS
  <2>2. 0 \in 0..Over
    BY MonitorTimeAssumption DEF Over
  <2>3. Send(writes)
    BY <1>3
  <2> HIDE DEF writes
  <2>4. QED
    BY <1>1, <2>1, <2>2, <2>3, SendKeepsEnvelopes
<1>4. QED
  BY <1>2, <1>3 DEF NoteOffBehind

(* Every message keeps the invariant. *)
LEMMA MessageKeeps == MonitorInv /\ (OnShortMessage \/ SysEx) => MonitorInv'
<1> SUFFICES ASSUME MonitorInv, OnShortMessage \/ SysEx PROVE MonitorInv'
  OBVIOUS
<1>1. \/ NoteOn \/ NoteOnBehind \/ NoteOffBehind \/ \E S : Release(S)
      \/ Send(<< >>) /\ UNCHANGED overlaid
  BY DEF OnShortMessage, SysEx, NoteOff, DamperDown, DamperUp,
         ChannelMode, ResetControllers, SystemReset, ResetMIDIMonitor,
         UseForRhythmPart, AllNotesOff
<1>2. EnvelopeInv'
  BY <1>1, NoteOnKeepsEnvelopes, NoteOnBehindKeepsEnvelopes, NoteOffBehindKeepsEnvelopes,
     ReleaseKeepsEnvelopes, NothingKeepsEnvelopes DEF MonitorInv
<1>3. KeysInv'
  BY NoteOnKeeps, NoteOffKeeps, NoteOnBehindKeeps, NoteOffBehindKeeps, DamperDownKeeps, DamperUpKeeps,
     ChannelModeKeeps, ResetControllersKeeps, SystemResetKeeps,
     ResetMIDIMonitorKeeps, UseForRhythmPartKeeps
     DEF MonitorInv, OnShortMessage, SysEx
<1>4. QED
  BY <1>2, <1>3 DEF MonitorInv

(* So does every step, of the monitor and of the parts beside it. *)
LEMMA MonitorKeeps == MonitorInv /\ [DisplayNext]_DisplayVars => MonitorInv'
<1> SUFFICES ASSUME MonitorInv, [DisplayNext]_DisplayVars PROVE MonitorInv'
  OBVIOUS
<1>1. CASE UNCHANGED MonitorVars
  BY <1>1 DEF MonitorVars, MonitorInv, KeysInv, EnvelopeInv, Sending, Phase,
              OnTime, OffTime, Owned, Percussive, Began, envelopes, flags, meter
<1>2. CASE MonitorNext
  <2>1. CASE OnShortMessage \/ SysEx
    BY <2>1, MessageKeeps
  <2>2. CASE MonitorWrite
    BY <2>2, WriteKeeps
  <2>3. CASE \E n \in All : ReadClock(n)
    BY <2>3, ReadClockKeeps
  <2>4. CASE Compute
    BY <2>4, ComputeKeeps
  <2>5. CASE EndEnvelope
    BY <2>5, EndEnvelopeKeeps
  <2>6. CASE MonitorTick
    BY <2>6, TickKeeps
  <2>7. QED
    BY <1>2, <2>1, <2>2, <2>3, <2>4, <2>5, <2>6 DEF MonitorNext, GetChannelLevels
<1>3. QED
  BY <1>1, <1>2 DEF DisplayNext, Parsing, Showing, Metering, DisplayVars

(* Whatever part is at work, the monitor's invariant holds throughout. *)
THEOREM MonitorInvariant == DisplaySpec => []MonitorInv
<1>1. DisplayInit => MonitorInv
  BY MonitorStarts DEF DisplayInit
<1>2. QED
  BY <1>1, MonitorKeeps, PTL DEF DisplaySpec

----------------------------------------------------------------------------
(* The meters follow the keys, up to the notes that are excused. *)
THEOREM MetersFollowKeys == DisplaySpec => []FollowsKeys
<1>1. MonitorInv => FollowsKeys
  <2> SUFFICES ASSUME MonitorInv, ~Sending PROVE FollowsKeys
    BY DEF FollowsKeys
  <2>1. \A n : Phase(n) = EnvelopePhase[n]
    BY DEF Sending, Phase
  <2>2. QED
    BY <2>1 DEF MonitorInv, KeysInv, FollowsKeys, Sounding
<1>2. QED
  BY <1>1, MonitorInvariant, PTL

(* No envelope that a message did not come across is cut short, of no note *)
(* whose time note 127 has not changed.                                    *)
THEOREM EnvelopesEndWhenOver == DisplaySpec => EndsWhenOver
<1> DEFINE Ends == EndEnvelope /\ ~crossed =>
                     IF Percussive(note) THEN nNoteOnTime[note] > ReleaseTime
                     ELSE note \in overlaid \/ nNoteOffTime[note] > ReleaseTime
<1>1. MonitorInv => Ends
  BY DEF MonitorInv, EnvelopeInv, EndEnvelope, Began, Owned
<1>2. MonitorInv /\ [DisplayNext]_DisplayVars => [Ends]_MonitorVars
  BY <1>1
<1>3. EndsWhenOver <=> [][Ends]_MonitorVars
  BY DEF EndsWhenOver
<1>4. QED
  BY <1>2, <1>3, MonitorInvariant, PTL DEF DisplaySpec

----------------------------------------------------------------------------
(* The user interface. *)

Fields == {"m_State", "m_nStateTime", "m_nCurrentScrollOffset",
           "m_SystemMessageTextBuffer", "m_SysExTextBuffer",
           "m_SysExDisplayMessageType"}

(* The members once what core 0 still writes has arrived. *)
After == [f \in Fields |-> IF f \in DOMAIN pending THEN pending[f] ELSE ui[f]]

(* The members with which a text scrolls. *)
Scrolling(u) ==
  \/ u.m_State = "DisplayingMessage"
  \/ u.m_State = "DisplayingSysExText" /\ u.m_SysExDisplayMessageType = "Roland"

(* Such a text begins within what it says, up to the last screen.          *)
Fits(u) ==
  LET length == IF u.m_State = "DisplayingSysExText" THEN u.m_SysExTextBuffer
                ELSE Length[u.m_SystemMessageTextBuffer]
  IN  Scrolling(u)
        => u.m_nCurrentScrollOffset = 0 \/ length - u.m_nCurrentScrollOffset >= Width

WellFormed(u) == /\ u = [f \in Fields |-> u[f]]
                 /\ u.m_nCurrentScrollOffset \in Nat
                 /\ u.m_SystemMessageTextBuffer \in Texts
                 /\ u.m_SysExTextBuffer \in Nat

(* A turn that no call has raced with meets none half done, so that it     *)
(* scrolls the text that it has measured; and what it draws it has lit.    *)
TextInv ==
  /\ WellFormed(ui) /\ WellFormed(After) /\ DOMAIN pending \subseteq Fields
  /\ Turning /\ ~raced => ~Calling
  /\ ~raced => Fits(After)
  /\ pc = "draw" /\ ~raced /\ ui.m_State # "InPowerSavingMode"
       => m_bBacklightEnabled

LEMMA TextStarts == UIInit => TextInv
<1> SUFFICES ASSUME UIInit PROVE TextInv
  OBVIOUS
<1>1. WellFormed(ui)
  BY TextAssumption DEF UIInit, WellFormed, Fields, Texts
<1>2. DOMAIN pending = {}
  BY DEF UIInit
<1>3. After = ui
  BY <1>1, <1>2 DEF After, WellFormed
<1>4. Fits(ui)
  BY DEF UIInit, Fits, Scrolling
<1>5. QED
  BY <1>1, <1>2, <1>3, <1>4 DEF TextInv, UIInit, Turning

(* A call that lets members that fit come to be keeps the invariant. *)
LEMMA AskKeeps ==
  ASSUME TextInv, NEW kind, NEW writes, Ask(kind, writes),
         DOMAIN writes \subseteq Fields,
         WellFormed([f \in Fields |-> IF f \in DOMAIN writes THEN writes[f] ELSE ui[f]]),
         Fits([f \in Fields |-> IF f \in DOMAIN writes THEN writes[f] ELSE ui[f]])
  PROVE  TextInv'
<1>1. /\ pending' = writes /\ raced' = Turning
      /\ UNCHANGED <<ui, m_bBacklightEnabled, pc>>
  BY DEF Ask, ui_vars, turn
<1>2. After' = [f \in Fields |-> IF f \in DOMAIN writes THEN writes[f] ELSE ui[f]]
  BY <1>1 DEF After
<1>3. QED
  BY <1>1, <1>2 DEF TextInv, Turning

LEMMA SystemMessageKeeps ==
  ASSUME TextInv, NEW kind, NEW state, NEW text \in Texts,
         Ask(kind, SystemMessage(state, text))
  PROVE  TextInv'
<1> DEFINE writes == SystemMessage(state, text)
           u == [f \in Fields |-> IF f \in DOMAIN writes THEN writes[f] ELSE ui[f]]
<1>1. DOMAIN writes \subseteq Fields
  BY DEF SystemMessage, Fields
<1>2. WellFormed(u) /\ Fits(u)
  BY DEF SystemMessage, Fields, TextInv, WellFormed, Fits, Scrolling
<1>3. QED
  BY <1>1, <1>2, AskKeeps

(* Where no call is half done, the members are what they will be. *)
LEMMA NothingPending == TextInv /\ ~Calling => After = ui
BY DEF TextInv, WellFormed, Calling, After

LEMMA SysExTextKeeps == TextInv /\ ShowSysExText => TextInv'
<1> SUFFICES ASSUME TextInv, ShowSysExText PROVE TextInv'
  OBVIOUS
<1>1. PICK type \in {"Roland", "Yamaha"}, nOffset \in SysExOffsets, nSize \in SysExSizes :
        Ask("text", [m_SysExTextBuffer |-> TextLength(nOffset, nSize),
                     m_SysExDisplayMessageType |-> type,
                     m_State |-> "DisplayingSysExText",
                     m_nCurrentScrollOffset |-> 0, m_nStateTime |-> 0])
  BY DEF ShowSysExText
<1> DEFINE writes == [m_SysExTextBuffer |-> TextLength(nOffset, nSize),
                      m_SysExDisplayMessageType |-> type,
                      m_State |-> "DisplayingSysExText",
                      m_nCurrentScrollOffset |-> 0, m_nStateTime |-> 0]
           u == [f \in Fields |-> IF f \in DOMAIN writes THEN writes[f] ELSE ui[f]]
<1>2. TextLength(nOffset, nSize) \in Nat
  BY BufferSizeAssumption DEF TextLength
<1>3. DOMAIN writes \subseteq Fields
  BY DEF Fields
<1>4. WellFormed(u) /\ Fits(u)
  BY <1>2 DEF Fields, TextInv, WellFormed, Fits, Scrolling
<1>5. QED
  BY <1>1, <1>3, <1>4, AskKeeps

(* The other calls show nothing that scrolls. *)
LEMMA UnscrolledKeeps ==
  ASSUME TextInv, NEW kind, NEW writes, Ask(kind, writes),
         DOMAIN writes \subseteq Fields \ {"m_nCurrentScrollOffset", "m_SysExTextBuffer"},
         "m_State" \in DOMAIN writes,
         writes["m_State"] \notin {"DisplayingMessage", "DisplayingSysExText"},
         "m_SystemMessageTextBuffer" \in DOMAIN writes
           => writes["m_SystemMessageTextBuffer"] \in Texts
  PROVE  TextInv'
<1> DEFINE u == [f \in Fields |-> IF f \in DOMAIN writes THEN writes[f] ELSE ui[f]]
<1>1. WellFormed(u) /\ Fits(u)
  BY DEF Fields, TextInv, WellFormed, Fits, Scrolling
<1>2. QED
  BY <1>1, AskKeeps

LEMMA CallKeeps == TextInv /\ UICall => TextInv'
<1> SUFFICES ASSUME TextInv, UICall PROVE TextInv'
  OBVIOUS
<1> USE TextAssumption DEF Texts
<1>1. CASE ShowSystemMessage
  BY <1>1, SystemMessageKeeps DEF ShowSystemMessage
<1>2. CASE ClearSpinnerMessage
  <2>1. Ask("spinner", [m_State |-> "None"])
    BY <1>2 DEF ClearSpinnerMessage
  <2>2. QED
    BY <2>1, UnscrolledKeeps DEF Fields
<1>3. CASE DisplayImage
  <2>1. Ask("image", [m_State |-> "DisplayingImage", m_nStateTime |-> 0])
    BY <1>3 DEF DisplayImage
  <2>2. QED
    BY <2>1, UnscrolledKeeps DEF Fields
<1>4. CASE ShowSysExText
  BY <1>4, SysExTextKeeps
<1>5. CASE ShowSysExBitmap
  <2>1. PICK type : Ask("bitmap", [m_SysExDisplayMessageType |-> type,
                                   m_State |-> "DisplayingSysExBitmap",
                                   m_nStateTime |-> 0])
    BY <1>5 DEF ShowSysExBitmap
  <2>2. QED
    BY <2>1, UnscrolledKeeps DEF Fields
<1>6. CASE EnterPowerSavingMode
  <2>1. Ask("power", [m_SystemMessageTextBuffer |-> "power",
                      m_State |-> "EnteringPowerSavingMode", m_nStateTime |-> 0])
    BY <1>6 DEF EnterPowerSavingMode
  <2>2. QED
    BY <2>1, UnscrolledKeeps DEF Fields
<1>7. CASE ExitPowerSavingMode
  <2>1. Ask("power", [m_State |-> "None"])
    BY <1>7 DEF ExitPowerSavingMode
  <2>2. QED
    BY <2>1, UnscrolledKeeps DEF Fields
<1>8. QED
  BY <1>1, <1>2, <1>3, <1>4, <1>5, <1>6, <1>7 DEF UICall

(* A store changes only the time that a call says from what it set out. *)
LEMMA TextWriteKeeps == TextInv /\ Write => TextInv'
<1> SUFFICES ASSUME TextInv, Write PROVE TextInv'
  OBVIOUS
<1>1. PICK f \in DOMAIN pending :
        /\ ui' = [ui EXCEPT ![f] = IF f = "m_nStateTime" THEN age ELSE pending[f]]
        /\ pending' = Restrict(pending, DOMAIN pending \ {f})
  BY DEF Write
<1>2. Calling /\ UNCHANGED <<m_bBacklightEnabled, pc, raced>>
  BY DEF Write, turn, history
<1>3. DOMAIN pending \subseteq Fields /\ DOMAIN pending' = DOMAIN pending \ {f}
  BY <1>1 DEF TextInv, Restrict
<1>4. ui' = [g \in Fields |-> ui'[g]]
  BY <1>1 DEF TextInv, WellFormed
<1>5. \A g \in Fields : ui'[g] = IF g # f THEN ui[g]
                                 ELSE IF f = "m_nStateTime" THEN age ELSE pending[f]
  BY <1>1, <1>3 DEF TextInv, WellFormed
<1>6. \A g \in Fields \ {"m_nStateTime"} : After'[g] = After[g]
  BY <1>1, <1>3, <1>5 DEF After, Restrict
<1>7. \A g \in Fields \ {"m_nStateTime"} : ui'[g] = ui[g] \/ ui'[g] = After[g]
  BY <1>3, <1>5 DEF After
<1>8. WellFormed(ui')
  BY <1>4, <1>7 DEF TextInv, WellFormed, Fields
<1>9. After' = [g \in Fields |-> After'[g]]
  BY DEF After
<1>10. WellFormed(After')
  BY <1>6, <1>9 DEF TextInv, WellFormed, Fields
<1>11. ~raced => Fits(After')
  BY <1>6 DEF TextInv, Fits, Scrolling, Fields
<1>12. Turning => raced
  BY <1>2 DEF TextInv
<1>13. pc = "draw" => Turning
  BY DEF Turning
<1>14. QED
  BY <1>2, <1>3, <1>8, <1>10, <1>11, <1>12, <1>13 DEF TextInv, Turning

(* A step that leaves the members and what is to be stored alone. *)
LEMMA IdleKeeps ==
  ASSUME TextInv, UNCHANGED <<ui, pending>>,
         \/ UNCHANGED raced /\ (Turning' => Turning)
         \/ raced' = (raced \/ Calling),
         \/ UNCHANGED <<pc, m_bBacklightEnabled>>
         \/ pc' = "draw" /\ ui.m_State # "InPowerSavingMode"
              => m_bBacklightEnabled'
  PROVE  TextInv'
<1>1. After' = After
  BY DEF After
<1>2. raced => raced'
  OBVIOUS
<1>3. Turning' /\ ~raced' => ~Calling'
  BY <1>2 DEF TextInv, Calling
<1>4. QED
  BY <1>1, <1>2, <1>3 DEF TextInv

(* A step of core 1 that gives the members what fits, if no call raced.    *)
LEMMA AssignKeeps ==
  ASSUME TextInv, Turning, UNCHANGED <<pending, raced>>, pc' # "draw",
         WellFormed(ui'),
         ~raced /\ ~Calling => Fits(ui')
  PROVE  TextInv'
<1>1. After' = [f \in Fields |-> IF f \in DOMAIN pending THEN After[f] ELSE ui'[f]]
  BY DEF After
<1>2. WellFormed(After')
  BY <1>1 DEF TextInv, WellFormed, Fields
<1>3. ~raced => ~Calling
  BY DEF TextInv
<1>4. ~raced => After' = ui'
  BY <1>1, <1>3 DEF Calling, WellFormed
<1>5. QED
  BY <1>2, <1>3, <1>4 DEF TextInv, Calling

LEMMA UpdateScrollKeeps == TextInv /\ UpdateScroll => TextInv'
<1> SUFFICES ASSUME TextInv, UpdateScroll PROVE TextInv'
  OBVIOUS
<1>1. Turning /\ pc' # "draw" /\ UNCHANGED <<pending, raced>>
  BY DEF UpdateScroll, Goto, Turning, calls, history
<1>2. \/ UNCHANGED ui
      \/ /\ TooLong
         /\ ui' = [ui EXCEPT !.m_nCurrentScrollOffset = @ + 1, !.m_nStateTime = lag]
  BY DEF UpdateScroll
<1>3. WellFormed(ui')
  <2>1. CASE UNCHANGED ui
    BY <2>1 DEF TextInv, WellFormed
  <2>2. CASE ui' = [ui EXCEPT !.m_nCurrentScrollOffset = @ + 1, !.m_nStateTime = lag]
    <3>1. /\ ui'.m_nCurrentScrollOffset = ui.m_nCurrentScrollOffset + 1
          /\ \A f \in Fields \ {"m_nCurrentScrollOffset", "m_nStateTime"} : ui'[f] = ui[f]
      BY <2>2 DEF TextInv, WellFormed, Fields
    <3>2. ui' = [f \in Fields |-> ui'[f]]
      BY <2>2 DEF TextInv, WellFormed
    <3>3. ui'.m_nCurrentScrollOffset \in Nat
      BY <3>1 DEF TextInv, WellFormed
    <3>4. QED
      BY <3>1, <3>2, <3>3 DEF TextInv, WellFormed, Fields
  <2>3. QED
    BY <1>2, <2>1, <2>2
<1>4. ASSUME ~raced, ~Calling PROVE Fits(ui')
  <2>1. Fits(ui)
    BY <1>4, NothingPending DEF TextInv
  <2>2. CASE UNCHANGED ui
    BY <2>1, <2>2
  <2>3. CASE /\ TooLong
             /\ ui' = [ui EXCEPT !.m_nCurrentScrollOffset = @ + 1, !.m_nStateTime = lag]
    <3>1. ui.m_nCurrentScrollOffset \in Nat /\ ShownLength \in Nat
      BY TextAssumption DEF TextInv, WellFormed, ShownLength, Texts
    <3>2. /\ ui'.m_nCurrentScrollOffset = ui.m_nCurrentScrollOffset + 1
          /\ ui'.m_State = ui.m_State
          /\ ui'.m_SysExTextBuffer = ui.m_SysExTextBuffer
          /\ ui'.m_SystemMessageTextBuffer = ui.m_SystemMessageTextBuffer
      BY <2>3 DEF TextInv, WellFormed, Fields
    <3>3. ShownLength - ui'.m_nCurrentScrollOffset >= Width
      BY <2>3, <3>1, <3>2, TextAssumption DEF TooLong
    <3>4. QED
      BY <3>2, <3>3 DEF Fits, Scrolling, ShownLength
  <2>4. QED
    BY <1>2, <2>2, <2>3
<1>5. QED
  BY <1>1, <1>3, <1>4, AssignKeeps

(* What times out, or turns, does not scroll any more. *)
LEMMA TimeoutsKeep ==
  TextInv /\ (Timeout \/ PowerSavingTimeout \/ NoTimeout) => TextInv'
<1> SUFFICES ASSUME TextInv, Timeout \/ PowerSavingTimeout \/ NoTimeout PROVE TextInv'
  OBVIOUS
<1>1. Turning /\ pc' # "draw" /\ UNCHANGED <<pending, raced>>
  BY DEF Timeout, PowerSavingTimeout, NoTimeout, Goto, Turning, calls, history
<1>2. \/ UNCHANGED ui
      \/ \E state \in {"None", "InPowerSavingMode", "DisplayingSpinnerMessage"} :
           ui' = [ui EXCEPT !.m_State = state, !.m_nStateTime = lag]
  BY DEF Timeout, PowerSavingTimeout, NoTimeout, Assign
<1>3. ASSUME NEW state \in {"None", "InPowerSavingMode", "DisplayingSpinnerMessage"},
             ui' = [ui EXCEPT !.m_State = state, !.m_nStateTime = lag]
      PROVE  WellFormed(ui') /\ Fits(ui')
  BY <1>3 DEF TextInv, WellFormed, Fields, Fits, Scrolling
<1>4. WellFormed(ui')
  BY <1>2, <1>3 DEF TextInv
<1>5. ~raced /\ ~Calling => Fits(ui')
  BY <1>2, <1>3, NothingPending DEF TextInv
<1>6. QED
  BY <1>1, <1>4, <1>5, AssignKeeps

(* Time passes for what is shown, and that is all. *)
LEMMA TextTickKeeps == TextInv /\ Tick => TextInv'
<1> SUFFICES ASSUME TextInv, Tick PROVE TextInv'
  OBVIOUS
<1>1. /\ ui' = [ui EXCEPT !.m_nStateTime = Older(@)]
      /\ UNCHANGED <<m_bBacklightEnabled, pending, pc, raced>>
  BY DEF Tick, calls
<1>2. WellFormed(ui') /\ ui'.m_State = ui.m_State
  BY <1>1 DEF TextInv, WellFormed, Fields
<1>3. \A f \in Fields \ {"m_nStateTime"} : After'[f] = After[f]
  BY <1>1 DEF After, TextInv, WellFormed
<1>4. After' = [f \in Fields |-> After'[f]]
  BY DEF After
<1>5. WellFormed(After') /\ (~raced => Fits(After'))
  BY <1>3, <1>4 DEF TextInv, WellFormed, Fits, Scrolling, Fields
<1>6. QED
  BY <1>1, <1>2, <1>5 DEF TextInv, Turning, Calling

LEMMA TextKeeps == TextInv /\ [DisplayNext]_DisplayVars => TextInv'
<1> SUFFICES ASSUME TextInv, [DisplayNext]_DisplayVars PROVE TextInv'
  OBVIOUS
<1>1. CASE UNCHANGED UIVars
  <2>1. UNCHANGED <<ui, pending, raced, pc, m_bBacklightEnabled>>
    BY <1>1 DEF UIVars, ui_vars, turn, calls, history
  <2>2. Turning' => Turning
    BY <2>1 DEF Turning
  <2>3. QED
    BY <2>1, <2>2, IdleKeeps
<1>2. CASE UICall
  BY <1>2, CallKeeps
<1>3. CASE Write
  BY <1>3, TextWriteKeeps
<1>4. CASE Request
  <2>1. UNCHANGED <<ui, pending, raced, pc, m_bBacklightEnabled>>
    BY <1>4 DEF Request, ui_vars, turn, history
  <2>2. Turning' => Turning
    BY <2>1 DEF Turning
  <2>3. QED
    BY <2>1, <2>2, IdleKeeps
<1>5. CASE UpdateScroll
  BY <1>5, UpdateScrollKeeps
<1>6. CASE Timeout \/ PowerSavingTimeout \/ NoTimeout
  BY <1>6, TimeoutsKeep
<1>7. CASE BeginTurn
  BY <1>7, IdleKeeps DEF BeginTurn, Goto, ui_vars, calls
<1>8. CASE Light
  BY <1>8, IdleKeeps DEF Light, Goto, calls, history, Turning
<1>9. CASE ReadScrollTime \/ ReadStateTime \/ Draw
  BY <1>9, IdleKeeps DEF ReadScrollTime, ReadStateTime, Draw, Goto, ui_vars, calls,
                         history, Turning
<1>10. CASE EndTurn \/ Unpark
  BY <1>10, IdleKeeps DEF EndTurn, Unpark, Goto, ui_vars, calls, history, Turning
<1>11. CASE Tick
  BY <1>11, TextTickKeeps
<1>12. QED
  BY <1>1, <1>2, <1>3, <1>4, <1>5, <1>6, <1>7, <1>8, <1>9, <1>10, <1>11
     DEF DisplayNext, Parsing, Showing, Metering, DisplayVars, UINext, Turn

(* Whatever part is at work, the user interface's invariant holds. *)
THEOREM TextInvariant == DisplaySpec => []TextInv
<1>1. DisplayInit => TextInv
  BY TextStarts DEF DisplayInit
<1>2. QED
  BY <1>1, TextKeeps, PTL DEF DisplaySpec

(* What a turn without a race draws is lit and begins within its text. *)
THEOREM DrawnWithinItsText == DisplaySpec => []DrawnWithin
<1>1. TextInv => DrawnWithin
  BY NothingPending DEF TextInv, DrawnWithin, Fits, Scrolling, Scrolls, ShownLength
<1>2. QED
  BY <1>1, TextInvariant, PTL

----------------------------------------------------------------------------
(* The types. *)

(* What a call may set out to write; the time comes from its age.          *)
Writable(w) ==
  /\ DOMAIN w \subseteq Fields
  /\ "m_State" \in DOMAIN w => w.m_State \in States
  /\ "m_nCurrentScrollOffset" \in DOMAIN w => w.m_nCurrentScrollOffset \in Nat
  /\ "m_SystemMessageTextBuffer" \in DOMAIN w => w.m_SystemMessageTextBuffer \in Texts
  /\ "m_SysExTextBuffer" \in DOMAIN w => w.m_SysExTextBuffer \in SysExLengths
  /\ "m_SysExDisplayMessageType" \in DOMAIN w
       => w.m_SysExDisplayMessageType \in {"Roland", "Yamaha"}

UITypeInv == UITypeOK /\ Writable(pending)

(* No text is longer than the longest, and that needs scrolling. *)
LEMMA LongestFacts ==
  /\ Longest \in Nat /\ Longest > Width /\ Longest >= SyxExTextBufferSize - 1
  /\ \A t \in Texts : Longest >= Length[t]
<1> DEFINE L == {Length[t] : t \in Texts} \cup SysExLengths
           Bounds(n) == /\ \A t \in Texts : n >= Length[t]
                        /\ n >= SyxExTextBufferSize - 1
<1>1. PICK m \in Texts : \A t \in Texts : Length[m] >= Length[t]
  BY TextAssumption DEF Texts
<1>2. Length[m] \in Nat /\ SyxExTextBufferSize - 1 \in SysExLengths
  BY TextAssumption, BufferSizeAssumption DEF Texts, SysExLengths
<1>3. \E n \in L : Bounds(n)
  <2>1. CASE Length[m] >= SyxExTextBufferSize - 1
    BY <1>1, <2>1
  <2>2. CASE Length[m] < SyxExTextBufferSize - 1
    <3>1. Bounds(SyxExTextBufferSize - 1)
      BY <1>1, <1>2, <2>2, TextAssumption, BufferSizeAssumption DEF Texts
    <3>2. QED
      BY <1>2, <3>1
  <2>3. QED
    BY <1>2, <2>1, <2>2, BufferSizeAssumption
<1>4. Longest \in L /\ Bounds(Longest)
  BY <1>3 DEF Longest
<1>5. Longest \in Nat
  BY <1>4, TextAssumption DEF Texts, SysExLengths
<1>6. QED
  BY <1>4, <1>5, TextAssumption DEF Texts

(* A turn's nTicks are younger than what counts as old. *)
LEMMA OldIsOld == Old \in Nat /\ MaxLag \in Nat /\ MaxLag <= Old
<1>1. Longest - Width - 1 \in Nat
  BY LongestFacts, TextAssumption
<1>2. (Longest - Width - 1) * ScrollRate \in Nat
  <2>1. \A a, b \in Nat : a * b \in Nat
    OBVIOUS
  <2>2. QED
    BY <1>1, <2>1, TimeAssumption
<1>3. Most(SystemMessageDisplayTime, SC55DisplayTime) \in Nat
  BY TimeAssumption DEF Most
<1>4. QED
  BY <1>2, <1>3, TimeAssumption DEF Old

(* At the start nothing is on its way. *)
LEMMA UITypesStart == UIInit => UITypeInv
<1> SUFFICES ASSUME UIInit PROVE UITypeInv
  OBVIOUS
<1>1. ui \in [m_State : States, m_nStateTime : 0..Old, m_nCurrentScrollOffset : Nat,
              m_SystemMessageTextBuffer : Texts, m_SysExTextBuffer : SysExLengths,
              m_SysExDisplayMessageType : {"Roland", "Yamaha"}]
  BY OldIsOld, TextAssumption, BufferSizeAssumption
     DEF UIInit, States, Texts, SysExLengths
<1>2. DOMAIN pending = {}
  BY DEF UIInit
<1>3. Writable(pending)
  BY <1>2 DEF Writable
<1>4. lag \in 0..MaxLag /\ nDeltaTicks \in 0..Old /\ age \in 0..Old
  BY OldIsOld DEF UIInit
<1>5. QED
  BY <1>1, <1>2, <1>3, <1>4 DEF UIInit, UITypeInv, UITypeOK

(* A call sets out to write what may be there. *)
LEMMA AskTyped ==
  ASSUME UITypeInv, NEW kind, NEW writes, Ask(kind, writes),
         Writable(writes),
         hook' \in {"none", "enter", "exit"}
  PROVE  UITypeInv'
<1>1. /\ pending' = writes /\ age' = 0 /\ raced' = Turning /\ drawn' = FALSE
      /\ UNCHANGED <<ui, m_bBacklightEnabled, pc, lag, nDeltaTicks, m_bIsScrolling, use,
                     m_bPowerSaveRequested>>
  BY DEF Ask, ui_vars, turn
<1>2. raced' \in BOOLEAN
  BY <1>1, Zenon DEF Turning
<1>3. age' \in 0..Old
  BY <1>1, OldIsOld
<1>4. DOMAIN writes \subseteq DOMAIN ui
  BY DEF Writable, UITypeInv, UITypeOK, Fields
<1>5. QED
  BY <1>1, <1>2, <1>3, <1>4, Zenon DEF UITypeInv, UITypeOK

(* Every call sets out to write what may be there. *)
LEMMA CallTyped == UITypeInv /\ UICall => UITypeInv'
<1> SUFFICES ASSUME UITypeInv, UICall PROVE UITypeInv'
  OBVIOUS
<1>2. "power" \in Texts
  BY TextAssumption DEF Texts
<1>3. ASSUME NEW kind, NEW state \in States, NEW text \in Texts,
             Ask(kind, SystemMessage(state, text)), UNCHANGED hook
      PROVE  UITypeInv'
  <2> DEFINE writes == SystemMessage(state, text)
  <2>1. Writable(writes)
    BY <1>3 DEF SystemMessage, Writable, Fields
  <2>2. QED
    BY <1>3, <2>1, AskTyped DEF UITypeInv, UITypeOK
<1>4. CASE ShowSystemMessage
  BY <1>2, <1>3, <1>4 DEF ShowSystemMessage, States
<1>5. CASE ClearSpinnerMessage
  <2> DEFINE writes == [m_State |-> "None"]
  <2>1. Writable(writes)
    BY DEF Writable, Fields, States
  <2>2. QED
    BY <1>5, <2>1, AskTyped DEF ClearSpinnerMessage, UITypeInv, UITypeOK
<1>6. CASE DisplayImage
  <2> DEFINE writes == [m_State |-> "DisplayingImage", m_nStateTime |-> 0]
  <2>1. Writable(writes)
    BY <1>2 DEF Writable, Fields, States
  <2>2. QED
    BY <1>6, <2>1, AskTyped DEF DisplayImage, UITypeInv, UITypeOK
<1>7. CASE ShowSysExText
  <2>1. PICK type \in {"Roland", "Yamaha"}, nOffset \in SysExOffsets, nSize \in SysExSizes :
          /\ nOffset < SyxExTextBufferSize - 1
          /\ Ask("text", [m_SysExTextBuffer |-> TextLength(nOffset, nSize),
                          m_SysExDisplayMessageType |-> type,
                          m_State |-> "DisplayingSysExText",
                          m_nCurrentScrollOffset |-> 0, m_nStateTime |-> 0])
    BY <1>7 DEF ShowSysExText
  <2> DEFINE writes == [m_SysExTextBuffer |-> TextLength(nOffset, nSize),
                        m_SysExDisplayMessageType |-> type,
                        m_State |-> "DisplayingSysExText",
                        m_nCurrentScrollOffset |-> 0, m_nStateTime |-> 0]
  <2>2. TextLength(nOffset, nSize) \in SysExLengths
    BY BufferSizeAssumption DEF TextLength, SysExLengths
  <2>3. Writable(writes)
    BY <2>2 DEF Writable, Fields, States
  <2>4. UNCHANGED hook
    BY <1>7 DEF ShowSysExText
  <2> HIDE DEF writes
  <2>5. QED
    BY <2>1, <2>3, <2>4, AskTyped DEF UITypeInv, UITypeOK, writes
<1>8. CASE ShowSysExBitmap
  <2>1. PICK type \in {"Roland", "Yamaha"} :
          Ask("bitmap", [m_SysExDisplayMessageType |-> type,
                         m_State |-> "DisplayingSysExBitmap", m_nStateTime |-> 0])
    BY <1>8 DEF ShowSysExBitmap
  <2> DEFINE writes == [m_SysExDisplayMessageType |-> type,
                        m_State |-> "DisplayingSysExBitmap", m_nStateTime |-> 0]
  <2>2. Writable(writes)
    BY <1>2 DEF Writable, Fields, States
  <2>3. QED
    BY <1>8, <2>1, <2>2, AskTyped DEF ShowSysExBitmap, UITypeInv, UITypeOK
<1>9. CASE EnterPowerSavingMode
  <2> DEFINE writes == [m_SystemMessageTextBuffer |-> "power",
                        m_State |-> "EnteringPowerSavingMode", m_nStateTime |-> 0]
  <2>1. Writable(writes)
    BY <1>2 DEF Writable, Fields, States
  <2>2. QED
    BY <1>9, <2>1, AskTyped DEF EnterPowerSavingMode
<1>10. CASE ExitPowerSavingMode
  <2> DEFINE writes == [m_State |-> "None"]
  <2>1. Writable(writes)
    BY DEF Writable, Fields, States
  <2>2. QED
    BY <1>10, <2>1, AskTyped DEF ExitPowerSavingMode
<1>11. QED
  BY <1>4, <1>5, <1>6, <1>7, <1>8, <1>9, <1>10 DEF UICall

(* What arrives is what a call set out to write, or its time. *)
LEMMA WriteTyped == UITypeInv /\ Write => UITypeInv'
<1> SUFFICES ASSUME UITypeInv, Write PROVE UITypeInv'
  OBVIOUS
<1>1. PICK f \in DOMAIN pending :
        /\ ui' = [ui EXCEPT ![f] = IF f = "m_nStateTime" THEN age ELSE pending[f]]
        /\ pending' = Restrict(pending, DOMAIN pending \ {f})
  BY DEF Write
<1>2. UNCHANGED <<m_bBacklightEnabled, turn, use, hook, m_bPowerSaveRequested, history>>
  BY DEF Write
<1>3. Writable(pending')
  BY <1>1 DEF UITypeInv, Writable, Restrict
<1>4. f \in Fields
  BY DEF UITypeInv, Writable
<1>5. ui' \in [m_State : States, m_nStateTime : 0..Old, m_nCurrentScrollOffset : Nat,
               m_SystemMessageTextBuffer : Texts, m_SysExTextBuffer : SysExLengths,
               m_SysExDisplayMessageType : {"Roland", "Yamaha"}]
  <2>1. CASE f = "m_nStateTime"
    BY <1>1, <2>1 DEF UITypeInv, UITypeOK
  <2>2. CASE f = "m_State"
    BY <1>1, <2>2 DEF UITypeInv, UITypeOK, Writable
  <2>3. CASE f = "m_nCurrentScrollOffset"
    BY <1>1, <2>3 DEF UITypeInv, UITypeOK, Writable
  <2>4. CASE f = "m_SystemMessageTextBuffer"
    BY <1>1, <2>4 DEF UITypeInv, UITypeOK, Writable
  <2>5. CASE f = "m_SysExTextBuffer"
    BY <1>1, <2>5 DEF UITypeInv, UITypeOK, Writable
  <2>6. CASE f = "m_SysExDisplayMessageType"
    BY <1>1, <2>6 DEF UITypeInv, UITypeOK, Writable
  <2>7. QED
    BY <1>4, <2>1, <2>2, <2>3, <2>4, <2>5, <2>6 DEF Fields
<1>6. DOMAIN pending' \subseteq DOMAIN ui'
  BY <1>3, <1>5 DEF Writable, Fields
<1>7. QED
  BY <1>2, <1>3, <1>5, <1>6, Zenon DEF UITypeInv, UITypeOK, turn, history

(* A fact that SMT needs spelt out among records. *)
LEMMA Successor == \A n \in Nat : n + 1 \in Nat
OBVIOUS

(* Time apart, a turn writes states, and one more for the offset. *)
LEMMA AssignTyped ==
  ASSUME UITypeInv, NEW time \in 0..Old,
         \/ ui' = [ui EXCEPT !.m_nStateTime = time]
         \/ \E state \in States : ui' = [ui EXCEPT !.m_State = state, !.m_nStateTime = time]
         \/ ui' = [ui EXCEPT !.m_nCurrentScrollOffset = @ + 1, !.m_nStateTime = time]
  PROVE  /\ ui' \in [m_State : States, m_nStateTime : 0..Old,
                     m_nCurrentScrollOffset : Nat,
                     m_SystemMessageTextBuffer : Texts, m_SysExTextBuffer : SysExLengths,
                     m_SysExDisplayMessageType : {"Roland", "Yamaha"}]
         /\ DOMAIN ui' = DOMAIN ui
<1>1. CASE ui' = [ui EXCEPT !.m_nStateTime = time]
  BY <1>1 DEF UITypeInv, UITypeOK
<1>2. CASE \E state \in States : ui' = [ui EXCEPT !.m_State = state, !.m_nStateTime = time]
  BY <1>2 DEF UITypeInv, UITypeOK
<1>3. CASE ui' = [ui EXCEPT !.m_nCurrentScrollOffset = @ + 1, !.m_nStateTime = time]
  <2> DEFINE offset == ui.m_nCurrentScrollOffset + 1
  <2>1. ui.m_nCurrentScrollOffset \in Nat
    BY DEF UITypeInv, UITypeOK
  <2>2. offset \in Nat
    BY <2>1, Successor, Zenon
  <2>3. ui' = [ui EXCEPT !.m_nCurrentScrollOffset = offset, !.m_nStateTime = time]
    BY <1>3
  <2> HIDE DEF offset
  <2>4. QED
    BY <2>2, <2>3 DEF UITypeInv, UITypeOK
<1>4. QED
  BY <1>1, <1>2, <1>3

(* What the unsigned difference is taken for is no more than old. *)
LEMMA SinceTyped == UITypeInv => Since \in 0..Old
BY OldIsOld DEF UITypeInv, UITypeOK, Since

(* Every step of a turn leaves times within their bounds. *)
LEMMA TurnTyped == UITypeInv /\ Turn => UITypeInv'
<1> SUFFICES ASSUME UITypeInv, Turn PROVE UITypeInv'
  OBVIOUS
<1> DEFINE Record == [m_State : States, m_nStateTime : 0..Old,
                      m_nCurrentScrollOffset : Nat,
                      m_SystemMessageTextBuffer : Texts, m_SysExTextBuffer : SysExLengths,
                      m_SysExDisplayMessageType : {"Roland", "Yamaha"}]
<1>1. UNCHANGED <<calls, age>>
  BY DEF Turn, BeginTurn, ReadScrollTime, UpdateScroll, ReadStateTime, Timeout,
         PowerSavingTimeout, NoTimeout, Light, Draw, EndTurn, Unpark, history
<1>2. pc' \in {"loop", "scroll", "scrolling", "timeout", "assign", "light",
              "draw", "test", "parked"}
  BY DEF Turn, BeginTurn, ReadScrollTime, UpdateScroll, ReadStateTime, Timeout,
         PowerSavingTimeout, NoTimeout, Light, Draw, EndTurn, Unpark, Goto
<1>3. lag' \in 0..MaxLag
  <2>1. lag' = lag \/ lag' = 0
    BY DEF Turn, BeginTurn, ReadScrollTime, UpdateScroll, ReadStateTime, Timeout,
           PowerSavingTimeout, NoTimeout, Light, Draw, EndTurn, Unpark
  <2>2. QED
    BY <2>1, OldIsOld DEF UITypeInv, UITypeOK
<1>4. nDeltaTicks' \in 0..Old
  <2>1. nDeltaTicks' = nDeltaTicks \/ nDeltaTicks' = Since \/ nDeltaTicks' = 0
    BY DEF Turn, BeginTurn, ReadScrollTime, UpdateScroll, ReadStateTime, Timeout,
           PowerSavingTimeout, NoTimeout, Light, Draw, EndTurn, Unpark
  <2>2. QED
    BY <2>1, OldIsOld, SinceTyped DEF UITypeInv, UITypeOK
<1>5. ui' \in Record /\ DOMAIN ui' = DOMAIN ui
  <2>1. lag \in 0..Old
    BY OldIsOld DEF UITypeInv, UITypeOK
  <2>2. CASE UNCHANGED ui
    BY <2>2 DEF UITypeInv, UITypeOK
  <2>3. CASE \E state \in States : Assign(state)
    BY <2>1, <2>3, AssignTyped DEF Assign
  <2>4. CASE ui' = [ui EXCEPT !.m_nCurrentScrollOffset = @ + 1, !.m_nStateTime = lag]
    BY <2>1, <2>4, AssignTyped
  <2>5. UNCHANGED ui \/ (\E state \in States : Assign(state))
        \/ ui' = [ui EXCEPT !.m_nCurrentScrollOffset = @ + 1, !.m_nStateTime = lag]
    BY DEF Turn, BeginTurn, ReadScrollTime, UpdateScroll, ReadStateTime, Timeout,
           PowerSavingTimeout, NoTimeout, Light, Draw, EndTurn, Unpark, ui_vars, States
  <2>6. QED
    BY <2>2, <2>3, <2>4, <2>5
<1>6. m_bBacklightEnabled' \in BOOLEAN
  BY Zenon
     DEF Turn, BeginTurn, ReadScrollTime, UpdateScroll, ReadStateTime, Timeout,
         PowerSavingTimeout, NoTimeout, Light, Draw, EndTurn, Unpark, ui_vars,
         UITypeInv, UITypeOK
<1>7. m_bIsScrolling' \in BOOLEAN
  BY Zenon
     DEF Turn, BeginTurn, ReadScrollTime, UpdateScroll, ReadStateTime, Timeout,
         PowerSavingTimeout, NoTimeout, Light, Draw, EndTurn, Unpark, UITypeInv, UITypeOK
<1>8. raced' \in BOOLEAN /\ drawn' \in BOOLEAN
  BY Zenon
     DEF Turn, BeginTurn, ReadScrollTime, UpdateScroll, ReadStateTime, Timeout,
         PowerSavingTimeout, NoTimeout, Light, Draw, EndTurn, Unpark, history,
         UITypeInv, UITypeOK
<1>9. QED
  BY <1>1, <1>2, <1>3, <1>4, <1>5, <1>6, <1>7, <1>8, Zenon DEF UITypeInv, UITypeOK, calls

(* Ages never pass Old. *)
LEMMA TickTyped == UITypeInv /\ Tick => UITypeInv'
<1> SUFFICES ASSUME UITypeInv, Tick PROVE UITypeInv'
  OBVIOUS
<1>1. UNCHANGED <<m_bBacklightEnabled, calls, pc, nDeltaTicks, m_bIsScrolling, raced, drawn>>
  BY DEF Tick
<1>2. \A n \in 0..Old : Older(n) \in 0..Old
  BY OldIsOld DEF Older
<1>3. lag' \in 0..MaxLag
  BY OldIsOld DEF Tick, UITypeInv, UITypeOK
<1>4. age' \in 0..Old
  BY <1>2 DEF Tick, UITypeInv, UITypeOK
<1>5. /\ Older(ui.m_nStateTime) \in 0..Old
      /\ ui' = [ui EXCEPT !.m_nStateTime = Older(ui.m_nStateTime)]
  BY <1>2 DEF Tick, UITypeInv, UITypeOK
<1>6. /\ ui' \in [m_State : States, m_nStateTime : 0..Old,
                  m_nCurrentScrollOffset : Nat,
                  m_SystemMessageTextBuffer : Texts, m_SysExTextBuffer : SysExLengths,
                  m_SysExDisplayMessageType : {"Roland", "Yamaha"}]
      /\ DOMAIN ui' = DOMAIN ui
  BY <1>5, AssignTyped
<1>7. QED
  BY <1>1, <1>3, <1>4, <1>6, Zenon DEF UITypeInv, UITypeOK, calls

(* The types of the user interface are inductive. *)
LEMMA UITyped == UITypeInv /\ [DisplayNext]_DisplayVars => UITypeInv'
<1> SUFFICES ASSUME UITypeInv, [DisplayNext]_DisplayVars PROVE UITypeInv'
  OBVIOUS
<1>1. CASE UNCHANGED UIVars
  BY <1>1, ZenonT(30)
     DEF UIVars, ui_vars, turn, calls, history, UITypeInv, UITypeOK
<1>2. CASE UICall
  BY <1>2, CallTyped
<1>3. CASE Write
  BY <1>3, WriteTyped
<1>4. CASE Request
  <2>1. /\ UNCHANGED <<ui_vars, turn, use, pending, history>>
        /\ hook' = "none" /\ m_bPowerSaveRequested' = (hook = "enter")
    BY <1>4 DEF Request
  <2>2. QED
    BY <2>1, Zenon DEF ui_vars, turn, history, UITypeInv, UITypeOK
<1>5. CASE Turn
  BY <1>5, TurnTyped
<1>6. CASE Tick
  BY <1>6, TickTyped
<1>7. QED
  BY <1>1, <1>2, <1>3, <1>4, <1>5, <1>6
     DEF DisplayNext, Parsing, Showing, Metering, DisplayVars, UINext

(* What is on its way to core 1 are phases of notes and their times. *)
NoteFields == All \X {"EnvelopePhase", "nNoteOnTime", "nNoteOffTime"}
ValuesOf(field) == CASE field = "EnvelopePhase" -> Phases
                     [] field = "nNoteOnTime" -> 0..Over
                     [] field = "nNoteOffTime" -> Ages
Storable(w) == /\ DOMAIN w \subseteq NoteFields
               /\ \A x \in DOMAIN w : w[x] \in ValuesOf(x[2])
MonitorTypeInv ==
  /\ MonitorTypeOK
  /\ Storable(unwritten)
  /\ place # "loop" => note \in All

(* At the start every note is idle. *)
LEMMA MonitorTypesStart == MonitorInit => MonitorTypeInv
<1> SUFFICES ASSUME MonitorInit PROVE MonitorTypeInv
  OBVIOUS
<1>1. DOMAIN unwritten = {}
  BY DEF MonitorInit
<1>2. Over \in 0..Over /\ Over \in Ages /\ 0 \in 0..MaxClockLag
  BY MonitorTimeAssumption DEF Over, Ages
<1>3. QED
  BY <1>1, <1>2 DEF MonitorInit, MonitorTypeInv, MonitorTypeOK, Storable, Phases

(* A message that says what some of the notes are to hold. *)
LEMMA SendTyped ==
  ASSUME MonitorTypeInv, NEW writes, Send(writes), Storable(writes),
         bDamperFlag' \subseteq All, nDamper' \subseteq Channels,
         m_nPercussionMask' \subseteq Channels, key' \subseteq Keys,
         excused' \subseteq Keys, overlaid' \subseteq All
  PROVE  MonitorTypeInv'
<1>1. /\ unwritten' = writes /\ crossed' = (place # "loop")
      /\ UNCHANGED <<sends, EnvelopePhase, nNoteOnTime, nNoteOffTime, place, note, clockLag>>
  BY DEF Send, envelopes, meter
<1>2. crossed' \in BOOLEAN
  BY <1>1, Zenon
<1>3. Storable(unwritten)'
  BY <1>1, Zenon DEF Storable, NoteFields, ValuesOf, Phases, Ages, Over
<1>4. DOMAIN unwritten' \subseteq All \X {"EnvelopePhase", "nNoteOnTime", "nNoteOffTime"}
  BY <1>1, Zenon DEF Storable, NoteFields
<1>5. QED
  BY <1>1, <1>2, <1>3, <1>4, Zenon DEF MonitorTypeInv, MonitorTypeOK, Phases, Ages, Over

(* The stores for notes may be made, if their values may. *)
LEMMA StoresTyped ==
  ASSUME NEW S \in SUBSET All, NEW phase \in Phases,
         NEW time \in {"nNoteOnTime", "nNoteOffTime"}, NEW since \in ValuesOf(time)
  PROVE  Storable(Stores(S, phase, time, since))
<1> DEFINE w == Stores(S, phase, time, since)
<1>1. DOMAIN w = S \X {"EnvelopePhase", time}
  BY DEF Stores
<1>2. DOMAIN w \subseteq NoteFields
  BY <1>1 DEF NoteFields
<1>3. \A x \in DOMAIN w : w[x] \in ValuesOf(x[2])
  <2> TAKE x \in DOMAIN w
  <2>1. CASE x[2] = time
    <3>1. w[x] = since
      BY <2>1 DEF Stores
    <3>2. QED
      BY <2>1, <3>1, Zenon
  <2>2. CASE x[2] # time
    <3>1. w[x] = phase /\ x[2] = "EnvelopePhase"
      BY <1>1, <2>2 DEF Stores
    <3>2. QED
      BY <3>1 DEF ValuesOf
  <2>3. QED
    BY <2>1, <2>2
<1>4. QED
  BY <1>2, <1>3 DEF Storable

(* So may those of notes that are released, and none at all. *)
LEMMA ReleaseTyped ==
  /\ \A S \in SUBSET All : Storable(Stores(S, "NoteOff", "nNoteOffTime", 0))
  /\ Storable(<< >>)
<1>1. 0 \in ValuesOf("nNoteOffTime") /\ "NoteOff" \in Phases
  BY MonitorTimeAssumption DEF ValuesOf, Ages, Over, Phases
<1>2. \A S \in SUBSET All : Storable(Stores(S, "NoteOff", "nNoteOffTime", 0))
  BY <1>1, StoresTyped
<1>3. \A x : x \notin DOMAIN << >>
  OBVIOUS
<1>4. Storable(<< >>)
  BY <1>3 DEF Storable
<1>5. QED
  BY <1>2, <1>4

(* Every message writes phases and times of notes. *)
LEMMA MessageTyped == MonitorTypeInv /\ (OnShortMessage \/ SysEx) => MonitorTypeInv'
<1> SUFFICES ASSUME MonitorTypeInv, OnShortMessage \/ SysEx PROVE MonitorTypeInv'
  OBVIOUS
<1> USE DEF flags
<1>1. /\ bDamperFlag \subseteq All /\ nDamper \subseteq Channels /\ key \subseteq Keys
      /\ m_nPercussionMask \subseteq Channels /\ excused \subseteq Keys
      /\ Parts \subseteq Channels /\ Channels \cap {9} \subseteq Channels
      /\ sends.played \subseteq Keys /\ Sounding \subseteq All /\ All \subseteq Keys
      /\ overlaid \subseteq All
  BY ChannelAssumption, SendsAssumption DEF MonitorTypeInv, MonitorTypeOK, Sounding, All
<1>2. CASE NoteOn
  <2>1. PICK n \in sends.played \cap All :
          /\ Send(Stores({n}, "NoteOn", "nNoteOnTime", 0))
          /\ bDamperFlag' = IF n[1] \in nDamper THEN bDamperFlag \cup {n}
                                                ELSE bDamperFlag \ {n}
          /\ key' = key \cup {n}
          /\ excused' = IF Percussive(n) THEN excused \cup {n} ELSE excused \ {n}
    BY <1>2 DEF NoteOn
  <2>2. 0 \in ValuesOf("nNoteOnTime") /\ "NoteOn" \in Phases
    BY MonitorTimeAssumption DEF ValuesOf, Over, Phases
  <2>3. Storable(Stores({n}, "NoteOn", "nNoteOnTime", 0))
    BY <2>2, StoresTyped
  <2>4. bDamperFlag' \subseteq All /\ key' \subseteq Keys /\ excused' \subseteq Keys
    BY <1>1, <2>1
  <2>5. UNCHANGED <<nDamper, m_nPercussionMask, overlaid>>
    BY <1>2 DEF NoteOn
  <2>6. QED
    BY <1>1, <2>1, <2>3, <2>4, <2>5, SendTyped
<1>3. CASE NoteOff
  <2>1. PICK n \in All : Release({n} \ bDamperFlag) /\ key' = key \ {n}
    BY <1>3 DEF NoteOff
  <2>2. Storable(Stores({n} \ bDamperFlag, "NoteOff", "nNoteOffTime", 0))
    BY ReleaseTyped
  <2>3. key' \subseteq Keys /\ overlaid' \subseteq All /\ UNCHANGED <<flags, excused>>
    BY <1>1, <1>3, <2>1 DEF NoteOff, Release
  <2>4. QED
    BY <1>1, <2>1, <2>2, <2>3, SendTyped DEF Release
<1>4. CASE NoteOnBehind
  <2>1. PICK n \in sends.played \ All, phase \in Phases, since \in Ages :
          /\ Send(Stores(Behind(n), phase, "nNoteOffTime", since))
          /\ PhaseBehind(n)
          /\ key' = key \cup {n}
          /\ excused' = excused \cup {n} \cup Behind(n) \cup FlaggedBehind(n)
          /\ overlaid' = overlaid \cup Behind(n)
    BY <1>4 DEF NoteOnBehind
  <2>2. Behind(n) \in SUBSET All /\ FlaggedBehind(n) \subseteq All
    BY <1>1 DEF Behind, FlaggedBehind
  <2>3. Storable(Stores(Behind(n), phase, "nNoteOffTime", since))
    BY <2>2, StoresTyped DEF ValuesOf
  <2>4. /\ key' \subseteq Keys /\ excused' \subseteq Keys /\ overlaid' \subseteq All
        /\ bDamperFlag' \subseteq All /\ nDamper' \subseteq Channels
        /\ m_nPercussionMask' \subseteq Channels
    BY <1>1, <2>1, <2>2 DEF PhaseBehind
  <2>5. QED
    BY <2>1, <2>3, <2>4, SendTyped
<1>5. CASE NoteOffBehind
  <2>1. PICK n \in sends.played \ All :
          /\ key' = key \ {n}
          /\ \/ Send(<< >>) /\ UNCHANGED <<flags, excused>>
             \/ /\ Send([x \in Behind(n) \X {"nNoteOnTime"} |-> 0])
                /\ PhaseBehind(n)
                /\ excused' = excused \cup FlaggedBehind(n)
    BY <1>5 DEF NoteOffBehind
  <2>2. FlaggedBehind(n) \subseteq All /\ UNCHANGED overlaid
    BY <1>1, <1>5 DEF FlaggedBehind, NoteOffBehind
  <2>3. /\ key' \subseteq Keys /\ excused' \subseteq Keys /\ overlaid' \subseteq All
        /\ bDamperFlag' \subseteq All /\ nDamper' \subseteq Channels
        /\ m_nPercussionMask' \subseteq Channels
    BY <1>1, <2>1, <2>2 DEF PhaseBehind
  <2>4. Storable([x \in Behind(n) \X {"nNoteOnTime"} |-> 0])
    <3>1. Behind(n) \subseteq All /\ 0 \in ValuesOf("nNoteOnTime")
      BY MonitorTimeAssumption DEF Behind, ValuesOf, Over
    <3>2. QED
      BY <3>1 DEF Storable, NoteFields
  <2>5. QED
    BY <2>1, <2>3, <2>4, ReleaseTyped, SendTyped
<1>6. CASE DamperDown \/ ResetControllers \/ SystemReset
  <2>1. Send(<< >>)
    BY <1>6 DEF DamperDown, ResetControllers, SystemReset
  <2>2. /\ bDamperFlag' \subseteq All /\ nDamper' \subseteq Channels
        /\ m_nPercussionMask' \subseteq Channels /\ key' \subseteq Keys
        /\ excused' \subseteq Keys /\ overlaid' \subseteq All
    BY <1>1, <1>6 DEF DamperDown, ResetControllers, SystemReset
  <2>3. QED
    BY <2>1, <2>2, ReleaseTyped, SendTyped
<1>7. CASE DamperUp
  <2>1. PICK ch \in Parts : /\ nDamper' = nDamper \ {ch} /\ Release(Flagged(ch))
                            /\ bDamperFlag' = bDamperFlag \ Flagged(ch)
                            /\ excused' = excused \cup (Flagged(ch) \cap key)
    BY <1>7 DEF DamperUp
  <2>2. Storable(Stores(Flagged(ch), "NoteOff", "nNoteOffTime", 0))
    BY <1>1, ReleaseTyped DEF Flagged
  <2>3. /\ bDamperFlag' \subseteq All /\ nDamper' \subseteq Channels
        /\ m_nPercussionMask' \subseteq Channels /\ key' \subseteq Keys
        /\ excused' \subseteq Keys /\ overlaid' \subseteq All
    BY <1>1, <1>7, <2>1 DEF DamperUp, Release
  <2>4. QED
    BY <2>1, <2>2, <2>3, SendTyped DEF Release
<1>8. CASE ChannelMode \/ ResetMIDIMonitor
  <2>1. Release(Sounding) /\ bDamperFlag' = {}
    BY <1>8 DEF ChannelMode, ResetMIDIMonitor, AllNotesOff
  <2>2. /\ nDamper' \subseteq Channels
        /\ m_nPercussionMask' \subseteq Channels /\ key' \subseteq Keys
        /\ excused' \subseteq Keys /\ overlaid' \subseteq All
    BY <1>1, <1>8, <2>1 DEF ChannelMode, ResetMIDIMonitor, Release
  <2>3. Storable(Stores(Sounding, "NoteOff", "nNoteOffTime", 0))
    BY <1>1, ReleaseTyped
  <2>4. QED
    BY <1>1, <2>1, <2>2, <2>3, SendTyped DEF Release
<1>9. CASE UseForRhythmPart
  <2>1. Send(<< >>) /\ UNCHANGED <<bDamperFlag, nDamper, key, overlaid>>
    BY <1>9 DEF UseForRhythmPart
  <2>2. m_nPercussionMask' \subseteq Channels /\ excused' \subseteq Keys
    BY <1>1, <1>9 DEF UseForRhythmPart
  <2>3. QED
    BY <1>1, <2>1, <2>2, ReleaseTyped, SendTyped
<1>10. QED
  BY <1>2, <1>3, <1>4, <1>5, <1>6, <1>7, <1>8, <1>9 DEF OnShortMessage, SysEx

(* What arrives is the phase or a time of a note. *)
LEMMA MonitorWriteTyped == MonitorTypeInv /\ MonitorWrite => MonitorTypeInv'
<1> SUFFICES ASSUME MonitorTypeInv, MonitorWrite PROVE MonitorTypeInv'
  OBVIOUS
<1>1. PICK x \in DOMAIN unwritten :
       /\ EnvelopePhase' = Put(EnvelopePhase, x, "EnvelopePhase", unwritten[x])
       /\ nNoteOnTime' = Put(nNoteOnTime, x, "nNoteOnTime", unwritten[x])
       /\ nNoteOffTime' = Put(nNoteOffTime, x, "nNoteOffTime", unwritten[x])
       /\ unwritten' = Restrict(unwritten, DOMAIN unwritten \ {x})
  BY DEF MonitorWrite
<1>2. UNCHANGED <<sends, flags, meter, key, excused, overlaid, crossed>>
  BY DEF MonitorWrite
<1>3. unwritten[x] \in ValuesOf(x[2])
  BY DEF MonitorTypeInv, Storable
<1>4. \A n, field : x = <<n, field>> => unwritten[x] \in ValuesOf(field)
  BY <1>3
<1>5. /\ ValuesOf("EnvelopePhase") = Phases /\ ValuesOf("nNoteOnTime") = 0..Over
      /\ ValuesOf("nNoteOffTime") = Ages
  BY DEF ValuesOf
<1>6. /\ EnvelopePhase' \in [All -> Phases]
      /\ nNoteOnTime' \in [All -> 0..Over] /\ nNoteOffTime' \in [All -> Ages]
  BY <1>1, <1>4, <1>5, Zenon DEF MonitorTypeInv, MonitorTypeOK, Put
<1>7. /\ DOMAIN unwritten' \subseteq DOMAIN unwritten
      /\ \A y \in DOMAIN unwritten' : unwritten'[y] = unwritten[y]
  BY <1>1 DEF Restrict
<1>8. Storable(unwritten)'
  BY <1>7, Zenon DEF MonitorTypeInv, Storable, NoteFields, ValuesOf, Phases, Ages, Over
<1>9. QED
  BY <1>2, <1>6, <1>7, <1>8, Zenon DEF MonitorTypeInv, MonitorTypeOK, flags, meter, Phases,
     Ages, Over

(* Core 1 ends envelopes of notes, and of no others. *)
LEMMA LevelsTyped == MonitorTypeInv /\ GetChannelLevels => MonitorTypeInv'
<1> SUFFICES ASSUME MonitorTypeInv, GetChannelLevels PROVE MonitorTypeInv'
  OBVIOUS
<1>1. UNCHANGED <<sends, flags, unwritten, nNoteOnTime, nNoteOffTime, key, overlaid>>
  BY DEF GetChannelLevels, ReadClock, Compute, EndEnvelope, envelopes
<1>2. EnvelopePhase' \in [All -> Phases]
  <2>1. EnvelopePhase' = EnvelopePhase
        \/ EnvelopePhase' = [EnvelopePhase EXCEPT ![note] = "Idle"]
    BY DEF GetChannelLevels, ReadClock, Compute, EndEnvelope, envelopes
  <2>2. QED
    BY <2>1 DEF MonitorTypeInv, MonitorTypeOK, Phases
<1>3. /\ place' \in {"loop", "compute", "end"} /\ note' \in All \cup {Nothing}
      /\ place' # "loop" => note' \in All
  BY DEF GetChannelLevels, ReadClock, Compute, EndEnvelope, NextNote, MonitorTypeInv,
         MonitorTypeOK
<1>4. clockLag' \in 0..MaxClockLag
  <2>1. clockLag' = clockLag \/ clockLag' = 0
    BY DEF GetChannelLevels, ReadClock, Compute, EndEnvelope, NextNote
  <2>2. QED
    BY <2>1, MonitorTimeAssumption DEF MonitorTypeInv, MonitorTypeOK
<1>5. crossed' \in BOOLEAN
  BY Zenon DEF GetChannelLevels, ReadClock, Compute, EndEnvelope, Sending, MonitorTypeInv,
     MonitorTypeOK
<1>6. excused' \subseteq Keys
  <2>1. CASE UNCHANGED excused
    BY <2>1 DEF MonitorTypeInv, MonitorTypeOK
  <2>2. CASE EndEnvelope
    BY <2>2 DEF EndEnvelope, MonitorTypeInv, MonitorTypeOK, All
  <2>3. QED
    BY <2>1, <2>2 DEF GetChannelLevels, ReadClock, Compute
<1>7. QED
  BY <1>1, <1>2, <1>3, <1>4, <1>5, <1>6, Zenon DEF MonitorTypeInv, MonitorTypeOK, flags,
     Storable, NoteFields, ValuesOf, Phases, Ages, Over

(* Ages never pass Over. *)
LEMMA MonitorTickTyped == MonitorTypeInv /\ MonitorTick => MonitorTypeInv'
<1> SUFFICES ASSUME MonitorTypeInv, MonitorTick PROVE MonitorTypeInv'
  OBVIOUS
<1>1. /\ \A n \in 0..Over : Aged(n) \in 0..Over
      /\ \A n \in Ages : Aged(n) \in Ages
  BY MonitorTimeAssumption DEF Aged, Over, Ages
<1>2. nNoteOnTime' \in [All -> 0..Over] /\ nNoteOffTime' \in [All -> Ages]
  BY <1>1, Zenon DEF MonitorTick, MonitorTypeInv, MonitorTypeOK
<1>3. clockLag' \in 0..MaxClockLag
  BY MonitorTimeAssumption DEF MonitorTick, MonitorTypeInv, MonitorTypeOK
<1>4. UNCHANGED <<sends, EnvelopePhase, flags, unwritten, place, note, key, excused,
                overlaid, crossed>>
  BY DEF MonitorTick
<1>5. QED
  BY <1>2, <1>3, <1>4, Zenon DEF MonitorTypeInv, MonitorTypeOK, flags, Storable,
     NoteFields, ValuesOf, Phases, Ages, Over

(* The types of the monitor are inductive. *)
LEMMA MonitorTyped == MonitorTypeInv /\ [DisplayNext]_DisplayVars => MonitorTypeInv'
<1> SUFFICES ASSUME MonitorTypeInv, [DisplayNext]_DisplayVars PROVE MonitorTypeInv'
  OBVIOUS
<1>1. CASE UNCHANGED MonitorVars
  BY <1>1, Zenon
     DEF MonitorVars, envelopes, flags, meter, MonitorTypeInv, MonitorTypeOK, Storable,
         NoteFields, ValuesOf, Phases, Ages, Over
<1>2. CASE OnShortMessage \/ SysEx
  BY <1>2, MessageTyped
<1>3. CASE MonitorWrite
  BY <1>3, MonitorWriteTyped
<1>4. CASE GetChannelLevels
  BY <1>4, LevelsTyped
<1>5. CASE MonitorTick
  BY <1>5, MonitorTickTyped
<1>6. QED
  BY <1>1, <1>2, <1>3, <1>4, <1>5
     DEF DisplayNext, Parsing, Showing, Metering, DisplayVars, MonitorNext

(* The parser types, and what the others rest on, as one. *)
DisplayTypeInv == TypeOK /\ BufferInv /\ UITypeInv /\ MonitorTypeInv

(* As long as no tune request arrives, every member of the parser, of the  *)
(* user interface and of the monitor holds what it is declared for.        *)
THEOREM DisplayTypeCorrect ==
  ASSUME TuneRequest \notin Byte
  PROVE  DisplaySpec => []DisplayTypeOK
<1>1. DisplayInit => DisplayTypeInv
  BY KeptInit, UITypesStart, MonitorTypesStart DEF DisplayInit, DisplayTypeInv
<1>2. DisplayTypeInv /\ [DisplayNext]_DisplayVars => DisplayTypeInv'
  <2> SUFFICES ASSUME DisplayTypeInv, [DisplayNext]_DisplayVars PROVE DisplayTypeInv'
    OBVIOUS
  <2>1. [Next]_parser
    BY Zenon DEF DisplayNext, Parsing, Showing, Metering, DisplayVars
  <2>2. TypeOK' /\ BufferInv'
    BY <2>1, KeptStep, Zenon DEF DisplayTypeInv
  <2>3. UITypeInv' /\ MonitorTypeInv'
    BY UITyped, MonitorTyped, Zenon DEF DisplayTypeInv
  <2>4. QED
    BY <2>2, <2>3 DEF DisplayTypeInv
<1>3. DisplayTypeInv => DisplayTypeOK
  BY Zenon DEF DisplayTypeInv, DisplayTypeOK, UITypeInv, MonitorTypeInv
<1>4. QED
  BY <1>1, <1>2, <1>3, PTL DEF DisplaySpec

----------------------------------------------------------------------------
(* What makes way by itself. *)
Timed(u) == u.m_State \in {"DisplayingMessage", "DisplayingImage", "DisplayingSysExText",
                           "DisplayingSysExBitmap", "EnteringPowerSavingMode"}

(* The time that so many steps of scrolling take, and those so far. *)
Steps(n) == IF n = 0 THEN 0 ELSE ScrollDelay + (n - 1) * ScrollRate
Spent(u) == IF Scrolling(u) THEN Steps(u.m_nCurrentScrollOffset) ELSE 0

(* The latest call is so long ago, or longer than anything stays. *)
Lasted(n) == age = Old \/ age >= n

(* The age of m_nStateTime once what core 0 still writes has arrived. *)
TimeAfter == IF "m_nStateTime" \in DOMAIN pending THEN age ELSE ui.m_nStateTime

(* Without a race, the call is as long ago as the steps of scrolling took  *)
(* and the time since the latest of them, also when the turn looks at it.  *)
LastedInv ==
  /\ Calling /\ Scrolling(After) => After.m_nCurrentScrollOffset = 0
  /\ Timed(After) => Lasted(TimeAfter + Spent(After))
  /\ Turning => ui.m_nStateTime >= lag
  /\ pc \in {"scrolling", "assign"} /\ Timed(ui)
       => Lasted(nDeltaTicks + lag + Spent(ui))
  /\ pc \in {"timeout", "assign"} /\ ~m_bIsScrolling => ~(Scrolls /\ TooLong)

(* What no turn has drawn yet is at most as old as the turn before.  Core  *)
(* 1 is parked longer, but nothing asked for before the end is shown then. *)
UndrawnInv ==
  /\ Timed(After) /\ ~drawn =>
       /\ pc = "loop" \/ (pc = "parked" /\ ~m_bPowerSaveRequested) => age <= lag
       /\ Turning => age <= lag + MaxLag
       /\ pc = "assign" => nDeltaTicks <= MaxLag
       /\ pc # "test"
  /\ hook = "exit" => ~Timed(After)

TimeInv == ~raced => LastedInv /\ UndrawnInv

(* Each step of scrolling takes its time, and more steps take no less. *)
LEMMA StepsFacts ==
  /\ Steps(0) = 0
  /\ \A n \in Nat : /\ Steps(n) \in Nat
                    /\ Steps(n + 1) = Steps(n) + IF n = 0 THEN ScrollDelay ELSE ScrollRate
                    /\ \A m \in 0..n : Steps(m) <= Steps(n)
<1>1. Steps(0) = 0
  BY DEF Steps
<1>2. \A a, b \in Nat : a * b \in Nat
  OBVIOUS
<1>3. ASSUME NEW n \in Nat
      PROVE  /\ Steps(n) \in Nat
             /\ Steps(n + 1) = Steps(n) + IF n = 0 THEN ScrollDelay ELSE ScrollRate
  <2>1. CASE n = 0
    <3>1. (n + 1 - 1) * ScrollRate = 0
      BY <2>1, TimeAssumption
    <3>2. QED
      BY <2>1, <3>1, TimeAssumption DEF Steps
  <2>2. CASE n # 0
    <3>1. (n - 1) * ScrollRate \in Nat
      BY <1>2, <2>2, TimeAssumption
    <3>2. (n + 1 - 1) * ScrollRate = (n - 1) * ScrollRate + ScrollRate
      BY TimeAssumption
    <3>3. QED
      BY <2>2, <3>1, <3>2, TimeAssumption DEF Steps
  <2>3. QED
    BY <2>1, <2>2
<1>4. ASSUME NEW n \in Nat, NEW m \in 0..n
      PROVE  Steps(m) <= Steps(n)
  <2>1. CASE m = 0
    BY <1>1, <1>3, <2>1
  <2>2. CASE m # 0
    <3>1. (n - m) * ScrollRate \in Nat
      BY <1>2, TimeAssumption
    <3>2. (n - 1) * ScrollRate = (m - 1) * ScrollRate + (n - m) * ScrollRate
      BY TimeAssumption
    <3>3. (m - 1) * ScrollRate \in Nat
      BY <1>2, <2>2, TimeAssumption
    <3>4. (n - 1) * ScrollRate \in Nat /\ n # 0
      BY <1>2, <2>2, TimeAssumption
    <3>5. QED
      BY <2>2, <3>1, <3>2, <3>3, <3>4, TimeAssumption DEF Steps
  <2>3. QED
    BY <2>1, <2>2
<1>5. QED
  BY <1>1, <1>3, <1>4

(* What TimeInv compares are numbers within their bounds. *)
LEMMA TimeTypes ==
  TextInv /\ UITypeInv =>
    /\ Old \in Nat /\ MaxLag \in Nat /\ MaxLag <= Old
    /\ age \in 0..Old /\ lag \in 0..MaxLag /\ nDeltaTicks \in 0..Old
    /\ ui.m_nStateTime \in 0..Old /\ TimeAfter \in 0..Old
    /\ Spent(ui) \in Nat /\ Spent(After) \in Nat
<1> SUFFICES ASSUME TextInv, UITypeInv
             PROVE  /\ Old \in Nat /\ MaxLag \in Nat /\ MaxLag <= Old
                    /\ age \in 0..Old /\ lag \in 0..MaxLag /\ nDeltaTicks \in 0..Old
                    /\ ui.m_nStateTime \in 0..Old /\ TimeAfter \in 0..Old
                    /\ Spent(ui) \in Nat /\ Spent(After) \in Nat
  OBVIOUS
<1>1. Old \in Nat /\ MaxLag \in Nat /\ MaxLag <= Old
  BY OldIsOld
<1>2. /\ age \in 0..Old /\ lag \in 0..MaxLag /\ nDeltaTicks \in 0..Old
      /\ ui.m_nStateTime \in 0..Old
  BY DEF UITypeInv, UITypeOK
<1>3. ui.m_nCurrentScrollOffset \in Nat /\ After.m_nCurrentScrollOffset \in Nat
  BY DEF TextInv, WellFormed
<1>4. Spent(ui) \in Nat /\ Spent(After) \in Nat
  BY <1>3, StepsFacts DEF Spent
<1>5. TimeAfter \in 0..Old
  BY <1>2 DEF TimeAfter
<1>6. QED
  BY <1>1, <1>2, <1>4, <1>5

(* At the start nothing is shown that makes way. *)
LEMMA TimesStart == UIInit => TimeInv
<1> SUFFICES ASSUME UIInit PROVE TimeInv
  OBVIOUS
<1>1. ~Calling /\ After = ui /\ ui.m_State = "None"
  BY TextStarts, NothingPending DEF UIInit, Calling
<1>2. QED
  BY <1>1 DEF UIInit, TimeInv, LastedInv, UndrawnInv, Timed, Scrolling, Turning

----------------------------------------------------------------------------
(* A call that begins between two turns begins its time. *)
LEMMA AskLasts ==
  ASSUME TextInv, UITypeInv, NEW kind, NEW writes, Ask(kind, writes),
         "m_State" \in DOMAIN writes,
         Timed(writes) => "m_nStateTime" \in DOMAIN writes,
         writes.m_State \in {"DisplayingMessage", "DisplayingSysExText"} =>
           /\ "m_nCurrentScrollOffset" \in DOMAIN writes
           /\ writes.m_nCurrentScrollOffset = 0,
         hook' = "exit" => ~Timed(writes)
  PROVE  TimeInv'
<1>1. /\ pending' = writes /\ age' = 0 /\ raced' = Turning
      /\ UNCHANGED <<ui, pc, lag>>
  BY DEF Ask, ui_vars, turn
<1>2. /\ After'.m_State = writes.m_State
      /\ writes.m_State \in {"DisplayingMessage", "DisplayingSysExText"}
           => After'.m_nCurrentScrollOffset = 0
  BY <1>1 DEF After, Fields
<1>3. Scrolling(After') => After'.m_nCurrentScrollOffset = 0
  BY <1>2 DEF Scrolling
<1>4. Spent(After') = 0
  BY <1>3, StepsFacts DEF Spent
<1>5. Timed(After') <=> Timed(writes)
  BY <1>2 DEF Timed
<1>6. Timed(After') => TimeAfter' = 0
  BY <1>1, <1>5 DEF TimeAfter
<1>7. Timed(After') => Lasted(TimeAfter + Spent(After))'
  BY <1>1, <1>4, <1>6 DEF Lasted
<1>8. SUFFICES ASSUME ~Turning PROVE LastedInv' /\ UndrawnInv'
  BY <1>1 DEF TimeInv
<1>9. ~Turning' /\ pc' \notin {"scrolling", "timeout", "assign", "test"}
  BY <1>1, <1>8 DEF Turning
<1>10. age' <= lag'
  BY <1>1, TimeTypes
<1>11. LastedInv'
  BY <1>3, <1>7, <1>9 DEF LastedInv
<1>12. UndrawnInv'
  BY <1>5, <1>9, <1>10 DEF UndrawnInv
<1>13. QED
  BY <1>11, <1>12

(* Every call does, unless it shows nothing that makes way. *)
LEMMA CallLasts == TextInv /\ UITypeInv /\ UICall => TimeInv'
<1> SUFFICES ASSUME TextInv, UITypeInv, UICall PROVE TimeInv'
  OBVIOUS
<1>1. CASE ShowSystemMessage
  <2>1. PICK kind, state, text : Ask(kind, SystemMessage(state, text)) /\ hook' = hook
    BY <1>1 DEF ShowSystemMessage
  <2>2. hook' # "exit"
    BY <2>1 DEF Ask
  <2>3. QED
    BY <2>1, <2>2, AskLasts DEF SystemMessage
<1>2. CASE ClearSpinnerMessage
  <2>1. Ask("spinner", [m_State |-> "None"])
    BY <1>2 DEF ClearSpinnerMessage
  <2>2. QED
    BY <2>1, AskLasts DEF Timed
<1>3. CASE DisplayImage
  <2>1. Ask("image", [m_State |-> "DisplayingImage", m_nStateTime |-> 0]) /\ hook' = hook
    BY <1>3 DEF DisplayImage
  <2>2. hook' # "exit"
    BY <2>1 DEF Ask
  <2>3. QED
    BY <2>1, <2>2, AskLasts
<1>4. CASE ShowSysExText
  <2>1. PICK n, type : /\ Ask("text", [m_SysExTextBuffer |-> n,
                                      m_SysExDisplayMessageType |-> type,
                                      m_State |-> "DisplayingSysExText",
                                      m_nCurrentScrollOffset |-> 0, m_nStateTime |-> 0])
                       /\ hook' = hook
    BY <1>4 DEF ShowSysExText
  <2>2. hook' # "exit"
    BY <2>1 DEF Ask
  <2>3. QED
    BY <2>1, <2>2, AskLasts
<1>5. CASE ShowSysExBitmap
  <2>1. PICK type : /\ Ask("bitmap", [m_SysExDisplayMessageType |-> type,
                                     m_State |-> "DisplayingSysExBitmap",
                                     m_nStateTime |-> 0])
                    /\ hook' = hook
    BY <1>5 DEF ShowSysExBitmap
  <2>2. hook' # "exit"
    BY <2>1 DEF Ask
  <2>3. QED
    BY <2>1, <2>2, AskLasts
<1>6. CASE EnterPowerSavingMode
  <2>1. /\ Ask("power", [m_SystemMessageTextBuffer |-> "power",
                         m_State |-> "EnteringPowerSavingMode", m_nStateTime |-> 0])
        /\ hook' # "exit"
    BY <1>6 DEF EnterPowerSavingMode
  <2>2. QED
    BY <2>1, AskLasts
<1>7. CASE ExitPowerSavingMode
  <2>1. Ask("power", [m_State |-> "None"])
    BY <1>7 DEF ExitPowerSavingMode
  <2>2. QED
    BY <2>1, AskLasts DEF Timed
<1>8. QED
  BY <1>1, <1>2, <1>3, <1>4, <1>5, <1>6, <1>7 DEF UICall

(* What arrives is what TimeInv counts with already. *)
LEMMA WriteLasts == TextInv /\ UITypeInv /\ TimeInv /\ Write => TimeInv'
<1> SUFFICES ASSUME TextInv, UITypeInv, TimeInv, Write PROVE TimeInv'
  OBVIOUS
<1>1. PICK f \in DOMAIN pending :
        /\ ui' = [ui EXCEPT ![f] = IF f = "m_nStateTime" THEN age ELSE pending[f]]
        /\ pending' = Restrict(pending, DOMAIN pending \ {f})
  BY DEF Write
<1>2. Calling /\ UNCHANGED <<pc, lag, hook, m_bPowerSaveRequested, age, raced, drawn>>
  BY DEF Write, turn, history
<1>3. DOMAIN pending \subseteq Fields /\ DOMAIN pending' = DOMAIN pending \ {f}
  BY <1>1 DEF TextInv, Restrict
<1>4. \A g \in Fields : ui'[g] = IF g # f THEN ui[g]
                                 ELSE IF f = "m_nStateTime" THEN age ELSE pending[f]
  BY <1>1, <1>3 DEF TextInv, WellFormed
<1>5. \A g \in Fields \ {"m_nStateTime"} : After'[g] = After[g]
  BY <1>1, <1>3, <1>4 DEF After, Restrict
<1>6. /\ Timed(After') <=> Timed(After)
      /\ Scrolling(After') <=> Scrolling(After)
      /\ After'.m_nCurrentScrollOffset = After.m_nCurrentScrollOffset
  BY <1>5 DEF Timed, Scrolling, Fields
<1>7. Spent(After') = Spent(After)
  BY <1>6 DEF Spent
<1>8. TimeAfter' = TimeAfter
  BY <1>2, <1>3, <1>4 DEF TimeAfter, Fields
<1>9. SUFFICES ASSUME ~raced PROVE LastedInv' /\ UndrawnInv'
  BY <1>2 DEF TimeInv
<1>10. ~Turning
  BY <1>2, <1>9 DEF TextInv
<1>11. ~Turning' /\ pc' \notin {"scrolling", "timeout", "assign", "test"}
  BY <1>2, <1>10 DEF Turning
<1>12. LastedInv /\ UndrawnInv
  BY <1>9 DEF TimeInv
<1>13. LastedInv'
  BY <1>2, <1>6, <1>7, <1>8, <1>11, <1>12 DEF LastedInv, Lasted
<1>14. UndrawnInv'
  BY <1>2, <1>6, <1>11, <1>12 DEF UndrawnInv
<1>15. QED
  BY <1>13, <1>14

(* The hook of power saving ends with nothing to show that makes way. *)
LEMMA RequestLasts == UITypeInv /\ TimeInv /\ Request => TimeInv'
<1> SUFFICES ASSUME UITypeInv, TimeInv, Request, ~raced' PROVE LastedInv' /\ UndrawnInv'
  BY DEF TimeInv
<1>1. /\ UNCHANGED <<ui, pending, pc, lag, nDeltaTicks, m_bIsScrolling, age, raced, drawn>>
      /\ hook' = "none" /\ (~m_bPowerSaveRequested' => hook = "exit")
  BY DEF Request, ui_vars, turn, history, UITypeInv, UITypeOK
<1>2. LastedInv /\ UndrawnInv
  BY <1>1 DEF TimeInv
<1>3. /\ After' = After /\ TimeAfter' = TimeAfter /\ Spent(ui') = Spent(ui)
      /\ Turning' = Turning /\ Calling' = Calling
      /\ Scrolls' = Scrolls /\ TooLong' = TooLong
  BY <1>1 DEF After, TimeAfter, Turning, Calling, Scrolls, TooLong, ShownLength
<1>4. LastedInv'
  BY <1>1, <1>2, <1>3 DEF LastedInv, Lasted
<1>5. UndrawnInv'
  BY <1>1, <1>2, <1>3 DEF UndrawnInv
<1>6. QED
  BY <1>4, <1>5

(* Time passes for the call, for what is shown and for the turn alike.     *)
LEMMA TickLasts == TextInv /\ UITypeInv /\ TimeInv /\ Tick => TimeInv'
<1> SUFFICES ASSUME TextInv, UITypeInv, TimeInv, Tick, ~raced'
             PROVE  LastedInv' /\ UndrawnInv'
  BY DEF TimeInv
<1>1. /\ UNCHANGED <<pending, hook, m_bPowerSaveRequested, pc, nDeltaTicks,
                     m_bIsScrolling, raced, drawn>>
      /\ ui' = [ui EXCEPT !.m_nStateTime = Older(@)]
      /\ age' = Older(age)
      /\ IF pc = "parked" THEN m_bPowerSaveRequested /\ lag' = lag
                          ELSE lag < MaxLag /\ lag' = lag + 1
  BY DEF Tick, calls
<1>2. LastedInv /\ UndrawnInv
  BY <1>1 DEF TimeInv
<1>3. \A f \in Fields : ui'[f] = IF f = "m_nStateTime" THEN Older(ui[f]) ELSE ui[f]
  BY <1>1 DEF TextInv, WellFormed
<1>4. \A f \in Fields \ {"m_nStateTime"} : After'[f] = After[f]
  BY <1>1, <1>3 DEF After
<1>5. /\ Timed(After') <=> Timed(After)
      /\ Scrolling(After') <=> Scrolling(After)
      /\ After'.m_nCurrentScrollOffset = After.m_nCurrentScrollOffset
      /\ Timed(ui') <=> Timed(ui)
      /\ Scrolling(ui') <=> Scrolling(ui)
      /\ ui'.m_nCurrentScrollOffset = ui.m_nCurrentScrollOffset
      /\ Scrolls' <=> Scrolls
      /\ TooLong' <=> TooLong
  BY <1>3, <1>4 DEF Timed, Scrolling, Scrolls, TooLong, ShownLength, Fields
<1>6. Spent(After') = Spent(After) /\ Spent(ui') = Spent(ui)
  BY <1>5 DEF Spent
<1>7. ui'.m_nStateTime = Older(ui.m_nStateTime) /\ TimeAfter' = Older(TimeAfter)
  BY <1>1, <1>3 DEF TimeAfter, Fields
<1>8. Turning' = Turning /\ Calling' = Calling /\ (Turning => pc # "parked")
  BY <1>1 DEF Turning, Calling
<1>9. ASSUME NEW n \in Nat, Lasted(n), NEW m \in Nat, m <= n + 1
      PROVE  age' = Old \/ age' >= m
  BY <1>1, <1>9, TimeTypes DEF Lasted, Older
<1>10. Timed(After) => Lasted(TimeAfter + Spent(After))'
  <2> DEFINE n == TimeAfter + Spent(After)
             m == TimeAfter' + Spent(After')
  <2>1. n \in Nat /\ m \in Nat /\ m <= n + 1
    BY <1>6, <1>7, TimeTypes DEF Older
  <2>2. Timed(After) => Lasted(n)
    BY <1>2 DEF LastedInv
  <2>3. Timed(After) => age' = Old \/ age' >= m
    <3> HIDE DEF n, m
    <3> QED
      BY <2>1, <2>2, <1>9
  <2>4. QED
    BY <2>3 DEF Lasted
<1>11. Turning => ui'.m_nStateTime >= lag'
  BY <1>1, <1>2, <1>7, <1>8, TimeTypes DEF LastedInv, Older
<1>12. pc \in {"scrolling", "assign"} /\ Timed(ui) => Lasted(nDeltaTicks + lag + Spent(ui))'
  <2> DEFINE n == nDeltaTicks + lag + Spent(ui)
             m == nDeltaTicks' + lag' + Spent(ui')
  <2> SUFFICES ASSUME pc \in {"scrolling", "assign"}, Timed(ui)
               PROVE  age' = Old \/ age' >= m
    BY DEF Lasted
  <2>1. n \in Nat /\ m \in Nat /\ m <= n + 1
    BY <1>1, <1>6, TimeTypes
  <2>2. Lasted(n)
    BY <1>2 DEF LastedInv
  <2> HIDE DEF n, m
  <2>3. QED
    BY <2>1, <2>2, <1>9
<1>13. LastedInv'
  BY <1>1, <1>2, <1>5, <1>8, <1>10, <1>11, <1>12 DEF LastedInv
<1>14. age' <= age + 1
  BY <1>1, TimeTypes DEF Older
<1>15. UndrawnInv'
  <2>1. Timed(After) /\ ~drawn /\ pc = "loop" => age' <= lag'
    BY <1>1, <1>2, <1>14, TimeTypes DEF UndrawnInv, Older
  <2>2. Timed(After) /\ ~drawn /\ Turning => age' <= lag' + MaxLag
    BY <1>1, <1>2, <1>8, <1>14, TimeTypes DEF UndrawnInv, Older
  <2>3. QED
    BY <1>1, <1>2, <1>5, <1>8, <2>1, <2>2 DEF UndrawnInv
<1>16. QED
  BY <1>13, <1>15

----------------------------------------------------------------------------
(* A turn, after which nothing has raced. *)

(* What it meets is what it will be; if it leaves what is shown alone, then *)
(* that goes on to have lasted.                                            *)
LEMMA TurnFacts ==
  ASSUME TextInv, TimeInv, Turn, ~raced'
  PROVE  /\ ~raced /\ LastedInv /\ UndrawnInv
         /\ UNCHANGED <<pending, hook, m_bPowerSaveRequested, age>>
         /\ pc # "parked" => ~Calling /\ After = ui /\ TimeAfter = ui.m_nStateTime
<1>1. UNCHANGED <<pending, hook, m_bPowerSaveRequested, age>>
  BY DEF Turn, BeginTurn, ReadScrollTime, UpdateScroll, ReadStateTime, Timeout,
         PowerSavingTimeout, NoTimeout, Light, Draw, EndTurn, Unpark, calls, history
<1>2. ~raced /\ (pc = "loop" => ~Calling)
  <2>1. CASE BeginTurn
    BY <2>1 DEF BeginTurn
  <2>2. CASE ~BeginTurn
    <3>1. raced' = raced
      BY <2>2 DEF Turn, ReadScrollTime, UpdateScroll, ReadStateTime, Timeout,
             PowerSavingTimeout, NoTimeout, Light, Draw, EndTurn, Unpark, history
    <3>2. pc # "loop"
      BY <2>2 DEF Turn, ReadScrollTime, UpdateScroll, ReadStateTime, Timeout,
             PowerSavingTimeout, NoTimeout, Light, Draw, EndTurn, Unpark, Goto
    <3>3. QED
      BY <3>1, <3>2, Zenon
  <2>3. QED
    BY <2>1, <2>2
<1>3. pc # "parked" => ~Calling
  BY <1>2 DEF TextInv, Turning
<1>4. pc # "parked" => After = ui /\ TimeAfter = ui.m_nStateTime
  BY <1>3, NothingPending DEF TimeAfter, Calling
<1>5. QED
  BY <1>1, <1>2, <1>3, <1>4 DEF TimeInv

(* A step that leaves it alone, and what it was as well. *)
LEMMA StillLasts ==
  ASSUME TextInv, UITypeInv, TimeInv, Turn, ~raced', UNCHANGED ui,
         pc' \in {"scrolling", "assign"} =>
           pc \notin {"loop", "parked"} /\ nDeltaTicks' = Since /\ lag' = lag,
         Turning' => lag' = 0 \/ (Turning /\ lag' = lag),
         pc' \in {"timeout", "assign"} =>
           \/ pc = "timeout" /\ m_bIsScrolling' = m_bIsScrolling
           \/ m_bIsScrolling' = (Scrolls /\ TooLong)
  PROVE  LastedInv'
<1>1. /\ LastedInv /\ UNCHANGED <<pending, age>>
      /\ pc # "parked" => ~Calling /\ After = ui /\ TimeAfter = ui.m_nStateTime
  BY TurnFacts
<1>2. /\ After' = After /\ TimeAfter' = TimeAfter /\ Spent(ui') = Spent(ui)
      /\ Calling' = Calling /\ Scrolls' = Scrolls /\ TooLong' = TooLong
  BY <1>1 DEF After, TimeAfter, Calling, Scrolls, TooLong, ShownLength
<1>3. Timed(After') => Lasted(TimeAfter + Spent(After))'
  BY <1>1, <1>2 DEF LastedInv, Lasted
<1>4. Turning' => ui'.m_nStateTime >= lag'
  BY <1>1, TimeTypes DEF LastedInv
<1>5. ASSUME pc' \in {"scrolling", "assign"}, Timed(ui')
      PROVE  Lasted(nDeltaTicks + lag + Spent(ui))'
  <2>1. /\ nDeltaTicks' = Since /\ lag' = lag /\ Turning
        /\ After = ui /\ TimeAfter = ui.m_nStateTime
    BY <1>1, <1>5 DEF Turning
  <2>2. nDeltaTicks' + lag' = ui.m_nStateTime
    BY <1>1, <2>1, TimeTypes DEF LastedInv, Since
  <2>3. Lasted(ui.m_nStateTime + Spent(ui))
    BY <1>1, <1>5, <2>1 DEF LastedInv
  <2>4. QED
    BY <1>1, <1>2, <2>2, <2>3 DEF Lasted
<1>6. pc' \in {"timeout", "assign"} /\ ~m_bIsScrolling' => ~(Scrolls' /\ TooLong')
  BY <1>1, <1>2 DEF LastedInv
<1>7. Calling' /\ Scrolling(After') => After'.m_nCurrentScrollOffset = 0
  BY <1>1, <1>2 DEF LastedInv
<1>8. QED
  BY <1>3, <1>4, <1>5, <1>6, <1>7 DEF LastedInv

(* Once nothing that makes way is shown, there is nothing to count. *)
LEMMA OverLasts ==
  ASSUME TextInv, TimeInv, Turn, ~raced', pc # "parked",
         ui'.m_State \in {"None", "InPowerSavingMode", "DisplayingSpinnerMessage"},
         ui'.m_nStateTime >= lag', WellFormed(After'),
         pc' \notin {"scrolling", "timeout", "assign"}
  PROVE  LastedInv' /\ UndrawnInv'
<1>1. ~Calling /\ UNCHANGED <<pending, hook>>
  BY TurnFacts
<1>2. ~Calling' /\ After'.m_State = ui'.m_State
  BY <1>1 DEF Calling, After, Fields
<1>3. ~Timed(After')
  BY <1>2 DEF Timed
<1>4. QED
  BY <1>2, <1>3 DEF LastedInv, UndrawnInv

(* Each step of scrolling begins a wait at most as long as the one that     *)
(* ends with it.                                                           *)
LEMMA UpdateScrollLasts ==
  TextInv /\ UITypeInv /\ TimeInv /\ UpdateScroll /\ ~raced' => LastedInv' /\ UndrawnInv'
<1> SUFFICES ASSUME TextInv, UITypeInv, TimeInv, UpdateScroll, ~raced'
             PROVE  LastedInv' /\ UndrawnInv'
  OBVIOUS
<1> DEFINE nTimeout == IF ui.m_nCurrentScrollOffset = 0 THEN ScrollDelay ELSE ScrollRate
<1>1. /\ pc = "scrolling" /\ pc' = "timeout" /\ UNCHANGED <<lag, drawn>>
      /\ m_bIsScrolling' = (Scrolls /\ TooLong)
      /\ IF m_bIsScrolling' /\ nDeltaTicks >= nTimeout
         THEN ui' = [ui EXCEPT !.m_nCurrentScrollOffset = @ + 1, !.m_nStateTime = lag]
         ELSE UNCHANGED ui
  BY DEF UpdateScroll, Goto, history
<1>2. /\ LastedInv /\ UndrawnInv /\ ~Calling
      /\ UNCHANGED <<pending, hook, m_bPowerSaveRequested, age>>
      /\ After = ui /\ TimeAfter = ui.m_nStateTime
  BY <1>1, TurnFacts DEF Turn
<1>3. Turning /\ Turning'
  BY <1>1 DEF Turning
<1>4. CASE UNCHANGED ui
  <2>1. LastedInv'
    BY <1>1, <1>3, <1>4, StillLasts, Zenon DEF Turn
  <2>2. After' = After
    BY <1>2, <1>4 DEF After
  <2>3. UndrawnInv'
    BY <1>1, <1>2, <1>3, <2>2 DEF UndrawnInv
  <2>4. QED
    BY <2>1, <2>3
<1>5. CASE /\ m_bIsScrolling' /\ nDeltaTicks >= nTimeout /\ Scrolls
           /\ ui' = [ui EXCEPT !.m_nCurrentScrollOffset = @ + 1, !.m_nStateTime = lag]
  <2>1. /\ \A f \in Fields : ui'[f] = IF f = "m_nStateTime" THEN lag
                                ELSE IF f = "m_nCurrentScrollOffset" THEN ui[f] + 1
                                ELSE ui[f]
        /\ ui' = [f \in Fields |-> ui'[f]]
    BY <1>5 DEF TextInv, WellFormed
  <2>2. After' = ui' /\ ~Calling'
    BY <1>2, <2>1 DEF Calling, After
  <2>3. /\ Timed(ui) /\ Timed(ui') /\ Scrolling(ui) /\ Scrolling(ui')
        /\ ui'.m_nStateTime = lag
        /\ ui'.m_nCurrentScrollOffset = ui.m_nCurrentScrollOffset + 1
    BY <1>5, <2>1 DEF Timed, Scrolling, Scrolls, Fields
  <2>4. TimeAfter' = lag
    BY <2>2, <2>3 DEF TimeAfter, Calling
  <2>5. Spent(ui') = Spent(ui) + nTimeout
    BY <2>3, StepsFacts DEF Spent, TextInv, WellFormed
  <2>6. Lasted(nDeltaTicks + lag + Spent(ui))
    BY <1>1, <1>2, <2>3 DEF LastedInv
  <2>7. nTimeout \in Nat
    BY TimeAssumption
  <2>8. lag + Spent(ui') <= nDeltaTicks + lag + Spent(ui)
    <3> HIDE DEF nTimeout
    <3> QED
      BY <1>5, <2>5, <2>7, TimeTypes
  <2>9. lag + Spent(ui') \in Nat
    <3> HIDE DEF nTimeout
    <3> QED
      BY <2>5, <2>7, TimeTypes
  <2>10. Lasted(TimeAfter + Spent(After))'
    BY <1>2, <2>2, <2>4, <2>6, <2>8, <2>9, TimeTypes DEF Lasted
  <2>11. ui'.m_nStateTime >= lag'
    BY <1>1, <2>3, TimeTypes
  <2>12. LastedInv'
    BY <1>1, <1>5, <2>2, <2>10, <2>11 DEF LastedInv
  <2>13. Timed(After') <=> Timed(After)
    BY <1>2, <2>2, <2>3
  <2>14. UndrawnInv'
    BY <1>1, <1>2, <1>3, <2>13 DEF UndrawnInv
  <2>15. QED
    BY <2>12, <2>14
<1>6. QED
  BY <1>1, <1>4, <1>5

(* Whatever a timeout leaves has no time to last, or is still untimed. *)
LEMMA TimeoutLasts ==
  TextInv /\ UITypeInv /\ TimeInv /\ (Timeout \/ PowerSavingTimeout \/ NoTimeout) /\ ~raced'
    => LastedInv' /\ UndrawnInv'
<1> SUFFICES ASSUME TextInv, UITypeInv, TimeInv,
                    Timeout \/ PowerSavingTimeout \/ NoTimeout, ~raced'
             PROVE  LastedInv' /\ UndrawnInv'
  OBVIOUS
<1>1. Turn /\ pc = "assign" /\ pc' = "light" /\ UNCHANGED <<lag, drawn>>
  BY DEF Turn, Timeout, PowerSavingTimeout, NoTimeout, Goto, history
<1>2. /\ LastedInv /\ UndrawnInv /\ ~Calling
      /\ UNCHANGED <<pending, hook, m_bPowerSaveRequested, age>>
      /\ After = ui
  BY <1>1, TurnFacts
<1>3. Turning /\ Turning'
  BY <1>1 DEF Turning
<1>4. CASE UNCHANGED ui
  <2>1. LastedInv'
    BY <1>1, <1>3, <1>4, StillLasts, Zenon
  <2>2. After' = After
    BY <1>2, <1>4 DEF After
  <2>3. UndrawnInv'
    BY <1>1, <1>2, <1>3, <2>2 DEF UndrawnInv
  <2>4. QED
    BY <2>1, <2>3
<1>5. CASE \E state \in {"None", "InPowerSavingMode", "DisplayingSpinnerMessage"} :
             Assign(state)
  <2>1. /\ ui'.m_State \in {"None", "InPowerSavingMode", "DisplayingSpinnerMessage"}
        /\ ui'.m_nStateTime = lag
    BY <1>5 DEF Assign, TextInv, WellFormed, Fields
  <2>2. ~Calling' /\ After'.m_State = ui'.m_State
    BY <1>2 DEF Calling, After, Fields
  <2>3. ~Timed(After')
    BY <2>1, <2>2 DEF Timed
  <2>4. ui'.m_nStateTime >= lag'
    BY <1>1, <2>1, TimeTypes
  <2>5. QED
    BY <1>1, <2>2, <2>3, <2>4 DEF LastedInv, UndrawnInv
<1>6. QED
  BY <1>4, <1>5 DEF Timeout, PowerSavingTimeout, NoTimeout

(* A turn tells how long ago the call is, and when it has drawn for it. *)
LEMMA TurnLasts == TextInv /\ UITypeInv /\ TimeInv /\ Turn => TimeInv'
<1> SUFFICES ASSUME TextInv, UITypeInv, TimeInv, Turn, ~raced'
             PROVE  LastedInv' /\ UndrawnInv'
  BY DEF TimeInv
<1>1. /\ LastedInv /\ UndrawnInv
      /\ UNCHANGED <<pending, hook, m_bPowerSaveRequested, age>>
      /\ pc # "parked" => ~Calling /\ After = ui /\ TimeAfter = ui.m_nStateTime
  BY TurnFacts
<1>2. UNCHANGED ui => After' = After
  BY <1>1 DEF After
<1>3. CASE BeginTurn
  <2>1. /\ pc = "loop" /\ pc' = "scroll" /\ lag' = 0 /\ UNCHANGED <<ui, drawn>>
    BY <1>3 DEF BeginTurn, Goto, ui_vars
  <2>2. LastedInv'
    BY <2>1, StillLasts
  <2>3. Timed(After) /\ ~drawn => age' <= lag' + MaxLag
    BY <1>1, <2>1, TimeTypes DEF UndrawnInv
  <2>4. UndrawnInv'
    BY <1>1, <1>2, <2>1, <2>3 DEF UndrawnInv
  <2>5. QED
    BY <2>2, <2>4
<1>4. CASE ReadScrollTime
  <2>1. /\ pc = "scroll" /\ pc' = "scrolling" /\ nDeltaTicks' = Since
        /\ UNCHANGED <<ui, lag, drawn>>
    BY <1>4 DEF ReadScrollTime, Goto, ui_vars, history
  <2>2. Turning
    BY <2>1 DEF Turning
  <2>3. LastedInv'
    BY <2>1, <2>2, StillLasts
  <2>4. UndrawnInv'
    BY <1>1, <1>2, <2>1, <2>2 DEF UndrawnInv
  <2>5. QED
    BY <2>3, <2>4
<1>5. CASE ReadStateTime
  <2>1. /\ pc = "timeout" /\ pc' = "assign" /\ nDeltaTicks' = Since
        /\ UNCHANGED <<ui, lag, m_bIsScrolling, drawn>>
    BY <1>5 DEF ReadStateTime, Goto, ui_vars, history
  <2>2. Turning
    BY <2>1 DEF Turning
  <2>3. LastedInv'
    BY <2>1, <2>2, StillLasts
  <2>4. Timed(After) /\ ~drawn => nDeltaTicks' <= MaxLag
    <3>1. Timed(After) => Lasted(ui.m_nStateTime + Spent(ui)) /\ ui.m_nStateTime >= lag
      BY <1>1, <2>1, <2>2 DEF LastedInv
    <3>2. Timed(After) /\ ~drawn => age <= lag + MaxLag
      BY <1>1, <2>2 DEF UndrawnInv
    <3>3. QED
      BY <2>1, <3>1, <3>2, TimeTypes DEF Lasted, Since
  <2>5. UndrawnInv'
    BY <1>1, <1>2, <2>1, <2>2, <2>4 DEF UndrawnInv
  <2>6. QED
    BY <2>3, <2>5
<1>6. CASE UpdateScroll
  BY <1>6, UpdateScrollLasts
<1>7. CASE Timeout \/ PowerSavingTimeout \/ NoTimeout
  BY <1>7, TimeoutLasts
<1>8. CASE Light
  <2>1. pc = "light" /\ pc' = "draw" /\ UNCHANGED <<ui, lag, drawn>>
    BY <1>8 DEF Light, Goto, history
  <2>2. Turning
    BY <2>1 DEF Turning
  <2>3. LastedInv'
    BY <2>1, <2>2, StillLasts
  <2>4. UndrawnInv'
    BY <1>1, <1>2, <2>1, <2>2 DEF UndrawnInv
  <2>5. QED
    BY <2>3, <2>4
<1>9. CASE Draw
  <2>1. pc = "draw" /\ pc' = "test" /\ UNCHANGED <<ui, lag>>
    BY <1>9 DEF Draw, Goto, ui_vars
  <2>2. Turning
    BY <2>1 DEF Turning
  <2>3. LastedInv'
    BY <2>1, <2>2, StillLasts
  <2>4. Timed(After) => drawn'
    <3>1. Timed(After) => ~Calling /\ ui.m_State \notin {"None", "InPowerSavingMode"}
      BY <1>1, <2>1 DEF Timed
    <3>2. QED
      BY <1>9, <3>1 DEF Draw
  <2>5. UndrawnInv'
    BY <1>1, <1>2, <2>1, <2>4 DEF UndrawnInv
  <2>6. QED
    BY <2>3, <2>5
<1>10. CASE EndTurn
  <2>1. pc = "test" /\ pc' \in {"loop", "parked"} /\ UNCHANGED <<ui, lag, drawn>>
    BY <1>10 DEF EndTurn, Goto, ui_vars, history
  <2>2. LastedInv'
    BY <2>1, StillLasts DEF Turning
  <2>3. UndrawnInv'
    BY <1>1, <1>2, <2>1 DEF UndrawnInv
  <2>4. QED
    BY <2>2, <2>3
<1>11. CASE Unpark
  <2>1. /\ pc = "parked" /\ pc' = "loop" /\ UNCHANGED <<ui, lag, drawn>>
        /\ ~m_bPowerSaveRequested
    BY <1>11 DEF Unpark, Goto, ui_vars, history
  <2>2. LastedInv'
    BY <2>1, StillLasts DEF Turning
  <2>3. UndrawnInv'
    BY <1>1, <1>2, <2>1 DEF UndrawnInv, Turning
  <2>4. QED
    BY <2>2, <2>3
<1>12. QED
  BY <1>3, <1>4, <1>5, <1>6, <1>7, <1>8, <1>9, <1>10, <1>11 DEF Turn

(* Whatever part is at work, the times go together. *)
ShowingInv == TextInv /\ UITypeInv /\ TimeInv

LEMMA ShowingKept == ShowingInv /\ [DisplayNext]_DisplayVars => ShowingInv'
<1> SUFFICES ASSUME ShowingInv, [DisplayNext]_DisplayVars PROVE TimeInv'
  BY TextKeeps, UITyped DEF ShowingInv
<1> USE DEF ShowingInv
<1>1. CASE UNCHANGED UIVars
  BY <1>1
     DEF UIVars, ui_vars, turn, calls, history, TimeInv, LastedInv, UndrawnInv, Lasted,
         TimeAfter, After, Turning, Calling, Scrolls, TooLong, ShownLength
<1>2. CASE UICall
  BY <1>2, CallLasts
<1>3. CASE Write
  BY <1>3, WriteLasts
<1>4. CASE Request
  BY <1>4, RequestLasts
<1>5. CASE Turn
  BY <1>5, TurnLasts
<1>6. CASE Tick
  BY <1>6, TickLasts
<1>7. QED
  BY <1>1, <1>2, <1>3, <1>4, <1>5, <1>6
     DEF DisplayNext, Parsing, Showing, Metering, DisplayVars, UINext

(* In every behaviour, what is shown has lasted as its time says. *)
THEOREM ShowingInvariant == DisplaySpec => []ShowingInv
<1>1. DisplayInit => ShowingInv
  BY TextStarts, UITypesStart, TimesStart DEF DisplayInit, ShowingInv
<1>2. QED
  BY <1>1, ShowingKept, PTL DEF DisplaySpec

(* The time of what is shown is never longer than what counts as old. *)
LEMMA LongestIsOld ==
  ASSUME TextInv, UITypeInv
  PROVE  /\ ShownLength \in Nat /\ Width \in Nat
         /\ ShownLength > Width =>
              Steps(ShownLength - Width) + Most(SystemMessageDisplayTime, SC55DisplayTime)
                <= Old
         /\ Most(SystemMessageDisplayTime, SC55DisplayTime) <= Old
<1>1. /\ Longest \in Nat /\ Longest > Width /\ Longest >= SyxExTextBufferSize - 1
      /\ \A t \in Texts : Longest >= Length[t]
  BY LongestFacts
<1>2. Longest >= ShownLength /\ ShownLength \in Nat /\ Width \in Nat
  BY <1>1, TextAssumption, BufferSizeAssumption
     DEF ShownLength, UITypeInv, UITypeOK, Texts, SysExLengths
<1> DEFINE n == Longest - Width
<1>3. n \in Nat /\ n # 0
  BY <1>1, <1>2
<1>4. Old = Steps(n) + Most(SystemMessageDisplayTime, SC55DisplayTime) + MaxLag
  BY <1>3 DEF Old, Steps
<1>5. /\ Most(SystemMessageDisplayTime, SC55DisplayTime) \in Nat /\ MaxLag \in Nat
      /\ Steps(n) \in Nat
  BY <1>3, StepsFacts, TimeAssumption DEF Most
<1>6. ASSUME ShownLength > Width PROVE Steps(ShownLength - Width) <= Steps(n)
  <2>1. ShownLength - Width \in 0..n
    BY <1>2, <1>6, <1>1
  <2> HIDE DEF n
  <2>2. QED
    BY <1>3, <2>1, StepsFacts
<1>7. ShownLength > Width => Steps(ShownLength - Width) \in Nat
  BY <1>2, StepsFacts
<1> HIDE DEF n
<1>8. QED
  BY <1>2, <1>4, <1>5, <1>6, <1>7

(* A turn that ends what is shown finds that the call is long enough ago,  *)
(* and a turn before it has drawn for it.                                  *)
LEMMA EndsInTime ==
  ShowingInv /\ (Timeout \/ PowerSavingTimeout) /\ ~raced => age >= ItsTime /\ drawn
<1> SUFFICES ASSUME TextInv, UITypeInv, TimeInv, Timeout \/ PowerSavingTimeout, ~raced
             PROVE  age >= ItsTime /\ drawn
  BY DEF ShowingInv
<1> DEFINE display == IF ui.m_State \in {"DisplayingSysExText", "DisplayingSysExBitmap"}
                      THEN SC55DisplayTime ELSE SystemMessageDisplayTime
           steps == IF Scrolls /\ ShownLength > Width THEN ShownLength - Width ELSE 0
<1>1. /\ pc = "assign" /\ Timed(ui) /\ nDeltaTicks >= display
      /\ ~m_bIsScrolling \/ ~Scrolls
  BY DEF Timeout, PowerSavingTimeout, TimedOut, Goto, Timed, Scrolls
<1>2. ~Calling /\ After = ui /\ LastedInv /\ UndrawnInv
  BY <1>1, NothingPending DEF TextInv, Turning, TimeInv
<1>3. Lasted(nDeltaTicks + lag + Spent(ui))
  BY <1>1, <1>2 DEF LastedInv
<1>4. ~(Scrolls /\ TooLong)
  BY <1>1, <1>2 DEF LastedInv
<1>5. /\ display \in Nat /\ display > MaxLag
      /\ display <= Most(SystemMessageDisplayTime, SC55DisplayTime)
  BY TimeAssumption DEF Most
<1>6. steps \in Nat /\ Steps(steps) \in Nat
  BY LongestIsOld, StepsFacts
<1>7. ItsTime = Steps(steps) + display
  BY DEF ItsTime, Steps
<1>8. Steps(steps) <= Spent(ui)
  <2>1. CASE Scrolls /\ ShownLength > Width
    <3>1. ui.m_nCurrentScrollOffset \in Nat
      BY DEF TextInv, WellFormed
    <3>2. steps \in 0..ui.m_nCurrentScrollOffset
      BY <1>4, <1>6, <2>1, <3>1, LongestIsOld DEF TooLong
    <3>3. Scrolling(ui)
      BY <2>1 DEF Scrolls, Scrolling
    <3> HIDE DEF steps
    <3>4. QED
      BY <3>1, <3>2, <3>3, StepsFacts DEF Spent
  <2>2. CASE ~(Scrolls /\ ShownLength > Width)
    BY <2>2, StepsFacts, TimeTypes
  <2>3. QED
    BY <2>1, <2>2
<1>9. Steps(steps) + display <= Old
  <2>1. Most(SystemMessageDisplayTime, SC55DisplayTime) \in Nat
    BY TimeAssumption DEF Most
  <2>2. CASE Scrolls /\ ShownLength > Width
    <3>1. steps = ShownLength - Width
      BY <2>2
    <3> HIDE DEF display, steps
    <3>2. QED
      BY <1>5, <1>6, <2>1, <2>2, <3>1, LongestIsOld, OldIsOld
  <2>3. CASE ~(Scrolls /\ ShownLength > Width)
    <3>1. Steps(steps) = 0
      BY <2>3, StepsFacts
    <3> HIDE DEF display, steps
    <3>2. QED
      BY <1>5, <2>1, <3>1, LongestIsOld, OldIsOld
  <2>4. QED
    BY <2>2, <2>3
<1> HIDE DEF display, steps
<1>10. age >= ItsTime
  BY <1>1, <1>3, <1>5, <1>6, <1>7, <1>8, <1>9, TimeTypes DEF Lasted
<1>11. ~drawn => nDeltaTicks <= MaxLag
  BY <1>1, <1>2 DEF UndrawnInv
<1>12. drawn
  BY <1>1, <1>5, <1>11, TimeTypes
<1>13. QED
  BY <1>10, <1>12

(* What no turn interfered with stays for its time and was drawn. *)
THEOREM ShownForItsTime == DisplaySpec => ShownItsTime
<1> DEFINE Ends == (Timeout \/ PowerSavingTimeout) /\ ~raced => age >= ItsTime /\ drawn
<1>1. ShowingInv /\ [DisplayNext]_DisplayVars => [Ends]_UIVars
  BY EndsInTime
<1>2. ShownItsTime <=> [][Ends]_UIVars
  BY DEF ShownItsTime
<1>3. QED
  BY <1>1, <1>2, ShowingInvariant, PTL DEF DisplaySpec
=============================================================================
