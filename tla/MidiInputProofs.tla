-------------------------- MODULE MidiInputProofs --------------------------
(***************************************************************************)
(* Proofs about MIDI input, for any messages a sender may send, any        *)
(* SoundFonts, any sizes of the buffers, and whatever comes while a        *)
(* SoundFont is being switched to:                                         *)
(*   - DiscardInv: the parser's members, the calls on the stack, and which *)
(*     bytes can have come while a SoundFont was being loaded: what such a *)
(*     byte may still cause (PurgesInvariant, NoLateNotes);                *)
(*   - StreamInv: the parser is where what is still to be parsed goes on   *)
(*     (StreamInvariant, NothingInvented);                                 *)
(*   - BalanceInv: where each note-off is (BalanceInvariant, NoOffLost).   *)
(***************************************************************************)
EXTENDS MidiInput, SequenceTheorems, FiniteSetTheorems, FunctionTheorems, TLAPS

(* The parser's members have their types, but for its length, which a torn *)
(* message might lead beyond the buffer.                                   *)
Sound(p) ==
  /\ p = [m_State |-> p.m_State, m_MessageBuffer |-> p.m_MessageBuffer,
          m_nMessageLength |-> p.m_nMessageLength, calls |-> p.calls]
  /\ p.m_State \in {"StatusByte", "DataByte", "SysExByte"}
  /\ p.m_MessageBuffer \in [P!Slots -> 0..255]
  /\ p.m_nMessageLength \in Nat

(* No note-on is among the messages reported. *)
NoNoteOns(made) ==
  \A k \in 1..Len(made) : made[k].kind = "short" => ~NoteOn(made[k].bytes[1])

----------------------------------------------------------------------------
(* The parser. *)

(* A buffer stays one when a byte is stored in it. *)
LEMMA BufferUpdate ==
  ASSUME NEW f \in [P!Slots -> 0..255], NEW i, NEW b \in 0..255
  PROVE  [f EXCEPT ![i] = b] \in [P!Slots -> 0..255]
  OBVIOUS

(* A callback is added to those made. *)
LEMMA CallFacts ==
  ASSUME NEW p, Sound(p), NEW kind, NEW bytes
  PROVE  /\ Sound(P!Call(p, kind, bytes))
         /\ P!Call(p, kind, bytes).m_State = p.m_State
         /\ P!Call(p, kind, bytes).m_MessageBuffer = p.m_MessageBuffer
         /\ P!Call(p, kind, bytes).m_nMessageLength = p.m_nMessageLength
         /\ P!Call(p, kind, bytes).calls
              = Append(p.calls, [kind |-> kind, bytes |-> bytes])
<1> DEFINE made == Append(p.calls, [kind |-> kind, bytes |-> bytes])
<1>1. P!Call(p, kind, bytes) = [p EXCEPT !.calls = made]
  BY Zenon DEF P!Call
<1> HIDE DEF made
<1>2. /\ Sound(P!Call(p, kind, bytes))
      /\ P!Call(p, kind, bytes).m_State = p.m_State
      /\ P!Call(p, kind, bytes).m_MessageBuffer = p.m_MessageBuffer
      /\ P!Call(p, kind, bytes).m_nMessageLength = p.m_nMessageLength
      /\ P!Call(p, kind, bytes).calls = made
  BY <1>1 DEF Sound
<1>3. QED
  BY <1>2 DEF made

(* A byte is stored behind those there are. *)
LEMMA StoreFacts ==
  ASSUME NEW p, Sound(p), NEW b \in 0..255
  PROVE  /\ Sound(P!Store(p, b))
         /\ P!Store(p, b).m_State = p.m_State
         /\ P!Store(p, b).m_MessageBuffer
              = [p.m_MessageBuffer EXCEPT ![p.m_nMessageLength] = b]
         /\ P!Store(p, b).m_nMessageLength = p.m_nMessageLength + 1
         /\ P!Store(p, b).calls = p.calls
<1> DEFINE f == [p.m_MessageBuffer EXCEPT ![p.m_nMessageLength] = b]
           n == p.m_nMessageLength + 1
<1>0. p.m_MessageBuffer \in [P!Slots -> 0..255] /\ n \in Nat
  BY DEF Sound
<1>1. f \in [P!Slots -> 0..255]
  BY <1>0, BufferUpdate, Zenon
<1>2. P!Store(p, b) = [p EXCEPT !.m_MessageBuffer = f, !.m_nMessageLength = n]
  BY Zenon DEF P!Store, Sound
<1> HIDE DEF f, n
<1>3. /\ Sound(P!Store(p, b))
      /\ P!Store(p, b).m_State = p.m_State
      /\ P!Store(p, b).m_MessageBuffer = f
      /\ P!Store(p, b).m_nMessageLength = n
      /\ P!Store(p, b).calls = p.calls
  BY <1>0, <1>1, <1>2 DEF Sound
<1>4. QED
  BY <1>3 DEF f, n

(* The status is cleared and nothing else. *)
LEMMA ClearFacts ==
  ASSUME NEW p, Sound(p)
  PROVE  /\ Sound(P!ClearStatus(p))
         /\ P!ClearStatus(p).m_State = p.m_State
         /\ P!ClearStatus(p).m_MessageBuffer = [p.m_MessageBuffer EXCEPT ![0] = 0]
         /\ P!ClearStatus(p).m_nMessageLength = p.m_nMessageLength
         /\ P!ClearStatus(p).calls = p.calls
<1> DEFINE f == [p.m_MessageBuffer EXCEPT ![0] = 0]
<1>1. f \in [P!Slots -> 0..255]
  <2>1. 0 \in 0..255
    OBVIOUS
  <2>2. QED
    BY <2>1, BufferUpdate DEF Sound
<1>2. P!ClearStatus(p) = [p EXCEPT !.m_MessageBuffer = f]
  BY DEF P!ClearStatus, Sound
<1> HIDE DEF f
<1>3. /\ Sound(P!ClearStatus(p))
      /\ P!ClearStatus(p).m_State = p.m_State
      /\ P!ClearStatus(p).m_MessageBuffer = f
      /\ P!ClearStatus(p).m_nMessageLength = p.m_nMessageLength
      /\ P!ClearStatus(p).calls = p.calls
  BY <1>1, <1>2 DEF Sound
<1>4. QED
  BY <1>3 DEF f

(* Assigning m_State changes nothing else. *)
LEMMA StateFacts ==
  ASSUME NEW p, Sound(p), NEW s \in {"StatusByte", "DataByte", "SysExByte"}
  PROVE  /\ Sound([p EXCEPT !.m_State = s])
         /\ [p EXCEPT !.m_State = s].m_State = s
         /\ [p EXCEPT !.m_State = s].m_MessageBuffer = p.m_MessageBuffer
         /\ [p EXCEPT !.m_State = s].m_nMessageLength = p.m_nMessageLength
         /\ [p EXCEPT !.m_State = s].calls = p.calls
  BY DEF Sound

(* Nor does assigning the length. *)
LEMMA LengthFacts ==
  ASSUME NEW p, Sound(p), NEW n \in Nat
  PROVE  /\ Sound([p EXCEPT !.m_nMessageLength = n])
         /\ [p EXCEPT !.m_nMessageLength = n].m_State = p.m_State
         /\ [p EXCEPT !.m_nMessageLength = n].m_MessageBuffer = p.m_MessageBuffer
         /\ [p EXCEPT !.m_nMessageLength = n].m_nMessageLength = n
         /\ [p EXCEPT !.m_nMessageLength = n].calls = p.calls
  BY DEF Sound

(* ResetState leaves no message in progress, and no status if it is told   *)
(* to clear it.                                                            *)
LEMMA ResetFacts ==
  ASSUME NEW p, Sound(p), NEW clear \in BOOLEAN
  PROVE  /\ Sound(P!ResetState(p, clear))
         /\ P!ResetState(p, clear).m_State = "StatusByte"
         /\ P!ResetState(p, clear).m_nMessageLength = 0
         /\ clear => P!ResetState(p, clear).m_MessageBuffer[0] = 0
         /\ P!ResetState(p, clear).calls = p.calls
<1> DEFINE q == IF clear THEN P!ClearStatus(p) ELSE p
<1>1. Sound(q) /\ q.calls = p.calls
  BY ClearFacts
<1>2. clear => q.m_MessageBuffer[0] = 0
  <2>1. 0 \in P!Slots
    BY BufferAssumption DEF P!Slots
  <2>2. CASE clear
    <3>1. q.m_MessageBuffer = [p.m_MessageBuffer EXCEPT ![0] = 0]
      BY <2>2, ClearFacts
    <3>2. QED
      BY <2>1, <3>1 DEF Sound
  <2>3. QED
    BY <2>2
<1>3. P!ResetState(p, clear) = [q EXCEPT !.m_nMessageLength = 0, !.m_State = "StatusByte"]
  BY DEF P!ResetState
<1> DEFINE r == [q EXCEPT !.m_nMessageLength = 0]
<1>r. /\ Sound(r) /\ r.m_nMessageLength = 0
      /\ r.m_MessageBuffer = q.m_MessageBuffer /\ r.calls = q.calls
  BY <1>1, LengthFacts
<1>s. P!ResetState(p, clear) = [r EXCEPT !.m_State = "StatusByte"]
  BY <1>3
<1> HIDE DEF q, r
<1>4. /\ Sound(P!ResetState(p, clear))
      /\ P!ResetState(p, clear).m_State = "StatusByte"
      /\ P!ResetState(p, clear).m_nMessageLength = 0
      /\ P!ResetState(p, clear).m_MessageBuffer = q.m_MessageBuffer
      /\ P!ResetState(p, clear).calls = q.calls
  BY <1>r, <1>s DEF Sound
<1>5. QED
  BY <1>1, <1>2, <1>4

(* Calls that are no messages: a complaint at most. *)
Complaint(made) ==
  \/ made = <<>>
  \/ \E c : made = <<c>> /\ c.kind # "short"

Quiet(p) == Sound(p) /\ Complaint(p.calls)
Clean(p, quiet) == Sound(p) /\ (quiet => NoNoteOns(p.calls))

(* A complaint is no note-on.                                              *)
LEMMA QuietIsClean ==
  ASSUME NEW quiet \in BOOLEAN, NEW p, Quiet(p)
  PROVE  Clean(p, quiet)
<1>1. CASE p.calls = <<>>
  BY <1>1 DEF Quiet, Clean, NoNoteOns
<1>2. CASE p.calls # <<>>
  <2>1. PICK c : p.calls = <<c>> /\ c.kind # "short"
    BY <1>2 DEF Quiet, Complaint
  <2>2. NoNoteOns(<<c>>)
    BY <2>1 DEF NoNoteOns
  <2>3. QED
    BY <2>1, <2>2 DEF Quiet, Clean
<1>3. QED
  BY <1>1, <1>2

(* Appending to one. *)
LEMMA AppendToOne ==
  ASSUME NEW c, NEW x
  PROVE  Append(<<c>>, x) = <<c, x>>
<1>1. <<c>> \in Seq({c, x}) /\ <<c, x>> \in Seq({c, x})
  OBVIOUS
<1>2. /\ Append(<<c>>, x) \in Seq({c, x})
      /\ Len(Append(<<c>>, x)) = 2
      /\ Append(<<c>>, x)[1] = c /\ Append(<<c>>, x)[2] = x
  BY <1>1
<1>3. \A i \in 1..2 : Append(<<c>>, x)[i] = <<c, x>>[i]
  <2>1. \A i \in 1..2 : i = 1 \/ i = 2
    OBVIOUS
  <2>2. <<c, x>>[1] = c /\ <<c, x>>[2] = x
    OBVIOUS
  <2>3. QED
    BY <1>2, <2>1, <2>2
<1>4. Len(<<c, x>>) = 2
  OBVIOUS
<1>5. QED
  BY <1>1, <1>2, <1>3, <1>4, SeqEqual

(* Nor is another report that is not about one. *)
LEMMA ReportIsClean ==
  ASSUME NEW quiet \in BOOLEAN, NEW p, Quiet(p), NEW kind, NEW bytes,
         quiet /\ kind = "short" => ~NoteOn(bytes[1])
  PROVE  Clean(P!Call(p, kind, bytes), quiet)
<1> DEFINE x == [kind |-> kind, bytes |-> bytes]
           q == P!Call(p, kind, bytes)
<1>1. quiet /\ x.kind = "short" => ~NoteOn(x.bytes[1])
  OBVIOUS
<1>2. Sound(p)
  BY DEF Quiet
<1>3. Sound(q) /\ q.calls = Append(p.calls, x)
  BY <1>2, CallFacts
<1> HIDE DEF x, q
<1>4. CASE p.calls = <<>>
  <2>1. Append(p.calls, x) = <<x>>
    BY <1>4
  <2>2. quiet => NoNoteOns(<<x>>)
    BY <1>1 DEF NoNoteOns
  <2>3. QED
    BY <1>3, <2>1, <2>2 DEF Clean, q
<1>5. CASE p.calls # <<>>
  <2>1. PICK c : p.calls = <<c>> /\ c.kind # "short"
    BY <1>5 DEF Quiet, Complaint
  <2>2. Append(p.calls, x) = <<c, x>>
    BY <2>1, AppendToOne
  <2>3. quiet => NoNoteOns(<<c, x>>)
    BY <1>1, <2>1 DEF NoNoteOns
  <2>4. QED
    BY <1>3, <2>2, <2>3 DEF Clean, q
<1>6. QED
  BY <1>4, <1>5

(* What reports nothing leaves the reports as they are. *)
LEMMA StoreIsClean ==
  ASSUME NEW quiet \in BOOLEAN, NEW p, Clean(p, quiet), NEW b \in 0..255
  PROVE  Clean(P!Store(p, b), quiet)
  BY StoreFacts DEF Clean

(* None of the parser's ways to reset reports a message. *)
LEMMA ClearIsClean ==
  ASSUME NEW quiet \in BOOLEAN, NEW p, Clean(p, quiet)
  PROVE  Clean(P!ClearStatus(p), quiet)
  BY ClearFacts DEF Clean

(* Neither does ResetState ... *)
LEMMA ResetIsClean ==
  ASSUME NEW quiet \in BOOLEAN, NEW p, Clean(p, quiet), NEW clear \in BOOLEAN
  PROVE  Clean(P!ResetState(p, clear), quiet)
  BY ResetFacts DEF Clean

(* ... nor a change of m_State. *)
LEMMA StateIsClean ==
  ASSUME NEW quiet \in BOOLEAN, NEW p, Clean(p, quiet),
         NEW s \in {"StatusByte", "DataByte", "SysExByte"}
  PROVE  Clean([p EXCEPT !.m_State = s], quiet)
  BY StateFacts DEF Clean

(* A message begins with its status. *)
LEMMA MessageBegins ==
  ASSUME NEW p, p.m_nMessageLength \in Nat \ {0}
  PROVE  P!Message(p)[1] = p.m_MessageBuffer[0]
<1>1. 1 \in 1..p.m_nMessageLength /\ 1 - 1 = 0
  OBVIOUS
<1> DEFINE n == p.m_nMessageLength
           f == p.m_MessageBuffer
<1> HIDE DEF n, f
<1>2. P!Message(p) = [k \in 1..n |-> f[k - 1]]
  BY DEF P!Message, n, f
<1>3. 1 \in 1..n /\ 1 - 1 = 0
  BY <1>1 DEF n
<1>4. [k \in 1..n |-> f[k - 1]][1] = f[0]
  BY <1>3
<1>5. QED
  BY <1>2, <1>4 DEF f

(* A status byte begins a message. *)
LEMMA ParseStatusFacts ==
  ASSUME NEW quiet \in BOOLEAN, NEW p, Quiet(p), NEW b \in 0..255
  PROVE  Clean(P!ParseStatus(p, b), quiet)
<1>0. Clean(p, quiet)
  BY QuietIsClean
<1>1. CASE b \in {244, 245, 247}
  <2>1. P!ParseStatus(p, b) = P!ClearStatus(p)
    BY <1>1 DEF P!ParseStatus
  <2>2. QED
    BY <1>0, <2>1, ClearIsClean
<1>2. CASE b = 246
  <2> DEFINE q == P!Call(p, "short", <<b>>)
  <2>1. P!ParseStatus(p, b) = P!Store(P!ClearStatus(q), b)
    BY <1>2 DEF P!ParseStatus
  <2>2. Clean(q, quiet)
    <3>1. ~NoteOn(<<b>>[1])
      BY <1>2 DEF NoteOn
    <3>2. QED
      BY <3>1, ReportIsClean
  <2> HIDE DEF q
  <2>3. Clean(P!ClearStatus(q), quiet)
    BY <2>2, ClearIsClean
  <2>4. QED
    BY <2>1, <2>3, StoreIsClean
<1>3. CASE b \notin {244, 245, 246, 247}
  <2> DEFINE s == IF b = 240 THEN "SysExByte" ELSE "DataByte"
             q == [p EXCEPT !.m_State = s]
  <2>1. P!ParseStatus(p, b) = P!Store(q, b)
    BY <1>3 DEF P!ParseStatus
  <2>2. s \in {"StatusByte", "DataByte", "SysExByte"}
    OBVIOUS
  <2> HIDE DEF s
  <2>3. Clean(q, quiet)
    BY <1>0, <2>2, StateIsClean
  <2> HIDE DEF q
  <2>4. QED
    BY <2>1, <2>3, StoreIsClean
<1>4. QED
  BY <1>1, <1>2, <1>3

(* A complete message is reported, unless it is a note-on and to be        *)
(* ignored.                                                                *)
LEMMA CheckFacts ==
  ASSUME NEW quiet \in BOOLEAN, NEW p, Quiet(p), NEW ignore \in BOOLEAN,
         quiet => ignore \/ ~P!Complete(p) \/ ~NoteOn(p.m_MessageBuffer[0])
  PROVE  Clean(P!CheckCompleteShortMessage(p, ignore), quiet)
<1> DEFINE s == p.m_MessageBuffer[0]
           dropped == ignore /\ s \in 144..159
           r == P!Call(p, "short", P!Message(p))
           q == IF dropped THEN p ELSE r
           clear == s \in 241..247
<1>0. Clean(p, quiet)
  BY QuietIsClean
<1>1. CASE ~P!Complete(p)
  <2>1. P!CheckCompleteShortMessage(p, ignore) = p
    BY <1>1 DEF P!CheckCompleteShortMessage
  <2>2. QED
    BY <1>0, <2>1
<1>2. CASE P!Complete(p)
  <2>1. P!CheckCompleteShortMessage(p, ignore) = P!ResetState(q, clear)
    BY <1>2 DEF P!CheckCompleteShortMessage
  <2>2. P!Message(p)[1] = s
    <3>1. p.m_nMessageLength \in Nat \ {0}
      BY <1>2 DEF P!Complete
    <3>2. QED
      BY <3>1, MessageBegins
  <2>3. (quiet => ~NoteOn(s)) => Clean(r, quiet)
    BY <2>2, ReportIsClean
  <2>4. ~dropped => (quiet => ~NoteOn(s))
    BY <1>2 DEF NoteOn
  <2>5. Clean(q, quiet)
    BY <1>0, <2>3, <2>4
  <2> HIDE DEF q, clear
  <2>6. clear \in BOOLEAN
    BY DEF clear
  <2>7. Clean(P!ResetState(q, clear), quiet)
    BY <2>5, <2>6, ResetIsClean
  <2>8. QED
    BY <2>1, <2>7
<1>3. QED
  BY <1>1, <1>2

(* A data byte after a status that runs on completes a message of two      *)
(* bytes at most, no note-on.                                              *)
LEMMA ParseRunningStatusFacts ==
  ASSUME NEW quiet \in BOOLEAN, NEW p, Quiet(p), NEW b \in 0..255
  PROVE  Clean(P!ParseRunningStatus(p, b), quiet)
<1> DEFINE f == [p.m_MessageBuffer EXCEPT ![1] = b]
           q == [p EXCEPT !.m_MessageBuffer[1] = b, !.m_nMessageLength = 2]
<1>1. f \in [P!Slots -> 0..255]
  BY BufferUpdate DEF Quiet, Sound
<1>2. q = [p EXCEPT !.m_MessageBuffer = f, !.m_nMessageLength = 2]
  BY Zenon DEF Quiet, Sound
<1> HIDE DEF f
<1>p. Sound(p)
  BY DEF Quiet
<1> HIDE DEF q
<1>3. Sound(q) /\ q.calls = p.calls /\ q.m_nMessageLength = 2
  BY <1>1, <1>2, <1>p DEF Sound
<1> USE DEF q
<1>4. P!ParseRunningStatus(p, b)
        = IF p.m_MessageBuffer[0] = 0 THEN p
          ELSE IF P!Complete(q) THEN P!CheckCompleteShortMessage(q, FALSE)
          ELSE [q EXCEPT !.m_State = "DataByte"]
  BY Zenon DEF P!ParseRunningStatus
<1> HIDE DEF q
<1>5. Quiet(q)
  BY <1>3 DEF Quiet
<1>6. P!Complete(q) => ~NoteOn(q.m_MessageBuffer[0])
  BY <1>3 DEF P!Complete, P!TwoByteMessage, NoteOn
<1>7. P!Complete(q) => Clean(P!CheckCompleteShortMessage(q, FALSE), quiet)
  BY <1>5, <1>6, CheckFacts
<1>8. Clean(p, quiet) /\ Clean(q, quiet)
  BY <1>5, QuietIsClean
<1>9. Clean([q EXCEPT !.m_State = "DataByte"], quiet)
  BY <1>8, StateIsClean
<1>10. QED
  BY <1>4, <1>7, <1>8, <1>9

(* What is parsed where a status byte is expected. *)
LEMMA ParseStatusByteFacts ==
  ASSUME NEW quiet \in BOOLEAN, NEW p, Quiet(p), NEW b \in 0..255
  PROVE  Clean(P!ParseStatusByte(p, b), quiet)
<1>1. CASE P!IsStatus(b)
  BY <1>1, ParseStatusFacts DEF P!ParseStatusByte
<1>2. CASE ~P!IsStatus(b)
  BY <1>2, ParseRunningStatusFacts DEF P!ParseStatusByte
<1>3. QED
  BY <1>1, <1>2

(* A complaint about what came before, and a new start. *)
LEMMA RestartFacts ==
  ASSUME NEW quiet \in BOOLEAN, NEW p, Sound(p), p.calls = <<>>, NEW kind, kind # "short",
         NEW b \in 0..255
  PROVE  Clean(P!Restart(p, kind, b), quiet)
<1> DEFINE x == [kind |-> kind, bytes |-> <<>>]
           q == P!Call(p, kind, <<>>)
           r == P!ResetState(q, TRUE)
<1>1. P!Restart(p, kind, b) = P!ParseStatusByte(r, b)
  BY DEF P!Restart
<1>2. Sound(q) /\ q.calls = Append(p.calls, x)
  BY CallFacts
<1>3. x.kind # "short"
  OBVIOUS
<1> HIDE DEF x, q
<1>4. Sound(r) /\ r.calls = q.calls
  BY <1>2, ResetFacts
<1>5. q.calls = <<x>>
  BY <1>2
<1> HIDE DEF r
<1>6. Quiet(r)
  BY <1>3, <1>4, <1>5 DEF Quiet, Complaint
<1>7. QED
  BY <1>1, <1>6, ParseStatusByteFacts

(* Within a message that is no SysEx message. *)
LEMMA ParseDataByteFacts ==
  ASSUME NEW quiet \in BOOLEAN, NEW p, Sound(p), p.calls = <<>>, NEW b \in 0..255
  PROVE  Clean(P!ParseDataByte(p, b, quiet), quiet)
<1>1. CASE P!IsStatus(b)
  <2>1. P!ParseDataByte(p, b, quiet) = P!Restart(p, "unexpected", b)
    BY <1>1 DEF P!ParseDataByte
  <2>2. QED
    BY <2>1, RestartFacts
<1>2. CASE ~P!IsStatus(b)
  <2> DEFINE q == P!Store(p, b)
  <2>1. P!ParseDataByte(p, b, quiet) = P!CheckCompleteShortMessage(q, quiet)
    BY <1>2 DEF P!ParseDataByte
  <2>2. Sound(q) /\ q.calls = <<>>
    BY StoreFacts
  <2> HIDE DEF q
  <2>3. Quiet(q)
    BY <2>2 DEF Quiet, Complaint
  <2>4. QED
    BY <2>1, <2>3, CheckFacts
<1>3. QED
  BY <1>1, <1>2

(* Within a SysEx message. *)
LEMMA ParseSysExByteFacts ==
  ASSUME NEW quiet \in BOOLEAN, NEW p, Sound(p), p.calls = <<>>, NEW b \in 0..255
  PROVE  Clean(P!ParseSysExByte(p, b), quiet)
<1> DEFINE q == P!Store(p, b)
           r == P!Call(q, "sysex", P!Message(q))
<1>1. Clean(P!Restart(p, "unexpected", b), quiet) /\ Clean(P!Restart(p, "overflow", b), quiet)
  BY RestartFacts
<1>2. Sound(q) /\ q.calls = <<>>
  BY StoreFacts
<1>3. Quiet(q)
  BY <1>2 DEF Quiet, Complaint
<1>4. Clean(q, quiet)
  BY <1>3, QuietIsClean
<1>5. Clean(r, quiet)
  BY <1>3, ReportIsClean
<1> HIDE DEF r
<1>6. Clean(P!ResetState(r, TRUE), quiet)
  BY <1>5, ResetIsClean
<1>7. \/ P!ParseSysExByte(p, b) = P!Restart(p, "unexpected", b)
      \/ P!ParseSysExByte(p, b) = P!Restart(p, "overflow", b)
      \/ P!ParseSysExByte(p, b) = P!ResetState(r, TRUE)
      \/ P!ParseSysExByte(p, b) = q
  BY Zenon DEF P!ParseSysExByte, r
<1>8. QED
  BY <1>1, <1>4, <1>6, <1>7

(* A byte that is parsed while note-ons are ignored completes none.        *)
LEMMA IgnoringPlaysNoNoteOns ==
  ASSUME NEW quiet \in BOOLEAN, NEW p, Sound(p), p.calls = <<>>, NEW b \in 0..255
  PROVE  Clean(P!ParseByte(p, b, quiet), quiet)
<1>1. Quiet(p)
  BY DEF Quiet, Complaint
<1>2. Clean(p, quiet)
  BY <1>1, QuietIsClean
<1>3. CASE b >= 248
  <2>1. ~NoteOn(<<b>>[1])
    BY <1>3 DEF NoteOn
  <2>2. Clean(P!Call(p, "short", <<b>>), quiet)
    BY <1>1, <2>1, ReportIsClean
  <2>3. P!ParseByte(p, b, quiet)
          = IF b \in {249, 253} THEN p ELSE P!Call(p, "short", <<b>>)
    <3>1. b >= 248 /\ ~(b < 248)
      BY <1>3
    <3>2. QED
      BY <3>1 DEF P!ParseByte
  <2>4. QED
    BY <1>2, <2>2, <2>3
<1>4. CASE b < 248 /\ p.m_State = "StatusByte"
  <2>1. P!ParseByte(p, b, quiet) = P!ParseStatusByte(p, b)
    BY <1>4 DEF P!ParseByte
  <2>2. QED
    BY <1>1, <2>1, ParseStatusByteFacts
<1>5. CASE b < 248 /\ p.m_State = "DataByte"
  <2>1. P!ParseByte(p, b, quiet) = P!ParseDataByte(p, b, quiet)
    BY <1>5 DEF P!ParseByte
  <2>2. QED
    BY <2>1, ParseDataByteFacts
<1>6. CASE b < 248 /\ p.m_State = "SysExByte"
  <2>1. P!ParseByte(p, b, quiet) = P!ParseSysExByte(p, b)
    BY <1>6 DEF P!ParseByte
  <2>2. QED
    BY <2>1, ParseSysExByteFacts
<1>7. p.m_State \in {"StatusByte", "DataByte", "SysExByte"}
  BY DEF Sound
<1>8. b >= 248 \/ b < 248
  OBVIOUS
<1>9. QED
  BY <1>3, <1>4, <1>5, <1>6, <1>7, <1>8, Zenon

(* The parser's bytes never leave their types. *)
LEMMA CallIsSound ==
  ASSUME NEW p, Sound(p), NEW b \in 0..255, NEW kind, NEW bytes
  PROVE  Sound(P!Call(P!Store(p, b), kind, bytes))
  BY StoreFacts, CallFacts

(* Before a byte is parsed nothing is reported. *)
LEMMA CallsForgotten ==
  ASSUME NEW p, Sound(p)
  PROVE  /\ Sound([p EXCEPT !.calls = <<>>])
         /\ [p EXCEPT !.calls = <<>>].calls = <<>>
<1> DEFINE made == <<>>
<1> HIDE DEF made
<1>1. /\ Sound([p EXCEPT !.calls = made])
      /\ [p EXCEPT !.calls = made].calls = made
  BY DEF Sound
<1>2. QED
  BY <1>1 DEF made

----------------------------------------------------------------------------
(* The invariant behind LateNotesDiscarded. *)

Bytes == [byte : 0..255, when : When]
Call == [rest : Received, bIgnoreNoteOns : BOOLEAN,
         then : {"events", "midi", "purge"}]

TypeInv ==
  /\ sending \in Seq(Seq(0..255))
  /\ m_MIDIRxBuffer \in Received /\ Len(m_MIDIRxBuffer) <= Capacity
  /\ socket \in Seq(Received)
  /\ calls \in Seq(Call)
  /\ pc \in {"midi", "events", "deferred", "yield", "parse", "loading",
             "failing", "purge"}
  /\ Sound(parser)

(* No byte of this data came while a SoundFont was being loaded. *)
Early(data) == \A i \in 1..Len(data) : data[i].when # "busy"

(* A purge returns to the purge, and only what the main task's own turn    *)
(* parses may make notes sound; what other calls there are were made within*)
(* that call, by a purge.                                                  *)
CallsInv ==
  /\ pc \in {"midi", "events", "deferred", "yield"} => calls = <<>>
  /\ pc = "parse" => calls # <<>>
  /\ \A k \in 1..Len(calls) :
       /\ calls[k].bIgnoreNoteOns <=> calls[k].then = "purge"
       /\ ~calls[k].bIgnoreNoteOns => k = Len(calls) /\ Early(calls[k].rest)

(* Bytes that came during a load wait during that load only. *)
WaitInv ==
  /\ ~Busy => Early(m_MIDIRxBuffer)
  /\ \A i \in 1..Len(socket) : Early(socket[i])

PlayInv == arrived = {"busy"} => NoNoteOns(parser.calls)

DiscardInv == TypeInv /\ CallsInv /\ WaitInv /\ PlayInv

----------------------------------------------------------------------------
(* Sequences. *)

(* A sequence with an element in front, *)
LEMMA ConsFacts ==
  ASSUME NEW S, NEW s \in Seq(S), NEW x \in S
  PROVE  /\ <<x>> \o s \in Seq(S)
         /\ Len(<<x>> \o s) = Len(s) + 1
         /\ (<<x>> \o s)[1] = x
         /\ \A k \in 1..Len(s) : (<<x>> \o s)[k + 1] = s[k]
         /\ <<x>> \o s # <<>>
  OBVIOUS

(* without its first, *)
LEMMA TailFacts ==
  ASSUME NEW S, NEW s \in Seq(S), s # <<>>
  PROVE  /\ Head(s) \in S /\ Head(s) = s[1]
         /\ Tail(s) \in Seq(S)
         /\ Len(Tail(s)) = Len(s) - 1 /\ Len(s) \in Nat \ {0}
         /\ \A k \in 1..Len(Tail(s)) : Tail(s)[k] = s[k + 1]
  OBVIOUS

(* cut short, *)
LEMMA CutFacts ==
  ASSUME NEW S, NEW s \in Seq(S), NEW n \in 0..Len(s)
  PROVE  /\ SubSeq(s, 1, n) \in Seq(S)
         /\ Len(SubSeq(s, 1, n)) = n
         /\ \A i \in 1..n : SubSeq(s, 1, n)[i] = s[i]
  OBVIOUS

(* and followed by another. *)
LEMMA JoinFacts ==
  ASSUME NEW S, NEW s \in Seq(S), NEW t \in Seq(S)
  PROVE  /\ s \o t \in Seq(S)
         /\ Len(s \o t) = Len(s) + Len(t)
  OBVIOUS

(* What is left of early data is early, and so is early data put together. *)
LEMMA EarlyTail ==
  ASSUME NEW data \in Received, data # <<>>, Early(data)
  PROVE  Early(Tail(data))
  BY DEF Early, Received

(* Bytes that came early, put together or cut, still did. *)
LEMMA EarlyJoined ==
  ASSUME NEW a \in Received, NEW b \in Received, Early(a), Early(b)
  PROVE  Early(a \o b)
  BY DEF Early, Received

LEMMA EarlyCut ==
  ASSUME NEW a \in Received, NEW n \in 0..Len(a)
  PROVE  /\ SubSeq(a, 1, n) \in Received
         /\ Len(SubSeq(a, 1, n)) = n
         /\ Early(a) => Early(SubSeq(a, 1, n))
<1>1. /\ SubSeq(a, 1, n) \in Received
      /\ Len(SubSeq(a, 1, n)) = n
      /\ \A i \in 1..n : SubSeq(a, 1, n)[i] = a[i]
  BY CutFacts DEF Received
<1>2. Early(a) => Early(SubSeq(a, 1, n))
  BY <1>1 DEF Early, Received
<1>3. QED
  BY <1>1, <1>2

(* Bytes are early if they come when no SoundFont is loaded, or by UDP.    *)
LEMMA StampFacts ==
  ASSUME NEW bytes \in Seq(0..255), NEW w \in {"busy", "busyNet"}
  PROVE  /\ Stamp(bytes, w) \in Received
         /\ Len(Stamp(bytes, w)) = Len(bytes)
         /\ ~Busy \/ w # "busy" => Early(Stamp(bytes, w))
<1> DEFINE when == IF Busy THEN w ELSE "idle"
<1>1. when \in When /\ (~Busy \/ w # "busy" => when # "busy")
  BY DEF When
<1> HIDE DEF when
<1>2. Stamp(bytes, w) = [k \in 1..Len(bytes) |-> [byte |-> bytes[k], when |-> when]]
  BY DEF Stamp, when
<1>3. ASSUME NEW k \in 1..Len(bytes)
      PROVE  /\ [byte |-> bytes[k], when |-> when] \in Bytes
             /\ [byte |-> bytes[k], when |-> when].when = when
  <2>1. bytes[k] \in 0..255
    BY ElementOfSeq
  <2>2. QED
    BY <1>1, <2>1 DEF Bytes
<1>4. Stamp(bytes, w) \in Received /\ Len(Stamp(bytes, w)) = Len(bytes)
  BY <1>2, <1>3 DEF Received, Bytes
<1>5. \A k \in 1..Len(bytes) : Stamp(bytes, w)[k].when = when
  BY <1>2
<1>6. QED
  BY <1>1, <1>4, <1>5 DEF Early

(* Received data, put together. *)
LEMMA ReceivedJoined ==
  ASSUME NEW a \in Received, NEW b \in Received
  PROVE  a \o b \in Received /\ Len(a \o b) = Len(a) + Len(b)
  BY JoinFacts DEF Received

(* Enqueue appends what fits. *)
LEMMA EnqueueFacts ==
  ASSUME TypeInv, NEW block \in Received, Enqueue(block)
  PROVE  /\ m_MIDIRxBuffer' \in Received /\ Len(m_MIDIRxBuffer') <= Capacity
         /\ Early(m_MIDIRxBuffer) /\ Early(block) => Early(m_MIDIRxBuffer')
<1> DEFINE space == Capacity - Len(m_MIDIRxBuffer)
           n == IF Len(block) <= space THEN Len(block) ELSE space
           kept == SubSeq(block, 1, n)
<1>1. m_MIDIRxBuffer' = m_MIDIRxBuffer \o kept
  BY DEF Enqueue
<1>2. m_MIDIRxBuffer \in Received /\ Len(m_MIDIRxBuffer) \in 0..Capacity
  BY DEF TypeInv, Received
<1>3. Len(block) \in Nat
  BY DEF Received
<1>4. n \in 0..Len(block) /\ Len(m_MIDIRxBuffer) + n <= Capacity
  BY <1>2, <1>3, CapacityAssumption
<1> HIDE DEF n
<1>5. kept \in Received /\ Len(kept) = n /\ (Early(block) => Early(kept))
  BY <1>4, EarlyCut
<1> HIDE DEF kept
<1>6. /\ m_MIDIRxBuffer \o kept \in Received
      /\ Len(m_MIDIRxBuffer \o kept) = Len(m_MIDIRxBuffer) + n
  BY <1>2, <1>5, ReceivedJoined
<1>7. Early(m_MIDIRxBuffer) /\ Early(kept) => Early(m_MIDIRxBuffer \o kept)
  BY <1>2, <1>5, EarlyJoined
<1>8. QED
  BY <1>1, <1>4, <1>5, <1>6, <1>7

----------------------------------------------------------------------------
(* The steps. *)

(* Nothing waits in the beginning. *)
LEMMA InputStarts == Init => DiscardInv
<1> SUFFICES ASSUME Init PROVE DiscardInv
  OBVIOUS
<1>1. Sound(parser) /\ parser.calls = <<>>
  <2>1. 0 \in 0..255 /\ 0 \in Nat
    OBVIOUS
  <2>2. [i \in P!Slots |-> 0] \in [P!Slots -> 0..255]
    BY <2>1
  <2>3. QED
    BY <2>1, <2>2 DEF Init, P!Init, Sound
<1>2. TypeInv
  BY <1>1, CapacityAssumption DEF Init, TypeInv, Received
<1>3. CallsInv /\ WaitInv /\ PlayInv
  BY DEF Init, CallsInv, WaitInv, PlayInv, Early
<1>4. QED
  BY <1>2, <1>3 DEF DiscardInv

(* An interrupt or a datagram while MainTask stands still. *)
LEMMA ReceiveStep == DiscardInv /\ Receive => DiscardInv'
<1> SUFFICES ASSUME DiscardInv, Receive PROVE DiscardInv'
  OBVIOUS
<1>1. UNCHANGED <<socket, calls, pc, parser, arrived>>
  BY DEF Receive, parsing
<1>2. PICK bytes \in Seq(0..255) :
        Enqueue(Stamp(bytes, "busy")) /\ sending' \in Seq(Seq(0..255))
  <2>1. CASE \E packets \in Messages : /\ Enqueue(Stamp(Head(packets), "busy"))
                                       /\ sending' = Tail(packets)
    <3>1. PICK packets \in Messages : /\ Enqueue(Stamp(Head(packets), "busy"))
                                      /\ sending' = Tail(packets)
      BY <2>1
    <3>2. packets \in Seq(Seq(0..255)) /\ packets # <<>>
      BY MessageAssumption
    <3>3. Head(packets) \in Seq(0..255) /\ Tail(packets) \in Seq(Seq(0..255))
      BY <3>2, TailFacts
    <3>4. QED
      BY <3>1, <3>3
  <2>2. CASE /\ sending # <<>> /\ Enqueue(Stamp(Head(sending), "busy"))
             /\ sending' = Tail(sending)
    <3>1. Head(sending) \in Seq(0..255) /\ Tail(sending) \in Seq(Seq(0..255))
      BY <2>2, TailFacts DEF DiscardInv, TypeInv
    <3>2. QED
      BY <2>2, <3>1
  <2>3. QED
    BY <2>1, <2>2 DEF Receive
<1> DEFINE block == Stamp(bytes, "busy")
<1>3. block \in Received /\ (~Busy => Early(block))
  BY StampFacts
<1> HIDE DEF block
<1>4. /\ m_MIDIRxBuffer' \in Received /\ Len(m_MIDIRxBuffer') <= Capacity
      /\ Early(m_MIDIRxBuffer) /\ Early(block) => Early(m_MIDIRxBuffer')
  BY <1>2, <1>3, EnqueueFacts DEF DiscardInv, block
<1>5. Busy' = Busy
  BY <1>1 DEF Busy
<1>6. TypeInv'
  BY <1>1, <1>2, <1>4 DEF DiscardInv, TypeInv
<1>7. CallsInv'
  BY <1>1 DEF DiscardInv, CallsInv
<1>8. WaitInv'
  BY <1>1, <1>3, <1>4, <1>5 DEF DiscardInv, WaitInv
<1>9. PlayInv'
  BY <1>1 DEF DiscardInv, PlayInv
<1>10. QED
  BY <1>6, <1>7, <1>8, <1>9 DEF DiscardInv

(* A datagram waits in the socket: nothing that is parsed changes. *)
LEMMA DatagramStep == DiscardInv /\ DatagramArrives => DiscardInv'
<1> SUFFICES ASSUME DiscardInv, DatagramArrives PROVE DiscardInv'
  OBVIOUS
<1>1. UNCHANGED <<sending, m_MIDIRxBuffer, calls, pc, parser, arrived>>
  BY DEF DatagramArrives, parsing
<1>2. PICK bytes \in Datagrams : socket' = Append(socket, Stamp(bytes, "busyNet"))
  BY DEF DatagramArrives
<1>3. bytes \in Seq(0..255)
  BY DatagramAssumption DEF IsMessage
<1> DEFINE block == Stamp(bytes, "busyNet")
<1>4. block \in Received /\ Early(block)
  BY <1>3, StampFacts
<1> HIDE DEF block
<1>5. socket \in Seq(Received) /\ socket' = Append(socket, block)
  BY <1>2 DEF DiscardInv, TypeInv, block
<1>6. socket' \in Seq(Received) /\ Len(socket') = Len(socket) + 1
  BY <1>4, <1>5
<1>7. \A i \in 1..Len(socket') : socket'[i] = IF i <= Len(socket) THEN socket[i] ELSE block
  BY <1>4, <1>5
<1>8. TypeInv'
  BY <1>1, <1>6 DEF DiscardInv, TypeInv
<1>9. CallsInv' /\ PlayInv'
  BY <1>1 DEF DiscardInv, CallsInv, PlayInv
<1>10. Busy' = Busy
  BY <1>1 DEF Busy
<1>11. \A i \in 1..Len(socket') : Early(socket'[i])
  BY <1>4, <1>5, <1>6, <1>7 DEF DiscardInv, WaitInv
<1>12. WaitInv'
  BY <1>1, <1>10, <1>11 DEF DiscardInv, WaitInv
<1>13. QED
  BY <1>8, <1>9, <1>12 DEF DiscardInv

(* Another call is put on the stack. *)
LEMMA CallMade ==
  ASSUME DiscardInv, NEW data \in Received, NEW ignore \in BOOLEAN,
         NEW then \in {"events", "midi", "purge"},
         ParseMIDIBytes(data, ignore, then),
         ignore <=> then = "purge",
         ~ignore => calls = <<>> /\ Early(data)
  PROVE  /\ calls' \in Seq(Call) /\ pc' = "parse" /\ CallsInv'
         /\ Busy' <=> ignore \/ \E k \in 1..Len(calls) : calls[k].bIgnoreNoteOns
<1> DEFINE c == [rest |-> data, bIgnoreNoteOns |-> ignore, then |-> then]
<1>1. calls' = <<c>> \o calls /\ pc' = "parse"
  BY DEF ParseMIDIBytes
<1>2. c \in Call /\ c.rest = data /\ c.bIgnoreNoteOns = ignore /\ c.then = then
  BY DEF Call
<1> HIDE DEF c
<1>3. calls \in Seq(Call)
  BY DEF DiscardInv, TypeInv
<1>4. /\ calls' \in Seq(Call) /\ Len(calls') = Len(calls) + 1 /\ calls'[1] = c
      /\ \A k \in 1..Len(calls) : calls'[k + 1] = calls[k]
      /\ calls' # <<>>
  BY <1>1, <1>2, <1>3, ConsFacts
<1>5. Len(calls) \in Nat
  BY <1>3
<1>6. \A k \in 1..Len(calls') : k = 1 \/ (k - 1 \in 1..Len(calls) /\ calls'[k] = calls[k - 1])
  <2>1. \A k \in 1..Len(calls') : k # 1 => k - 1 \in 1..Len(calls) /\ (k - 1) + 1 = k
    BY <1>4, <1>5
  <2>2. QED
    BY <1>4, <2>1
<1>7. \A k \in 1..Len(calls) :
        /\ calls[k].bIgnoreNoteOns <=> calls[k].then = "purge"
        /\ ~calls[k].bIgnoreNoteOns => k = Len(calls) /\ Early(calls[k].rest)
  BY DEF DiscardInv, CallsInv
<1>8. ~ignore => Len(calls') = 1 /\ Early(data)
  BY <1>3, <1>4
<1>9. ASSUME NEW k \in 1..Len(calls')
      PROVE  /\ calls'[k].bIgnoreNoteOns <=> calls'[k].then = "purge"
             /\ ~calls'[k].bIgnoreNoteOns => k = Len(calls') /\ Early(calls'[k].rest)
  <2>1. CASE k = 1
    BY <1>2, <1>4, <1>8, <2>1
  <2>2. CASE k # 1
    BY <1>4, <1>5, <1>6, <1>7, <2>2
  <2>3. QED
    BY <2>1, <2>2
<1>10. CallsInv'
  BY <1>1, <1>4, <1>9 DEF CallsInv
<1>11. Busy' <=> \E k \in 1..Len(calls') : calls'[k].bIgnoreNoteOns
  BY <1>1 DEF Busy
<1>12. (\E k \in 1..Len(calls') : calls'[k].bIgnoreNoteOns)
         <=> ignore \/ \E k \in 1..Len(calls) : calls[k].bIgnoreNoteOns
  <2>1. ignore => \E k \in 1..Len(calls') : calls'[k].bIgnoreNoteOns
    <3>1. 1 \in 1..Len(calls') /\ calls'[1].bIgnoreNoteOns = ignore
      BY <1>2, <1>4, <1>5
    <3>2. QED
      BY <3>1
  <2>2. ASSUME NEW k \in 1..Len(calls), calls[k].bIgnoreNoteOns
        PROVE  \E j \in 1..Len(calls') : calls'[j].bIgnoreNoteOns
    <3>1. k + 1 \in 1..Len(calls')
      BY <1>4, <1>5
    <3>2. QED
      BY <1>4, <2>2, <3>1
  <2>3. ASSUME NEW k \in 1..Len(calls'), calls'[k].bIgnoreNoteOns
        PROVE  ignore \/ \E j \in 1..Len(calls) : calls[j].bIgnoreNoteOns
    BY <1>2, <1>4, <1>6, <2>3
  <2>4. QED
    BY <2>1, <2>2, <2>3
<1>13. QED
  BY <1>1, <1>4, <1>10, <1>11, <1>12

(* MainTask's turn parses what waits in the queue, or goes on.             *)
LEMMA UpdateStep == DiscardInv /\ UpdateMIDI => DiscardInv'
<1> SUFFICES ASSUME DiscardInv, UpdateMIDI PROVE DiscardInv'
  OBVIOUS
<1>1. /\ pc = "midi" /\ m_MIDIRxBuffer' = <<>>
      /\ UNCHANGED <<sending, socket, parser, arrived>>
  BY DEF UpdateMIDI, senders, parsing
<1>2. calls = <<>> /\ m_MIDIRxBuffer \in Received
  BY <1>1 DEF DiscardInv, CallsInv, TypeInv
<1>3. ~Busy
  BY <1>1, <1>2 DEF Busy
<1>4. Early(m_MIDIRxBuffer) /\ Early(<<>>)
  BY <1>3 DEF DiscardInv, WaitInv, Early
<1>5. calls' \in Seq(Call) /\ pc' \in {"events", "parse"} /\ CallsInv'
  <2>1. CASE m_MIDIRxBuffer = <<>>
    BY <1>1, <1>2, <2>1 DEF UpdateMIDI, DiscardInv, TypeInv, CallsInv
  <2>2. CASE m_MIDIRxBuffer # <<>>
    <3>1. ParseMIDIBytes(m_MIDIRxBuffer, FALSE, "events")
      BY <2>2 DEF UpdateMIDI
    <3>2. QED
      BY <1>2, <1>4, <3>1, CallMade
  <2>3. QED
    BY <2>1, <2>2
<1>6. TypeInv'
  BY <1>1, <1>5, CapacityAssumption DEF DiscardInv, TypeInv, Received
<1>7. WaitInv' /\ PlayInv'
  BY <1>1, <1>4 DEF DiscardInv, WaitInv, PlayInv
<1>8. QED
  BY <1>5, <1>6, <1>7 DEF DiscardInv

(* A datagram never counts as having come through the queue. *)
LEMMA YieldStep == DiscardInv /\ Yield => DiscardInv'
<1> SUFFICES ASSUME DiscardInv, Yield PROVE DiscardInv'
  OBVIOUS
<1>1. pc = "yield" /\ UNCHANGED <<sending, m_MIDIRxBuffer, parser, arrived>>
  BY DEF Yield, senders
<1>2. calls = <<>> /\ socket \in Seq(Received)
  BY <1>1 DEF DiscardInv, CallsInv, TypeInv
<1>3. ~Busy
  BY <1>1, <1>2 DEF Busy
<1>4. Early(m_MIDIRxBuffer)
  BY <1>3 DEF DiscardInv, WaitInv
<1>5. /\ calls' \in Seq(Call) /\ pc' \in {"midi", "parse"} /\ CallsInv'
      /\ socket' \in Seq(Received)
      /\ \A i \in 1..Len(socket') : Early(socket'[i])
  <2>1. CASE socket = <<>>
    BY <1>1, <1>2, <2>1 DEF Yield, DiscardInv, TypeInv, CallsInv, WaitInv
  <2>2. CASE socket # <<>>
    <3>1. ParseMIDIBytes(Head(socket), FALSE, "midi") /\ socket' = Tail(socket)
      BY <2>2 DEF Yield
    <3>2. /\ Head(socket) \in Received /\ Head(socket) = socket[1]
          /\ Tail(socket) \in Seq(Received)
          /\ Len(Tail(socket)) = Len(socket) - 1 /\ Len(socket) \in Nat \ {0}
          /\ \A k \in 1..Len(Tail(socket)) : Tail(socket)[k] = socket[k + 1]
      BY <1>2, <2>2, TailFacts
    <3>3. Early(Head(socket))
      BY <3>2 DEF DiscardInv, WaitInv
    <3>4. calls' \in Seq(Call) /\ pc' = "parse" /\ CallsInv'
      BY <1>2, <3>1, <3>2, <3>3, CallMade
    <3>5. \A k \in 1..Len(Tail(socket)) : k + 1 \in 1..Len(socket)
      BY <3>2
    <3>6. \A i \in 1..Len(Tail(socket)) : Early(Tail(socket)[i])
      BY <3>2, <3>5 DEF DiscardInv, WaitInv
    <3>7. QED
      BY <3>1, <3>2, <3>4, <3>6
  <2>3. QED
    BY <2>1, <2>2
<1>6. TypeInv'
  BY <1>1, <1>5 DEF DiscardInv, TypeInv
<1>7. WaitInv' /\ PlayInv'
  BY <1>1, <1>4, <1>5 DEF DiscardInv, WaitInv, PlayInv
<1>8. QED
  BY <1>5, <1>6, <1>7 DEF DiscardInv

(* Events and a deferred switch. *)
LEMMA EventSteps ==
  DiscardInv /\ (ProcessEventQueue \/ DeferredSwitch) => DiscardInv'
<1> SUFFICES ASSUME DiscardInv, ProcessEventQueue \/ DeferredSwitch
             PROVE  DiscardInv'
  OBVIOUS
<1>1. /\ UNCHANGED <<sending, m_MIDIRxBuffer, socket, parser, arrived, calls>>
      /\ pc \in {"events", "deferred"}
      /\ pc' \in {"deferred", "yield", "failing", "loading"}
  BY DEF ProcessEventQueue, DeferredSwitch, SwitchSoundFont, senders, parsing
<1>2. calls = <<>>
  BY <1>1 DEF DiscardInv, CallsInv
<1>3. ~Busy
  BY <1>1, <1>2 DEF Busy
<1>4. TypeInv' /\ PlayInv'
  BY <1>1 DEF DiscardInv, TypeInv, PlayInv
<1>5. CallsInv'
  BY <1>1, <1>2 DEF DiscardInv, CallsInv
<1>6. WaitInv'
  BY <1>1, <1>3 DEF DiscardInv, WaitInv
<1>7. QED
  BY <1>4, <1>5, <1>6 DEF DiscardInv

(* A switch that fails, or that has purged all there was.  When it ends    *)
(* nothing is left that came while it lasted.                              *)
LEMMA SwitchEnds ==
  DiscardInv /\ (SwitchFails \/ PurgeEnds) => DiscardInv'
<1> SUFFICES ASSUME DiscardInv, SwitchFails \/ PurgeEnds PROVE DiscardInv'
  OBVIOUS
<1>1. /\ UNCHANGED <<sending, m_MIDIRxBuffer, socket, arrived, calls>>
      /\ SwitchReturns
      /\ pc = "failing" \/ (pc = "purge" /\ m_MIDIRxBuffer = <<>>)
  BY DEF SwitchFails, PurgeEnds, senders
<1>2. \/ calls = <<>> /\ pc' = "yield" /\ parser' = parser
      \/ calls # <<>> /\ pc' = "parse" /\ parser' = P!ResetState(parser, TRUE)
  BY <1>1 DEF SwitchReturns
<1>3. Sound(parser)
  BY DEF DiscardInv, TypeInv
<1>4. /\ Sound(P!ResetState(parser, TRUE))
      /\ P!ResetState(parser, TRUE).calls = parser.calls
  BY <1>3, ResetFacts
<1>5. Sound(parser') /\ parser'.calls = parser.calls
  BY <1>2, <1>3, <1>4
<1>6. TypeInv'
  BY <1>1, <1>2, <1>5 DEF DiscardInv, TypeInv
<1>7. PlayInv'
  BY <1>1, <1>5 DEF DiscardInv, PlayInv
<1>8. CallsInv'
  BY <1>1, <1>2 DEF DiscardInv, CallsInv
<1>9. ~Busy' => Early(m_MIDIRxBuffer)
  <2>1. CASE m_MIDIRxBuffer = <<>>
    BY <2>1 DEF Early
  <2>2. CASE pc = "failing"
    <3>1. Busy' <=> Busy
      BY <1>1, <1>2, <2>2 DEF Busy
    <3>2. QED
      BY <3>1 DEF DiscardInv, WaitInv
  <2>3. QED
    BY <1>1, <2>1, <2>2
<1>10. WaitInv'
  BY <1>1, <1>9 DEF DiscardInv, WaitInv
<1>11. QED
  BY <1>6, <1>7, <1>8, <1>10 DEF DiscardInv

(* The purge begins with whatever the queue holds. *)
LEMMA SwitchSucceedsStep == DiscardInv /\ SwitchSucceeds => DiscardInv'
<1> SUFFICES ASSUME DiscardInv, SwitchSucceeds PROVE DiscardInv'
  OBVIOUS
<1>1. /\ UNCHANGED <<sending, m_MIDIRxBuffer, socket, parser, arrived, calls>>
      /\ pc = "loading" /\ pc' = "purge"
  BY DEF SwitchSucceeds, senders, parsing
<1>2. Busy'
  BY <1>1 DEF Busy
<1>3. QED
  BY <1>1, <1>2 DEF DiscardInv, TypeInv, CallsInv, WaitInv, PlayInv

(* The purge parses without the note-ons. *)
LEMMA PurgeTurnStep == DiscardInv /\ PurgeTurn => DiscardInv'
<1> SUFFICES ASSUME DiscardInv, PurgeTurn PROVE DiscardInv'
  OBVIOUS
<1>1. /\ UNCHANGED <<sending, socket, parser, arrived>>
      /\ ParseMIDIBytes(m_MIDIRxBuffer, TRUE, "purge") /\ m_MIDIRxBuffer' = <<>>
  BY DEF PurgeTurn, senders
<1>2. m_MIDIRxBuffer \in Received
  BY DEF DiscardInv, TypeInv
<1>3. calls' \in Seq(Call) /\ pc' = "parse" /\ CallsInv'
  BY <1>1, <1>2, CallMade
<1>4. TypeInv'
  BY <1>1, <1>3, CapacityAssumption DEF DiscardInv, TypeInv, Received
<1>5. Early(<<>>)
  BY DEF Early
<1>6. WaitInv' /\ PlayInv'
  BY <1>1, <1>5 DEF DiscardInv, WaitInv, PlayInv
<1>7. QED
  BY <1>3, <1>4, <1>6 DEF DiscardInv

(* The innermost call is over. *)
LEMMA ParseReturnsStep == DiscardInv /\ ParseReturns => DiscardInv'
<1> SUFFICES ASSUME DiscardInv, ParseReturns PROVE DiscardInv'
  OBVIOUS
<1>1. /\ UNCHANGED <<sending, m_MIDIRxBuffer, socket, parser, arrived>>
      /\ pc = "parse" /\ pc' = Head(calls).then /\ calls' = Tail(calls)
  BY DEF ParseReturns, senders, parsing
<1>2. calls \in Seq(Call) /\ calls # <<>>
  BY <1>1 DEF DiscardInv, TypeInv, CallsInv
<1> DEFINE c == calls[1]
<1>3. /\ c \in Call /\ Head(calls) = c
      /\ Tail(calls) \in Seq(Call)
      /\ Len(Tail(calls)) = Len(calls) - 1 /\ Len(calls) \in Nat \ {0}
      /\ \A k \in 1..Len(Tail(calls)) : Tail(calls)[k] = calls[k + 1]
  BY <1>2, TailFacts
<1>4. /\ c.bIgnoreNoteOns <=> c.then = "purge"
      /\ ~c.bIgnoreNoteOns => Len(calls) = 1
      /\ c.then \in {"events", "midi", "purge"}
  <2>1. 1 \in 1..Len(calls)
    BY <1>3
  <2>2. /\ c.bIgnoreNoteOns <=> c.then = "purge"
        /\ ~c.bIgnoreNoteOns => 1 = Len(calls)
    BY <2>1 DEF DiscardInv, CallsInv
  <2>3. c.then \in {"events", "midi", "purge"}
    BY <1>3 DEF Call
  <2>4. QED
    BY <2>2, <2>3
<1> HIDE DEF c
<1>5. /\ calls' \in Seq(Call) /\ Len(calls') = Len(calls) - 1
      /\ \A k \in 1..Len(calls') : calls'[k] = calls[k + 1] /\ k + 1 \in 1..Len(calls)
  BY <1>1, <1>3
<1>6. pc' = c.then
  BY <1>1, <1>3
<1>7. TypeInv'
  BY <1>1, <1>4, <1>5, <1>6 DEF DiscardInv, TypeInv
<1>8. PlayInv'
  BY <1>1 DEF DiscardInv, PlayInv
<1>9. CallsInv'
  <2>1. pc' # "purge" => calls' = <<>>
    BY <1>3, <1>4, <1>5, <1>6
  <2>2. pc' # "parse"
    BY <1>4, <1>6
  <2>3. ASSUME NEW k \in 1..Len(calls')
        PROVE  /\ calls'[k].bIgnoreNoteOns <=> calls'[k].then = "purge"
               /\ ~calls'[k].bIgnoreNoteOns => k = Len(calls') /\ Early(calls'[k].rest)
    <3>1. calls'[k] = calls[k + 1] /\ k + 1 \in 1..Len(calls)
      BY <1>5
    <3>2. /\ calls[k + 1].bIgnoreNoteOns <=> calls[k + 1].then = "purge"
          /\ ~calls[k + 1].bIgnoreNoteOns => k + 1 = Len(calls) /\ Early(calls[k + 1].rest)
      BY <3>1 DEF DiscardInv, CallsInv
    <3>3. k + 1 = Len(calls) => k = Len(calls')
      <4>1. Len(calls') = Len(calls) - 1
        BY <1>5
      <4>2. Len(calls) \in Nat /\ k \in Int
        BY <1>3, <4>1
      <4>3. QED
        BY <4>1, <4>2
    <3>4. QED
      BY <3>1, <3>2, <3>3
  <2>4. QED
    BY <2>1, <2>2, <2>3 DEF CallsInv
<1>10. ~Busy' => ~Busy
  <2>1. CASE c.then = "purge"
    BY <1>6, <2>1 DEF Busy
  <2>2. CASE c.then # "purge"
    <3>1. \A k \in 1..Len(calls) : calls[k] = c
      BY <1>4, <2>2 DEF c
    <3>2. QED
      BY <1>1, <1>4, <2>2, <3>1 DEF Busy
  <2>3. QED
    BY <2>1, <2>2
<1>11. WaitInv'
  BY <1>1, <1>10 DEF DiscardInv, WaitInv
<1>12. QED
  BY <1>7, <1>8, <1>9, <1>11 DEF DiscardInv

(* A byte is parsed.  If it came while a SoundFont was being loaded and in *)
(* the queue, it is a purge that parses it.                                *)
LEMMA ParseByteStep == DiscardInv /\ ParseByte => DiscardInv'
<1> SUFFICES ASSUME DiscardInv, ParseByte PROVE DiscardInv'
  OBVIOUS
<1> DEFINE call == Head(calls)
           x == Head(call.rest)
           p == [parser EXCEPT !.calls = <<>>]
           q == P!Store(p, x.byte)
           r == P!ParseByte(p, x.byte, call.bIgnoreNoteOns)
           asks == EndsSysEx(x.byte) /\ AsksForSoundFont(P!Message(q))
           next == [call EXCEPT !.rest = Tail(@)]
<1>1. /\ UNCHANGED <<sending, m_MIDIRxBuffer, socket>>
      /\ pc = "parse" /\ call.rest # <<>>
      /\ calls' = <<next>> \o Tail(calls)
      /\ arrived' = {x.when} \cup
                      (IF P!IsStatus(x.byte) \/ parser.m_State = "StatusByte"
                       THEN {} ELSE arrived)
      /\ \/ /\ asks
            /\ SwitchSoundFont(P!Message(q)[4])
            /\ parser' = P!Call(q, "sysex", P!Message(q))
         \/ parser' = r /\ UNCHANGED pc
  BY DEF ParseByte, senders
<1>2. calls \in Seq(Call) /\ calls # <<>> /\ Sound(parser)
  BY <1>1 DEF DiscardInv, TypeInv, CallsInv
<1>3. /\ call \in Call /\ call = calls[1]
      /\ Tail(calls) \in Seq(Call)
      /\ Len(Tail(calls)) = Len(calls) - 1 /\ Len(calls) \in Nat \ {0}
      /\ \A k \in 1..Len(Tail(calls)) : Tail(calls)[k] = calls[k + 1]
  BY <1>2, TailFacts
<1>4. /\ call.rest \in Seq(Bytes) /\ call.bIgnoreNoteOns \in BOOLEAN
      /\ call.then \in {"events", "midi", "purge"}
  BY <1>3 DEF Call, Received, Bytes
<1>5. /\ x \in Bytes /\ x = call.rest[1] /\ Tail(call.rest) \in Seq(Bytes)
      /\ Len(call.rest) \in Nat \ {0}
  BY <1>1, <1>4, TailFacts
<1>6. x.byte \in 0..255 /\ x.when \in When
  BY <1>5 DEF Bytes
<1>7. /\ next \in Call /\ next.rest = Tail(call.rest)
      /\ next.bIgnoreNoteOns = call.bIgnoreNoteOns /\ next.then = call.then
  BY <1>3, <1>5 DEF Call, Received, Bytes
<1>8. /\ call.bIgnoreNoteOns <=> call.then = "purge"
      /\ ~call.bIgnoreNoteOns => Len(calls) = 1 /\ Early(call.rest)
  <2>1. 1 \in 1..Len(calls)
    BY <1>3
  <2>2. /\ calls[1].bIgnoreNoteOns <=> calls[1].then = "purge"
        /\ ~calls[1].bIgnoreNoteOns => 1 = Len(calls) /\ Early(calls[1].rest)
    BY <2>1 DEF DiscardInv, CallsInv
  <2>3. QED
    BY <1>3, <2>2
<1>9. ~call.bIgnoreNoteOns => x.when # "busy" /\ Early(next.rest)
  <2>1. ASSUME ~call.bIgnoreNoteOns PROVE x.when # "busy"
    BY <1>5, <1>8, <2>1 DEF Early
  <2>2. ASSUME ~call.bIgnoreNoteOns PROVE Early(Tail(call.rest))
    BY <1>1, <1>4, <1>8, <2>2, EarlyTail DEF Received, Bytes
  <2>3. QED
    BY <1>7, <2>1, <2>2
<1> HIDE DEF next
<1>10. /\ calls' \in Seq(Call) /\ Len(calls') = Len(calls)
       /\ calls'[1] = next /\ calls' # <<>>
       /\ \A k \in 1..Len(Tail(calls)) : calls'[k + 1] = Tail(calls)[k]
  BY <1>1, <1>3, <1>7, ConsFacts
<1>11. \A k \in 1..Len(calls) : k # 1 => calls'[k] = calls[k]
  <2>1. ASSUME NEW k \in 1..Len(calls), k # 1 PROVE calls'[k] = calls[k]
    <3>1. k - 1 \in 1..Len(Tail(calls)) /\ (k - 1) + 1 = k
      BY <1>3, <2>1
    <3>2. QED
      BY <1>3, <1>10, <3>1
  <2>2. QED
    BY <2>1
<1>12. Sound(p) /\ p.calls = <<>>
  BY <1>2, CallsForgotten
<1>13. /\ Sound(parser')
       /\ call.bIgnoreNoteOns => NoNoteOns(parser'.calls)
  <2> HIDE DEF p, x, call
  <2>1. Clean(r, call.bIgnoreNoteOns)
    BY <1>4, <1>6, <1>12, IgnoringPlaysNoNoteOns
  <2>2. Quiet(q)
    BY <1>6, <1>12, StoreFacts DEF Quiet, Complaint
  <2>3. Clean(P!Call(q, "sysex", P!Message(q)), call.bIgnoreNoteOns)
    <3> HIDE DEF q
    <3>1. QED
      BY <1>4, <2>2, ReportIsClean
  <2>4. Clean(parser', call.bIgnoreNoteOns)
    BY <1>1, <2>1, <2>3
  <2>5. QED
    BY <2>4 DEF Clean
<1> HIDE DEF p, q, r, asks
<1>14. pc' \in {"parse", "failing", "loading"}
  BY <1>1 DEF SwitchSoundFont
<1> HIDE DEF x, call
<1>15. TypeInv'
  BY <1>1, <1>10, <1>13, <1>14 DEF DiscardInv, TypeInv
<1>16. PlayInv'
  <2>1. arrived' = {"busy"} => x.when = "busy"
    BY <1>1
  <2>2. QED
    BY <1>9, <1>13, <2>1 DEF PlayInv
<1>17. CallsInv'
  <2>1. ASSUME NEW k \in 1..Len(calls')
        PROVE  /\ calls'[k].bIgnoreNoteOns <=> calls'[k].then = "purge"
               /\ ~calls'[k].bIgnoreNoteOns => k = Len(calls') /\ Early(calls'[k].rest)
    <3>1. CASE k = 1
      BY <1>7, <1>8, <1>9, <1>10, <3>1
    <3>2. CASE k # 1
      BY <1>10, <1>11, <3>2 DEF DiscardInv, CallsInv
    <3>3. QED
      BY <3>1, <3>2
  <2>2. QED
    BY <1>10, <1>14, <2>1 DEF CallsInv
<1>18. ~Busy' => ~Busy
  <2>1. \A k \in 1..Len(calls) : calls'[k].bIgnoreNoteOns = calls[k].bIgnoreNoteOns
    BY <1>3, <1>7, <1>10, <1>11
  <2>2. QED
    BY <1>1, <1>10, <1>14, <2>1 DEF Busy
<1>19. WaitInv'
  BY <1>1, <1>18 DEF DiscardInv, WaitInv
<1>20. QED
  BY <1>15, <1>16, <1>17, <1>19 DEF DiscardInv

(* Nothing happens. *)
LEMMA InputStutters == DiscardInv /\ UNCHANGED vars => DiscardInv'
<1> SUFFICES ASSUME DiscardInv, UNCHANGED vars PROVE DiscardInv'
  OBVIOUS
<1>1. UNCHANGED <<sending, m_MIDIRxBuffer, socket, parser, arrived, calls, pc>>
  BY DEF vars, senders, parsing
<1>2. Busy' = Busy
  BY <1>1 DEF Busy
<1>3. QED
  BY <1>1, <1>2 DEF DiscardInv, TypeInv, CallsInv, WaitInv, PlayInv

(* However switches nest and whatever arrives meanwhile, bytes that came   *)
(* during a load are parsed by purges only, and those play no note-on.     *)
THEOREM PurgesInvariant == Spec => []DiscardInv
<1>1. DiscardInv /\ [Next]_vars => DiscardInv'
  BY UpdateStep, YieldStep, EventSteps, SwitchEnds, SwitchSucceedsStep,
     PurgeTurnStep, ParseByteStep, ParseReturnsStep, ReceiveStep, DatagramStep,
     InputStutters
  DEF Next, MainTask
<1>2. QED
  BY <1>1, InputStarts, PTL DEF Spec

(* A note-on that came in whole through the queue while a SoundFont was    *)
(* being loaded is never played.                                           *)
THEOREM NoLateNotes == Spec => []LateNotesDiscarded
<1>1. PlayInv => LateNotesDiscarded
  BY DEF PlayInv, LateNotesDiscarded, Reported, NoNoteOns
<1>2. DiscardInv => LateNotesDiscarded
  BY <1>1 DEF DiscardInv
<1>3. QED
  BY <1>2, PurgesInvariant, PTL

----------------------------------------------------------------------------
(* What the parser makes of a sender's messages. *)

(* The first j bytes of m, and nothing else, are in the buffer. *)
Holds(p, m, j) ==
  p.m_nMessageLength = j /\ \A i \in 1..j : p.m_MessageBuffer[i - 1] = m[i]

(* The parser is between two messages, or in m after its first j bytes.    *)
Between(p) ==
  \/ p.m_State = "StatusByte" /\ p.m_nMessageLength = 0
  \/ p.m_State = "SysExByte"
Within(p, m, j) ==
  /\ p.m_State = (IF m[1] = 240 THEN "SysExByte" ELSE "DataByte")
  /\ Holds(p, m, j)

(* The lengths of messages, and what they begin with. *)
LEMMA MessageFacts ==
  ASSUME NEW m, IsMessage(m)
  PROVE  /\ m \in Seq(0..255) /\ Len(m) \in Nat \ {0} /\ Len(m) <= SysExBufferSize
         /\ \A i \in 1..Len(m) : m[i] \in 0..255
         /\ Len(m) > 1 => IsShort(m) \/ IsSysEx(m)
         /\ IsShort(m) => Len(m) \in {2, 3} /\ m[1] \in 128..243 /\ m[1] # 240
         /\ IsSysEx(m) => Len(m) > 1 /\ m[1] = 240
<1>1. m \in Seq(0..255) /\ Len(m) \in Nat \ {0} /\ (IsShort(m) \/ IsSysEx(m) \/ IsRealTime(m))
  BY DEF IsMessage
<1>2. \A i \in 1..Len(m) : m[i] \in 0..255
  BY <1>1, ElementOfSeq
<1>3. SysExBufferSize \in Nat /\ SysExBufferSize >= 3
  BY BufferAssumption
<1>4. m[1] \in 0..255
  BY <1>1, <1>2
<1>5. IsShort(m) => Len(m) \in {2, 3} /\ m[1] \in 128..243 /\ m[1] # 240
  <2>1. IsShort(m) => Len(m) \in {2, 3}
    BY DEF IsShort
  <2>2. IsShort(m) => m[1] \in 128..239 \cup 241..243
    BY DEF IsShort
  <2>3. QED
    BY <1>4, <2>1, <2>2
<1>6. IsSysEx(m) => Len(m) \in 2..SysExBufferSize /\ m[1] = 240
  BY DEF IsSysEx
<1>7. IsRealTime(m) => Len(m) = 1
  BY DEF IsRealTime
<1>8. QED
  BY <1>1, <1>2, <1>3, <1>5, <1>6, <1>7

(* A byte is stored behind those there are. *)
LEMMA HoldsMore ==
  ASSUME NEW p, Sound(p), NEW m, IsMessage(m), NEW j \in 1..(Len(m) - 1),
         Holds(p, m, j)
  PROVE  Holds(P!Store(p, m[j + 1]), m, j + 1)
<1> DEFINE b == m[j + 1]
           f == p.m_MessageBuffer
           q == P!Store(p, b)
<1>1. /\ m \in Seq(0..255) /\ Len(m) \in Nat /\ Len(m) <= SysExBufferSize
      /\ j \in Nat /\ SysExBufferSize \in Nat
  <2>1. m \in Seq(0..255) /\ Len(m) \in Nat /\ Len(m) <= SysExBufferSize
    BY MessageFacts
  <2>2. QED
    BY <2>1, BufferAssumption
<1>2. j + 1 \in 1..Len(m) /\ j \in P!Slots
  BY <1>1 DEF P!Slots
<1>3. b \in 0..255
  BY <1>1, <1>2, ElementOfSeq
<1> HIDE DEF b
<1>4. q.m_MessageBuffer = [f EXCEPT ![j] = b] /\ q.m_nMessageLength = j + 1
  BY <1>3, StoreFacts DEF Holds
<1>5. f \in [P!Slots -> 0..255]
  BY DEF Sound
<1>6. \A i \in 1..(j + 1) : i \in 1..j \/ i = j + 1
  BY <1>1
<1>7. \A i \in 1..j : i - 1 # j /\ i - 1 \in P!Slots
  BY <1>1, <1>2 DEF P!Slots
<1>8. (j + 1) - 1 = j
  BY <1>1
<1> HIDE DEF q, f
<1>9. ASSUME NEW i \in 1..(j + 1) PROVE q.m_MessageBuffer[i - 1] = m[i]
  <2>1. CASE i \in 1..j
    <3>1. [f EXCEPT ![j] = b][i - 1] = f[i - 1]
      BY <1>2, <1>5, <1>7, <2>1
    <3>2. f[i - 1] = m[i]
      BY <2>1 DEF Holds, f
    <3>3. QED
      BY <1>4, <3>1, <3>2
  <2>2. CASE i = j + 1
    BY <1>2, <1>4, <1>5, <1>8, <2>2 DEF b
  <2>3. QED
    BY <1>6, <2>1, <2>2
<1>10. QED
  BY <1>4, <1>9 DEF Holds, q, b

(* A message that is held whole is the message. *)
LEMMA HeldWhole ==
  ASSUME NEW p, NEW m \in Seq(0..255), Holds(p, m, Len(m))
  PROVE  P!Message(p) = m
<1> DEFINE n == Len(m)
           f == p.m_MessageBuffer
<1>1. P!Message(p) = [k \in 1..n |-> f[k - 1]]
  BY DEF P!Message, Holds
<1>2. \A k \in 1..n : f[k - 1] = m[k]
  BY DEF Holds
<1> HIDE DEF f
<1>3. m = [k \in 1..n |-> m[k]]
  OBVIOUS
<1>4. [k \in 1..n |-> f[k - 1]] = [k \in 1..n |-> m[k]]
  BY <1>2
<1>5. QED
  BY <1>1, <1>3, <1>4

(* A message has begun with b, and nothing else was reported. *)
Begun(p, b, made) ==
  /\ Sound(p) /\ p.calls = made
  /\ p.m_State = (IF b = 240 THEN "SysExByte" ELSE "DataByte")
  /\ p.m_nMessageLength = 1 /\ p.m_MessageBuffer[0] = b

(* A status byte begins a message. *)
LEMMA StatusBegins ==
  ASSUME NEW p, Sound(p), p.m_nMessageLength = 0, NEW b \in 128..243
  PROVE  Begun(P!ParseStatus(p, b), b, p.calls)
<1> DEFINE s == IF b = 240 THEN "SysExByte" ELSE "DataByte"
           r == [p EXCEPT !.m_State = s]
           q == P!ParseStatus(p, b)
<1>1. q = P!Store(r, b)
  BY DEF P!ParseStatus
<1>2. s \in {"StatusByte", "DataByte", "SysExByte"} /\ b \in 0..255
  OBVIOUS
<1> HIDE DEF s, q
<1>3. /\ Sound(r) /\ r.m_State = s /\ r.calls = p.calls
      /\ r.m_nMessageLength = 0
  BY <1>2 DEF Sound
<1> HIDE DEF r
<1>4. /\ Sound(q) /\ q.m_State = s /\ q.calls = p.calls
      /\ q.m_MessageBuffer = [r.m_MessageBuffer EXCEPT ![0] = b]
      /\ q.m_nMessageLength = 1
  <2>1. /\ Sound(P!Store(r, b))
        /\ P!Store(r, b).m_State = r.m_State
        /\ P!Store(r, b).m_MessageBuffer = [r.m_MessageBuffer EXCEPT ![r.m_nMessageLength] = b]
        /\ P!Store(r, b).m_nMessageLength = r.m_nMessageLength + 1
        /\ P!Store(r, b).calls = r.calls
    BY <1>2, <1>3, StoreFacts
  <2>2. QED
    BY <1>1, <1>3, <2>1
<1>5. q.m_MessageBuffer[0] = b
  <2>1. 0 \in P!Slots
    BY BufferAssumption DEF P!Slots
  <2>2. r.m_MessageBuffer \in [P!Slots -> 0..255]
    BY <1>3 DEF Sound
  <2>3. QED
    BY <1>4, <2>1, <2>2
<1>6. QED
  BY <1>4, <1>5 DEF s, q, Begun

(* What a complaint is: an unexpected status. *)
Unexpected(made) ==
  made = <<>> \/ made = <<[kind |-> "unexpected", bytes |-> <<>>]>>

(* The first byte of a message of two bytes or more. *)
LEMMA MessageBegun ==
  ASSUME NEW p, Sound(p), p.calls = <<>>, Between(p), NEW ignore \in BOOLEAN,
         NEW m, IsMessage(m), Len(m) > 1
  PROVE  LET q == P!ParseByte(p, m[1], ignore)
         IN  Sound(q) /\ Within(q, m, 1) /\ Unexpected(q.calls)
<1> DEFINE b == m[1]
           q == P!ParseByte(p, b, ignore)
<1>1. b \in 128..243
  BY MessageFacts
<1> HIDE DEF b
<1>2. P!IsStatus(b) /\ b # 247 /\ b < 248 /\ ~(b >= 248)
  BY <1>1 DEF P!IsStatus
<1>3. \E made : Unexpected(made) /\ Begun(q, b, made)
  <2>1. CASE p.m_State = "StatusByte"
    <3>1. q = P!ParseStatus(p, b)
      BY <1>2, <2>1 DEF P!ParseByte, P!ParseStatusByte
    <3>2. p.m_nMessageLength = 0
      BY <2>1 DEF Between
    <3>3. Begun(P!ParseStatus(p, b), b, p.calls)
      BY <1>1, <3>2, StatusBegins
    <3>4. QED
      BY <3>1, <3>3 DEF Unexpected
  <2>2. CASE p.m_State = "SysExByte"
    <3> DEFINE c == P!Call(p, "unexpected", <<>>)
               r == P!ResetState(c, TRUE)
               made == <<[kind |-> "unexpected", bytes |-> <<>>]>>
    <3>1. q = P!Restart(p, "unexpected", b)
      BY <1>2, <2>2 DEF P!ParseByte, P!ParseSysExByte
    <3>2. P!Restart(p, "unexpected", b) = P!ParseStatus(r, b)
      BY <1>2 DEF P!Restart, P!ParseStatusByte
    <3>3. Sound(c) /\ c.calls = Append(p.calls, [kind |-> "unexpected", bytes |-> <<>>])
      BY CallFacts
    <3>4. c.calls = made
      BY <3>3
    <3>m. Unexpected(made)
      BY DEF Unexpected
    <3> HIDE DEF made, c
    <3>5. Sound(r) /\ r.m_nMessageLength = 0 /\ r.calls = made
      BY <3>3, <3>4, ResetFacts
    <3> HIDE DEF r
    <3>6. Begun(P!ParseStatus(r, b), b, r.calls)
      BY <1>1, <3>5, StatusBegins
    <3>7. QED
      BY <3>1, <3>2, <3>5, <3>6, <3>m
  <2>3. QED
    BY <2>1, <2>2 DEF Between
<1>4. PICK made : Unexpected(made) /\ Begun(q, b, made)
  BY <1>3
<1> HIDE DEF q
<1>5. Sound(q) /\ Unexpected(q.calls)
  BY <1>4 DEF Begun
<1>6. Within(q, m, 1)
  <2>1. \A i \in 1..1 : i = 1
    OBVIOUS
  <2>2. q.m_nMessageLength = 1 /\ q.m_MessageBuffer[1 - 1] = m[1]
    BY <1>4 DEF Begun, b
  <2>3. Holds(q, m, 1)
    BY <2>1, <2>2 DEF Holds
  <2>4. QED
    BY <1>4, <2>3 DEF Begun, Within, b
<1>7. QED
  BY <1>5, <1>6 DEF q, b

(* The bytes after the first are data, but for the end of a SysEx message. *)
LEMMA DataFacts ==
  ASSUME NEW m, IsMessage(m), NEW i \in 2..Len(m)
  PROVE  /\ IsShort(m) \/ IsSysEx(m)
         /\ m[i] \in 0..255
         /\ IsShort(m) => ~P!IsStatus(m[i])
         /\ IsSysEx(m) /\ i < Len(m) => ~P!IsStatus(m[i])
         /\ IsSysEx(m) /\ i = Len(m) => m[i] = 247
<1>1. Len(m) \in Nat /\ Len(m) > 1 /\ i \in 1..Len(m)
  BY MessageFacts
<1>2. IsShort(m) \/ IsSysEx(m)
  BY <1>1, MessageFacts
<1> DEFINE b == m[i]
<1>3. b \in 0..255
  BY <1>1, MessageFacts
<1>4. IsShort(m) => b < 128
  BY <1>1 DEF IsShort
<1>5. IsSysEx(m) /\ i < Len(m) => b < 128
  BY <1>1 DEF IsSysEx
<1>6. IsSysEx(m) /\ i = Len(m) => b = 247
  BY <1>1 DEF IsSysEx
<1> HIDE DEF b
<1>7. b < 128 => ~P!IsStatus(b)
  BY <1>3 DEF P!IsStatus
<1>8. QED
  BY <1>2, <1>3, <1>4, <1>5, <1>6, <1>7 DEF b

(* A data byte of a short message. *)
LEMMA ShortStored ==
  ASSUME NEW p, Sound(p), p.calls = <<>>, NEW ignore \in BOOLEAN,
         NEW m, IsMessage(m), IsShort(m), NEW j \in 1..(Len(m) - 1), Within(p, m, j)
  PROVE  LET s == P!Store(p, m[j + 1])
         IN  /\ P!ParseByte(p, m[j + 1], ignore) = P!CheckCompleteShortMessage(s, ignore)
             /\ Sound(s) /\ s.calls = <<>> /\ Within(s, m, j + 1)
             /\ s.m_MessageBuffer[0] = m[1]
             /\ P!Complete(s) <=> j + 1 = Len(m)
<1> DEFINE b == m[j + 1]
           s == P!Store(p, b)
<1>0. j + 1 \in 2..Len(m)
  BY MessageFacts
<1>1. b \in 0..255 /\ ~P!IsStatus(b)
  BY <1>0, DataFacts
<1>2. m[1] # 240 /\ Len(m) \in {2, 3}
  BY MessageFacts
<1>3. Holds(s, m, j + 1)
  BY HoldsMore DEF Within
<1> HIDE DEF b
<1>4. p.m_State = "DataByte"
  BY <1>2 DEF Within
<1>5. b < 248 /\ ~(b >= 248)
  BY <1>1 DEF P!IsStatus
<1>6. P!ParseByte(p, b, ignore) = P!ParseDataByte(p, b, ignore)
  BY <1>4, <1>5 DEF P!ParseByte
<1>7. P!ParseDataByte(p, b, ignore) = P!CheckCompleteShortMessage(s, ignore)
  BY <1>1 DEF P!ParseDataByte
<1>8. Sound(s) /\ s.calls = <<>> /\ s.m_State = p.m_State
  BY <1>1, StoreFacts
<1> HIDE DEF s
<1>9. s.m_MessageBuffer[0] = m[1] /\ s.m_nMessageLength = j + 1
  <2>1. 1 \in 1..(j + 1) /\ 1 - 1 = 0
    OBVIOUS
  <2>2. QED
    BY <1>3, <2>1 DEF Holds
<1>10. P!Complete(s) <=> j + 1 = Len(m)
  <2>1. Len(m) = IF P!TwoByteMessage(m[1]) THEN 2 ELSE 3
    BY DEF IsShort
  <2>2. P!Complete(s) <=> j + 1 = 3 \/ (j + 1 = 2 /\ P!TwoByteMessage(m[1]))
    BY <1>9 DEF P!Complete
  <2>3. j + 1 \in 2..Len(m)
    BY <1>2
  <2>4. QED
    BY <1>2, <2>1, <2>2, <2>3
<1>11. Within(s, m, j + 1)
  BY <1>2, <1>3, <1>4, <1>8 DEF Within
<1>12. QED
  BY <1>6, <1>7, <1>8, <1>9, <1>10, <1>11 DEF b, s

(* A byte of a SysEx message. *)
LEMMA SysExHeld ==
  ASSUME NEW p, Sound(p), p.calls = <<>>,
         NEW m, IsMessage(m), IsSysEx(m), NEW j \in 1..(Len(m) - 1), Within(p, m, j)
  PROVE  LET s == P!Store(p, m[j + 1])
         IN  Sound(s) /\ s.calls = <<>> /\ Within(s, m, j + 1)
<1> DEFINE b == m[j + 1]
           s == P!Store(p, b)
<1>0. j + 1 \in 2..Len(m)
  BY MessageFacts
<1>1. b \in 0..255
  BY <1>0, DataFacts
<1>2. m[1] = 240
  BY MessageFacts
<1>3. Holds(s, m, j + 1)
  BY HoldsMore DEF Within
<1> HIDE DEF b
<1>4. p.m_State = "SysExByte"
  BY <1>2 DEF Within
<1>5. Sound(s) /\ s.calls = <<>> /\ s.m_State = p.m_State
  BY <1>1, StoreFacts
<1>6. Within(s, m, j + 1)
  BY <1>2, <1>3, <1>4, <1>5 DEF Within
<1> HIDE DEF s
<1>7. QED
  BY <1>5, <1>6 DEF b, s

(* What is stored is reported, and the parser reset. *)
Reported247(s) == P!ResetState(P!Call(s, "sysex", P!Message(s)), TRUE)

(* Within a SysEx message a byte is stored; EOX has it reported. *)
LEMMA SysExStored ==
  ASSUME NEW p, Sound(p), p.calls = <<>>, NEW ignore \in BOOLEAN,
         NEW m, IsMessage(m), IsSysEx(m), NEW j \in 1..(Len(m) - 1), Within(p, m, j)
  PROVE  P!ParseByte(p, m[j + 1], ignore)
           = IF j + 1 < Len(m) THEN P!Store(p, m[j + 1])
             ELSE Reported247(P!Store(p, m[j + 1]))
<1> DEFINE b == m[j + 1]
           s == P!Store(p, b)
<1>0. j + 1 \in 2..Len(m)
  BY MessageFacts
<1>1. /\ b \in 0..255
      /\ j + 1 < Len(m) => ~P!IsStatus(b)
      /\ j + 1 = Len(m) => b = 247
  BY <1>0, DataFacts
<1>2. m[1] = 240 /\ Len(m) \in Nat /\ Len(m) <= SysExBufferSize /\ SysExBufferSize \in Nat
  BY MessageFacts, BufferAssumption
<1>3. ~P!Overflowing(p)
  BY <1>2 DEF P!Overflowing, Within, Holds
<1> HIDE DEF b
<1>4. p.m_State = "SysExByte"
  BY <1>2 DEF Within
<1>5. b < 248 /\ ~(b >= 248) /\ (j + 1 < Len(m) => b # 247)
  BY <1>1, <1>2 DEF P!IsStatus
<1>6. P!ParseByte(p, b, ignore) = P!ParseSysExByte(p, b)
  BY <1>4, <1>5 DEF P!ParseByte
<1>7. P!ParseSysExByte(p, b)
        = IF b = 247 THEN P!ResetState(P!Call(s, "sysex", P!Message(s)), TRUE) ELSE s
  <2>1. ~(P!IsStatus(b) /\ b # 247)
    BY <1>1, <1>2
  <2>2. QED
    BY <1>3, <2>1 DEF P!ParseSysExByte
<1> HIDE DEF s
<1>j. j + 1 < Len(m) \/ j + 1 = Len(m)
  BY <1>2
<1>8. P!ParseByte(p, b, ignore) = IF j + 1 < Len(m) THEN s ELSE Reported247(s)
  BY <1>1, <1>5, <1>6, <1>7, <1>j DEF Reported247
<1>9. QED
  BY <1>8 DEF b, s

(* A byte within a message is kept. *)
LEMMA MessageContinued ==
  ASSUME NEW p, Sound(p), p.calls = <<>>, NEW ignore \in BOOLEAN,
         NEW m, IsMessage(m), NEW j \in 1..(Len(m) - 1), Within(p, m, j),
         j + 1 < Len(m)
  PROVE  LET q == P!ParseByte(p, m[j + 1], ignore)
         IN  Sound(q) /\ Within(q, m, j + 1) /\ q.calls = <<>>
<1> DEFINE s == P!Store(p, m[j + 1])
           q == P!ParseByte(p, m[j + 1], ignore)
<1>1. CASE IsShort(m)
  <2>1. /\ q = P!CheckCompleteShortMessage(s, ignore)
        /\ Sound(s) /\ s.calls = <<>> /\ Within(s, m, j + 1)
        /\ ~P!Complete(s)
    BY <1>1, ShortStored
  <2> HIDE DEF s, q
  <2>2. q = s
    BY <2>1 DEF P!CheckCompleteShortMessage
  <2>3. QED
    BY <2>1, <2>2 DEF q
<1>2. CASE IsSysEx(m)
  <2>1. Sound(s) /\ s.calls = <<>> /\ Within(s, m, j + 1)
    BY <1>2, SysExHeld
  <2>q. q = IF j + 1 < Len(m) THEN s ELSE Reported247(s)
    BY <1>2, SysExStored
  <2>2. q = s
    BY <2>q
  <2>3. QED
    BY <2>1, <2>2
<1>3. QED
  BY <1>1, <1>2, DataFacts

(* The last byte of a message has it reported, or ignored if it is a       *)
(* note-on.                                                                *)
Told(made, m, ignore) ==
  \/ made = <<[kind |-> "short", bytes |-> m]>> /\ IsShort(m)
  \/ made = <<[kind |-> "sysex", bytes |-> m]>> /\ IsSysEx(m)
  \/ made = <<>> /\ ignore /\ IsShort(m) /\ NoteOn(m[1])

(* The last byte of a message reports it, and the parser is reset. *)
LEMMA MessageEnded ==
  ASSUME NEW p, Sound(p), p.calls = <<>>, NEW ignore \in BOOLEAN,
         NEW m, IsMessage(m), NEW j \in 1..(Len(m) - 1), Within(p, m, j),
         j + 1 = Len(m)
  PROVE  LET q == P!ParseByte(p, m[j + 1], ignore)
         IN  /\ Sound(q) /\ q.m_State = "StatusByte" /\ q.m_nMessageLength = 0
             /\ Told(q.calls, m, ignore)
<1> DEFINE s == P!Store(p, m[j + 1])
           q == P!ParseByte(p, m[j + 1], ignore)
           Done(x) == /\ Sound(x) /\ x.m_State = "StatusByte" /\ x.m_nMessageLength = 0
                      /\ Told(x.calls, m, ignore)
<1>1. m \in Seq(0..255)
  BY MessageFacts
<1>2. CASE IsShort(m)
  <2>1. /\ q = P!CheckCompleteShortMessage(s, ignore)
        /\ Sound(s) /\ s.calls = <<>> /\ Within(s, m, j + 1)
        /\ s.m_MessageBuffer[0] = m[1]
        /\ P!Complete(s)
    BY <1>2, ShortStored
  <2> HIDE DEF s, q
  <2>2. Holds(s, m, Len(m))
    BY <2>1 DEF Within
  <2>3. P!Message(s) = m
    BY <1>1, <2>2, HeldWhole
  <2> DEFINE t == s.m_MessageBuffer[0]
             dropped == ignore /\ t \in 144..159
             c == P!Call(s, "short", m)
             r == IF dropped THEN s ELSE c
             clear == t \in 241..247
  <2>4. q = P!ResetState(r, clear)
    BY <2>1, <2>3 DEF P!CheckCompleteShortMessage
  <2>5. Sound(c) /\ c.calls = Append(s.calls, [kind |-> "short", bytes |-> m])
    BY <2>1, CallFacts
  <2>6. c.calls = <<[kind |-> "short", bytes |-> m]>>
    BY <2>1, <2>5
  <2> HIDE DEF c
  <2>7. Sound(r) /\ Told(r.calls, m, ignore)
    BY <1>2, <2>1, <2>5, <2>6 DEF Told, NoteOn
  <2> HIDE DEF r, clear
  <2>8. clear \in BOOLEAN
    BY DEF clear
  <2>9. /\ Sound(P!ResetState(r, clear))
        /\ P!ResetState(r, clear).m_State = "StatusByte"
        /\ P!ResetState(r, clear).m_nMessageLength = 0
        /\ P!ResetState(r, clear).calls = r.calls
    BY <2>7, <2>8, ResetFacts
  <2>10. Done(q)
    BY <2>4, <2>7, <2>9
  <2>11. QED
    BY <2>10 DEF q
<1>3. CASE IsSysEx(m)
  <2> DEFINE c == P!Call(s, "sysex", m)
  <2>1. Sound(s) /\ s.calls = <<>> /\ Within(s, m, j + 1)
    BY <1>3, SysExHeld
  <2>q. q = IF j + 1 < Len(m) THEN s ELSE Reported247(s)
    BY <1>3, SysExStored
  <2>l. ~(j + 1 < Len(m))
    BY <1>1
  <2>e. q = P!ResetState(P!Call(s, "sysex", P!Message(s)), TRUE)
    BY <2>q, <2>l DEF Reported247
  <2> HIDE DEF s, q
  <2>2. Holds(s, m, Len(m))
    BY <2>1 DEF Within
  <2>3. P!Message(s) = m
    BY <1>1, <2>2, HeldWhole
  <2>4. Sound(c) /\ c.calls = Append(s.calls, [kind |-> "sysex", bytes |-> m])
    BY <2>1, CallFacts
  <2>5. c.calls = <<[kind |-> "sysex", bytes |-> m]>>
    BY <2>1, <2>4
  <2>6. q = P!ResetState(c, TRUE)
    BY <2>e, <2>3
  <2> HIDE DEF c
  <2>7. Told(c.calls, m, ignore)
    BY <1>3, <2>5 DEF Told
  <2>8. /\ Sound(P!ResetState(c, TRUE))
        /\ P!ResetState(c, TRUE).m_State = "StatusByte"
        /\ P!ResetState(c, TRUE).m_nMessageLength = 0
        /\ P!ResetState(c, TRUE).calls = c.calls
    BY <2>4, ResetFacts
  <2>9. Done(q)
    BY <2>6, <2>7, <2>8
  <2>10. QED
    BY <2>9 DEF q
<1>4. QED
  BY <1>2, <1>3, DataFacts

(* A real-time message is reported at once, wherever it comes. *)
LEMMA RealTimeParsed ==
  ASSUME NEW p, Sound(p), p.calls = <<>>, NEW ignore \in BOOLEAN,
         NEW m, IsMessage(m), Len(m) = 1
  PROVE  LET q == P!ParseByte(p, m[1], ignore)
         IN  /\ m[1] >= 248 /\ Sound(q) /\ q.m_State = p.m_State
             /\ q.m_MessageBuffer = p.m_MessageBuffer
             /\ q.m_nMessageLength = p.m_nMessageLength
             /\ q.calls = <<[kind |-> "short", bytes |-> m]>>
<1> DEFINE b == m[1]
           c == P!Call(p, "short", <<b>>)
           q == P!ParseByte(p, b, ignore)
<1>1. IsRealTime(m) /\ m \in Seq(0..255)
  <2>1. IsShort(m) => Len(m) \in {2, 3}
    BY MessageFacts
  <2>2. IsSysEx(m) => Len(m) > 1
    BY MessageFacts
  <2>3. QED
    BY <2>1, <2>2 DEF IsMessage
<1>2. m = <<b>>
  BY <1>1
<1>3. b \in {248, 250, 251, 252, 254, 255}
  BY <1>1 DEF IsRealTime
<1> HIDE DEF b
<1>4. b >= 248 /\ ~(b < 248) /\ b \notin {249, 253}
  BY <1>3
<1>5. q = c
  BY <1>4 DEF P!ParseByte
<1>6. /\ Sound(c) /\ c.m_State = p.m_State
      /\ c.m_MessageBuffer = p.m_MessageBuffer
      /\ c.m_nMessageLength = p.m_nMessageLength
      /\ c.calls = Append(p.calls, [kind |-> "short", bytes |-> <<b>>])
  BY CallFacts
<1>7. c.calls = <<[kind |-> "short", bytes |-> m]>>
  BY <1>2, <1>6
<1> HIDE DEF c, q
<1>8. QED
  BY <1>4, <1>5, <1>6, <1>7 DEF b, q

----------------------------------------------------------------------------
(* What is reported, and how many note-offs that is. *)

SentBy(made) ==
  \A k \in 1..Len(made) :
    made[k].kind \in {"short", "sysex"} => made[k].bytes \in Sent

One(b) == IF NoteOff(b) THEN 1 ELSE 0
OffIn(p) ==
  IF p.m_State = "DataByte" /\ NoteOff(p.m_MessageBuffer[0]) THEN 1 ELSE 0

(* A note-off begun and not ended is the parser's, and one that is ended is*)
(* reported.                                                               *)
Balanced(p, b, q) ==
  Offs(q.calls) \in Nat /\ OffIn(p) + One(b) = Offs(q.calls) + OffIn(q)

(* Neither a note-on nor a SysEx message counts as a note-off. *)
LEMMA NoOffs ==
  ASSUME NEW b, NoteOn(b) \/ b = 240
  PROVE  One(b) = 0
  BY DEF One, NoteOn, NoteOff

(* Complaints are not messages, *)
LEMMA NothingReported ==
  ASSUME NEW made, Unexpected(made)
  PROVE  SentBy(made) /\ Offs(made) = 0
<1> DEFINE offs == {k \in 1..Len(made) :
                      made[k].kind = "short" /\ NoteOff(made[k].bytes[1])}
<1>1. offs = {} /\ SentBy(made)
  <2>1. CASE made = <<>>
    BY <2>1 DEF SentBy
  <2>2. CASE made # <<>>
    <3> DEFINE c == [kind |-> "unexpected", bytes |-> <<>>]
    <3>1. made = <<c>> /\ c.kind = "unexpected"
      BY <2>2 DEF Unexpected
    <3> HIDE DEF c
    <3>2. Len(made) = 1 /\ made[1].kind = "unexpected"
      BY <3>1
    <3>3. \A k \in 1..Len(made) : made[k].kind = "unexpected"
      BY <3>2
    <3>4. QED
      BY <3>3 DEF SentBy
  <2>3. QED
    BY <2>1, <2>2
<1>2. QED
  BY <1>1, FS_EmptySet DEF Offs

(* and one message counts for its own status byte. *)
LEMMA OneReported ==
  ASSUME NEW m \in Sent, NEW kind \in {"short", "sysex"}
  PROVE  LET made == <<[kind |-> kind, bytes |-> m]>>
         IN  SentBy(made) /\ Offs(made) = IF kind = "short" THEN One(m[1]) ELSE 0
<1> DEFINE c == [kind |-> kind, bytes |-> m]
           made == <<c>>
           offs == {k \in 1..Len(made) :
                      made[k].kind = "short" /\ NoteOff(made[k].bytes[1])}
<1>1. c.kind = kind /\ c.bytes = m
  OBVIOUS
<1> HIDE DEF c
<1>2. Len(made) = 1 /\ made[1] = c
  OBVIOUS
<1>3. \A k : k \in 1..Len(made) <=> k = 1
  BY <1>2
<1>4. SentBy(made)
  BY <1>1, <1>2, <1>3 DEF SentBy
<1>5. offs = IF kind = "short" /\ NoteOff(m[1]) THEN {1} ELSE {}
  BY <1>1, <1>2, <1>3
<1>6. Cardinality({1}) = 1 /\ Cardinality({}) = 0
  BY FS_EmptySet, FS_Singleton
<1>7. Offs(made) = Cardinality(offs)
  BY DEF Offs
<1> HIDE DEF made, offs
<1>8. Offs(made) = IF kind = "short" THEN One(m[1]) ELSE 0
  BY <1>5, <1>6, <1>7 DEF One
<1>9. QED
  BY <1>4, <1>8 DEF made, c

----------------------------------------------------------------------------
(* Streams of whole messages. *)

(* The smallest set of sequences that has the empty one and, with every    *)
(* sequence, the same with a message before it.                            *)
Closed(W) == <<>> \in W /\ \A m \in Sent, u \in W : m \o u \in W
Whole == {u \in Seq(0..255) : \A W \in SUBSET Seq(0..255) : Closed(W) => u \in W}

(* Whatever is sent is a message. *)
LEMMA SentFacts ==
  ASSUME NEW m \in Sent
  PROVE  IsMessage(m)
  BY MessageAssumption, DatagramAssumption DEF Sent

(* Whole is closed: it has the empty stream ... *)
LEMMA WholeEmpty == <<>> \in Whole
  BY DEF Whole, Closed

(* ... and any message put in front of one of its streams. *)
LEMMA WholeBefore ==
  ASSUME NEW m \in Sent, NEW u \in Whole
  PROVE  m \o u \in Whole
<1>1. m \in Seq(0..255) /\ u \in Seq(0..255)
  BY SentFacts DEF IsMessage, Whole
<1>2. m \o u \in Seq(0..255)
  BY <1>1, JoinFacts
<1>3. ASSUME NEW W \in SUBSET Seq(0..255), Closed(W) PROVE m \o u \in W
  <2>1. u \in W
    BY <1>3 DEF Whole
  <2>2. QED
    BY <1>3, <2>1 DEF Closed
<1>4. QED
  BY <1>2, <1>3 DEF Whole

(* A stream begins with a message. *)
LEMMA WholeBegins ==
  ASSUME NEW u \in Whole, u # <<>>
  PROVE  \E m \in Sent, v \in Whole : u = m \o v
<1> DEFINE W == {<<>>} \cup {x \in Seq(0..255) : \E m \in Sent, v \in Whole : x = m \o v}
<1>0. <<>> \in Seq(0..255)
  OBVIOUS
<1>1. W \in SUBSET Seq(0..255)
  BY <1>0
<1>2. \A x \in W : x \in Whole
  BY WholeEmpty, WholeBefore
<1>3. ASSUME NEW m \in Sent, NEW x \in W PROVE m \o x \in W
  <2>1. x \in Whole
    BY <1>2
  <2>2. m \in Seq(0..255) /\ x \in Seq(0..255)
    BY <2>1, SentFacts DEF IsMessage, Whole
  <2>3. m \o x \in Seq(0..255)
    BY <2>2, JoinFacts
  <2>4. QED
    BY <2>1, <2>3
<1>4. Closed(W)
  BY <1>3 DEF Closed
<1>5. u \in W
  BY <1>1, <1>4 DEF Whole
<1>6. QED
  BY <1>5

(* A message may be added at the end. *)
LEMMA WholeAfter ==
  ASSUME NEW u \in Whole, NEW m \in Sent
  PROVE  u \o m \in Whole
<1> DEFINE W == {x \in Seq(0..255) : x \o m \in Whole}
<1>1. W \in SUBSET Seq(0..255)
  OBVIOUS
<1>2. m \in Seq(0..255)
  BY SentFacts DEF IsMessage
<1>3. <<>> \in W
  <2>1. <<>> \o m = m /\ m \o <<>> = m
    BY <1>2
  <2>2. m \o <<>> \in Whole
    BY WholeEmpty, WholeBefore
  <2>3. QED
    BY <2>1, <2>2
<1>4. ASSUME NEW k \in Sent, NEW x \in W PROVE k \o x \in W
  <2>1. k \in Seq(0..255) /\ x \in Seq(0..255) /\ x \o m \in Whole
    BY SentFacts DEF IsMessage
  <2>2. (k \o x) \o m = k \o (x \o m)
    BY <1>2, <2>1, ConcatAssociative
  <2>3. k \o (x \o m) \in Whole
    BY <2>1, WholeBefore
  <2>4. k \o x \in Seq(0..255)
    BY <2>1, JoinFacts
  <2>5. QED
    BY <2>2, <2>3, <2>4
<1>5. Closed(W)
  BY <1>3, <1>4 DEF Closed
<1>6. u \in W
  BY <1>1, <1>5 DEF Whole
<1>7. QED
  BY <1>6

----------------------------------------------------------------------------
(* The parser follows the stream. *)

(* What follows the first j bytes of m. *)
Rest(m, j) == SubSeq(m, j + 1, Len(m))

(* After the first j bytes of m, u is to come: the others, and v.          *)
Ahead(u, m, j, v) == u = Rest(m, j) \o v

(* What is to come begins where the parser is, and is whole from the next  *)
(* message on.                                                             *)
Following(p, u) ==
  \/ Between(p) /\ u \in Whole
  \/ \E m \in Sent : \E j \in 1..(Len(m) - 1) : \E v \in Whole :
       Within(p, m, j) /\ Ahead(u, m, j, v)

(* What was put in front is the head. *)
LEMMA HeadTailCons ==
  ASSUME NEW S, NEW x \in S, NEW s \in Seq(S)
  PROVE  Head(<<x>> \o s) = x /\ Tail(<<x>> \o s) = s
<1>1. /\ <<x>> \o s \in Seq(S) /\ <<x>> \o s # <<>>
      /\ Len(<<x>> \o s) = Len(s) + 1 /\ Len(s) \in Nat
      /\ (<<x>> \o s)[1] = x
      /\ \A k \in 1..Len(s) : (<<x>> \o s)[k + 1] = s[k]
  BY ConsFacts
<1> DEFINE t == <<x>> \o s
<1> HIDE DEF t
<1>2. /\ Head(t) = t[1] /\ Tail(t) \in Seq(S) /\ Len(Tail(t)) = Len(t) - 1
      /\ \A k \in 1..Len(Tail(t)) : Tail(t)[k] = t[k + 1]
  BY <1>1, TailFacts DEF t
<1>3. Len(Tail(t)) = Len(s)
  BY <1>1, <1>2 DEF t
<1>4. \A k \in 1..Len(s) : t[k + 1] = s[k]
  BY <1>1 DEF t
<1>5. \A k \in 1..Len(Tail(t)) : Tail(t)[k] = s[k]
  BY <1>2, <1>3, <1>4
<1>6. Tail(t) = s
  BY <1>2, <1>3, <1>5, SeqEqual
<1>7. QED
  BY <1>1, <1>2, <1>6 DEF t

(* The next byte of what is left of a message is its next byte, *)
LEMMA RestFacts ==
  ASSUME NEW m \in Seq(0..255), NEW j \in 0..(Len(m) - 1), NEW v \in Seq(0..255)
  PROVE  /\ Head(Rest(m, j) \o v) = m[j + 1]
         /\ Tail(Rest(m, j) \o v) = Rest(m, j + 1) \o v
<1> DEFINE b == m[j + 1]
           r == Rest(m, j + 1)
<1>1. j + 1 \in 1..Len(m) /\ Len(m) \in (j + 1)..Len(m) /\ Len(m) \in Nat
  OBVIOUS
<1>2. Rest(m, j) = <<b>> \o r
  BY <1>1, SubSeqRecursiveFirst DEF Rest
<1>3. b \in 0..255
  BY <1>1, ElementOfSeq
<1>4. r \in Seq(0..255)
  <2>1. \A i \in (j + 1 + 1)..Len(m) : i \in 1..Len(m)
    BY <1>1
  <2>2. QED
    BY <1>1, <2>1, ElementOfSeq, SubSeqProperties DEF Rest
<1>5. <<b>> \in Seq(0..255)
  BY <1>3
<1> HIDE DEF b, r
<1>6. (<<b>> \o r) \o v = <<b>> \o (r \o v)
  BY <1>4, <1>5, ConcatAssociative
<1>7. r \o v \in Seq(0..255)
  BY <1>4, JoinFacts
<1>8. Head(<<b>> \o (r \o v)) = b /\ Tail(<<b>> \o (r \o v)) = r \o v
  BY <1>3, <1>7, HeadTailCons
<1>9. QED
  BY <1>2, <1>6, <1>8 DEF b, r

(* all of it is left at first, and nothing at its end. *)
LEMMA RestEnds ==
  ASSUME NEW m \in Seq(0..255), NEW v \in Seq(0..255)
  PROVE  Rest(m, 0) \o v = m \o v /\ Rest(m, Len(m)) \o v = v
<1>1. Rest(m, 0) = m
  BY SubSeqFull DEF Rest
<1>2. Rest(m, Len(m)) = <<>>
  BY DEF Rest
<1>3. QED
  BY <1>1, <1>2, ConcatEmptySeq

(* A byte on, the parser is a byte further in the same message. *)
LEMMA AheadFacts ==
  ASSUME NEW m \in Sent, NEW j \in 0..(Len(m) - 1), NEW v \in Whole,
         NEW u, Ahead(u, m, j, v)
  PROVE  Head(u) = m[j + 1] /\ Ahead(Tail(u), m, j + 1, v)
<1>1. m \in Seq(0..255) /\ v \in Seq(0..255)
  <2>1. IsMessage(m)
    BY SentFacts
  <2>2. QED
    BY <2>1, MessageFacts DEF Whole
<1>2. /\ Head(Rest(m, j) \o v) = m[j + 1]
      /\ Tail(Rest(m, j) \o v) = Rest(m, j + 1) \o v
  BY <1>1, RestFacts
<1>3. QED
  BY <1>2 DEF Ahead

(* Between messages, a message begins, *)
LEMMA AheadBegins ==
  ASSUME NEW u \in Whole, u # <<>>
  PROVE  \E m \in Sent, v \in Whole : Ahead(u, m, 0, v)
<1>1. PICK m \in Sent, v \in Whole : u = m \o v
  BY WholeBegins
<1>2. m \in Seq(0..255) /\ v \in Seq(0..255)
  BY SentFacts DEF IsMessage, Whole
<1>3. Ahead(u, m, 0, v)
  BY <1>1, <1>2, RestEnds DEF Ahead
<1>4. QED
  BY <1>3

(* and at its end other messages follow. *)
LEMMA AheadEnds ==
  ASSUME NEW m \in Sent, NEW v \in Whole, NEW u, Ahead(u, m, Len(m), v)
  PROVE  u = v
<1>1. m \in Seq(0..255) /\ v \in Seq(0..255)
  BY SentFacts DEF IsMessage, Whole
<1>2. QED
  BY <1>1, RestEnds DEF Ahead

(* No message begins with an EOX. *)
LEMMA FirstByte ==
  ASSUME NEW m \in Sent
  PROVE  m[1] # 247
<1>1. IsMessage(m)
  BY SentFacts
<1>2. IsShort(m) => m[1] # 247
  <2>1. IsShort(m) => m[1] \in 128..243
    BY <1>1, MessageFacts
  <2>2. QED
    BY <2>1
<1>3. IsSysEx(m) => m[1] # 247
  BY DEF IsSysEx
<1>4. IsRealTime(m) => m[1] # 247
  BY DEF IsRealTime
<1>5. QED
  BY <1>1, <1>2, <1>3, <1>4 DEF IsMessage

(* Nor does a stream. *)
LEMMA HeadFacts ==
  ASSUME NEW u \in Whole, u # <<>>
  PROVE  Head(u) # 247
<1>1. PICK m \in Sent, v \in Whole : Ahead(u, m, 0, v)
  BY AheadBegins
<1>2. 0 \in 0..(Len(m) - 1) /\ 0 + 1 = 1
  BY SentFacts, MessageFacts
<1>3. Head(u) = m[1]
  BY <1>1, <1>2, AheadFacts
<1>4. QED
  BY <1>3, FirstByte

(* What one byte does to the parser, when u is to come. *)
Follows(p, b, q, u) ==
  Sound(q) /\ Following(q, u) /\ SentBy(q.calls) /\ Balanced(p, b, q)

(* Who is within a message knows whether it is a note-off. *)
LEMMA WithinOff ==
  ASSUME NEW p, NEW m, IsMessage(m), NEW j \in 1..(Len(m) - 1), Within(p, m, j)
  PROVE  OffIn(p) = One(m[1])
<1>1. Len(m) \in Nat /\ Len(m) > 1 /\ (IsShort(m) \/ IsSysEx(m))
  BY MessageFacts
<1>2. 1 \in 1..j /\ 1 - 1 = 0
  BY <1>1
<1>3. p.m_MessageBuffer[0] = m[1]
  BY <1>2 DEF Within, Holds
<1>4. CASE IsShort(m)
  <2>1. m[1] # 240
    BY <1>4, MessageFacts
  <2>2. QED
    BY <1>3, <2>1 DEF Within, OffIn, One
<1>5. CASE IsSysEx(m)
  <2>1. m[1] = 240
    BY <1>5, MessageFacts
  <2>2. ~NoteOff(m[1])
    BY <2>1 DEF NoteOff
  <2>3. QED
    BY <2>1, <2>2 DEF Within, OffIn, One
<1>6. QED
  BY <1>1, <1>4, <1>5

(* A byte after the first is no note-off. *)
LEMMA DataIsNoOff ==
  ASSUME NEW m, IsMessage(m), NEW i \in 2..Len(m)
  PROVE  One(m[i]) = 0
<1>1. m[i] = 247 \/ (~P!IsStatus(m[i]) /\ m[i] \in 0..255)
  <2>1. Len(m) \in Nat
    BY MessageFacts
  <2>2. i < Len(m) \/ i = Len(m)
    BY <2>1
  <2>3. QED
    BY <2>2, DataFacts
<1>2. ~NoteOff(m[i])
  <2>1. CASE m[i] = 247
    BY <2>1 DEF NoteOff
  <2>2. CASE ~P!IsStatus(m[i]) /\ m[i] \in 0..255
    BY <2>2 DEF P!IsStatus, NoteOff
  <2>3. QED
    BY <1>1, <2>1, <2>2
<1>3. QED
  BY <1>2 DEF One

(* The first byte of a message. *)
LEMMA FollowsFirst ==
  ASSUME NEW p, Sound(p), p.calls = <<>>, Between(p), NEW ignore \in BOOLEAN,
         NEW m \in Sent, NEW v \in Whole, NEW u, Ahead(u, m, 0, v)
  PROVE  Follows(p, Head(u), P!ParseByte(p, Head(u), ignore), Tail(u))
<1> DEFINE b == m[1]
           q == P!ParseByte(p, b, ignore)
<1>1. IsMessage(m)
  BY SentFacts
<1>2. Len(m) \in Nat \ {0}
  BY <1>1, MessageFacts
<1>5. Head(u) = b /\ Ahead(Tail(u), m, 1, v)
  <2>1. 0 \in 0..(Len(m) - 1) /\ 0 + 1 = 1
    BY <1>2
  <2>2. QED
    BY <2>1, AheadFacts
<1>6. OffIn(p) = 0
  BY DEF Between, OffIn
<1>7. CASE Len(m) > 1
  <2>1. Sound(q) /\ Within(q, m, 1) /\ Unexpected(q.calls)
    BY <1>1, <1>7, MessageBegun
  <2>2. 1 \in 1..(Len(m) - 1)
    BY <1>2, <1>7
  <2> HIDE DEF q
  <2>3. Following(q, Tail(u))
    BY <1>5, <2>1, <2>2 DEF Following
  <2>4. SentBy(q.calls) /\ Offs(q.calls) = 0
    BY <2>1, NothingReported
  <2>5. OffIn(q) = One(b)
    BY <1>1, <2>1, <2>2, WithinOff
  <2>6. One(b) \in Nat
    BY DEF One
  <2> HIDE DEF b
  <2>7. Balanced(p, b, q)
    BY <1>6, <2>4, <2>5, <2>6 DEF Balanced
  <2>8. QED
    BY <1>5, <2>1, <2>3, <2>4, <2>7 DEF Follows, q, b
<1>8. CASE Len(m) = 1
  <2>1. /\ b >= 248 /\ Sound(q) /\ q.m_State = p.m_State
        /\ q.m_nMessageLength = p.m_nMessageLength
        /\ q.calls = <<[kind |-> "short", bytes |-> m]>>
    BY <1>1, <1>8, RealTimeParsed
  <2> HIDE DEF q
  <2>2. Tail(u) = v
    <3>1. Ahead(Tail(u), m, Len(m), v)
      BY <1>5, <1>8
    <3>2. QED
      BY <3>1, AheadEnds
  <2>3. Between(q)
    BY <2>1 DEF Between
  <2>4. Following(q, Tail(u))
    BY <1>5, <2>2, <2>3 DEF Following
  <2>5. b \in 0..255
    <3>1. 1 \in 1..Len(m)
      BY <1>2
    <3>2. QED
      BY <1>1, <3>1, MessageFacts
  <2>6. One(b) = 0
    BY <2>1, <2>5 DEF One, NoteOff
  <2>7. SentBy(q.calls) /\ Offs(q.calls) = One(m[1])
    BY <2>1, OneReported
  <2>8. OffIn(q) = 0
    BY <2>3 DEF Between, OffIn
  <2>9. Balanced(p, b, q)
    BY <1>6, <2>6, <2>7, <2>8 DEF Balanced
  <2>10. QED
    BY <1>5, <2>1, <2>4, <2>7, <2>9 DEF Follows, q
<1>9. Len(m) > 1 \/ Len(m) = 1
  <2> DEFINE n == Len(m)
  <2>1. n \in Nat \ {0}
    BY <1>2
  <2> HIDE DEF n
  <2>2. n > 1 \/ n = 1
    BY <2>1
  <2>3. QED
    BY <2>2 DEF n
<1>10. QED
  BY <1>7, <1>8, <1>9

(* Another byte of a message. *)
LEMMA FollowsNext ==
  ASSUME NEW p, Sound(p), p.calls = <<>>, NEW ignore \in BOOLEAN,
         NEW m \in Sent, NEW j \in 1..(Len(m) - 1), Within(p, m, j),
         NEW v \in Whole, NEW u, Ahead(u, m, j, v)
  PROVE  Follows(p, Head(u), P!ParseByte(p, Head(u), ignore), Tail(u))
<1> DEFINE b == m[j + 1]
           q == P!ParseByte(p, b, ignore)
<1>1. IsMessage(m)
  BY SentFacts
<1>2. Len(m) \in Nat \ {0}
  BY <1>1, MessageFacts
<1>3. j + 1 \in 2..Len(m)
  BY <1>2
<1>4. Head(u) = b /\ Ahead(Tail(u), m, j + 1, v)
  <2>1. j \in 0..(Len(m) - 1)
    BY <1>2
  <2>2. QED
    BY <2>1, AheadFacts
<1>5. OffIn(p) = One(m[1])
  BY <1>1, WithinOff
<1>6. One(b) = 0
  BY <1>1, <1>3, DataIsNoOff
<1>7. One(m[1]) \in Nat
  BY DEF One
<1> HIDE DEF b
<1>8. CASE j + 1 < Len(m)
  <2>1. Sound(q) /\ Within(q, m, j + 1) /\ q.calls = <<>>
    BY <1>1, <1>8, MessageContinued DEF b
  <2>2. j + 1 \in 1..(Len(m) - 1)
    BY <1>2, <1>3, <1>8
  <2> HIDE DEF q
  <2>3. Following(q, Tail(u))
    BY <1>4, <2>1, <2>2 DEF Following
  <2>4. SentBy(q.calls) /\ Offs(q.calls) = 0
    BY <2>1, NothingReported DEF Unexpected
  <2>5. OffIn(q) = One(m[1])
    BY <1>1, <2>1, <2>2, WithinOff
  <2>6. Balanced(p, b, q)
    BY <1>5, <1>6, <1>7, <2>4, <2>5 DEF Balanced
  <2>7. QED
    BY <1>4, <2>1, <2>3, <2>4, <2>6 DEF Follows, q, b
<1>9. CASE j + 1 = Len(m)
  <2>1. /\ Sound(q) /\ q.m_State = "StatusByte" /\ q.m_nMessageLength = 0
        /\ Told(q.calls, m, ignore)
    BY <1>1, <1>9, MessageEnded DEF b
  <2> HIDE DEF q
  <2>2. Tail(u) = v
    <3>1. Ahead(Tail(u), m, Len(m), v)
      BY <1>4, <1>9
    <3>2. QED
      BY <3>1, AheadEnds
  <2>3. Following(q, Tail(u))
    BY <1>4, <2>1, <2>2 DEF Following, Between
  <2>4. OffIn(q) = 0
    BY <2>1 DEF OffIn
  <2>5. SentBy(q.calls) /\ Offs(q.calls) = One(m[1])
    <3>1. CASE q.calls = <<[kind |-> "short", bytes |-> m]>>
      BY <3>1, OneReported
    <3>2. CASE q.calls = <<[kind |-> "sysex", bytes |-> m]>> /\ IsSysEx(m)
      <4>1. m[1] = 240
        BY <1>1, <3>2, MessageFacts
      <4>2. One(m[1]) = 0
        BY <4>1, NoOffs
      <4>3. SentBy(q.calls) /\ Offs(q.calls) = 0
        BY <3>2, OneReported
      <4>4. QED
        BY <4>2, <4>3
    <3>3. CASE q.calls = <<>> /\ NoteOn(m[1])
      <4>1. One(m[1]) = 0
        BY <3>3, NoOffs
      <4>2. SentBy(q.calls) /\ Offs(q.calls) = 0
        BY <3>3, NothingReported DEF Unexpected
      <4>3. QED
        BY <4>1, <4>2
    <3>4. QED
      BY <2>1, <3>1, <3>2, <3>3 DEF Told
  <2>6. Balanced(p, b, q)
    BY <1>5, <1>6, <1>7, <2>4, <2>5 DEF Balanced
  <2>7. QED
    BY <1>4, <2>1, <2>3, <2>5, <2>6 DEF Follows, q, b
<1>10. j + 1 < Len(m) \/ j + 1 = Len(m)
  BY <1>2
<1>11. QED
  BY <1>8, <1>9, <1>10

(* Whatever byte is next, the parser follows. *)
LEMMA FollowsByte ==
  ASSUME NEW p, Sound(p), p.calls = <<>>, NEW ignore \in BOOLEAN,
         NEW u, u # <<>>, Following(p, u)
  PROVE  Follows(p, Head(u), P!ParseByte(p, Head(u), ignore), Tail(u))
<1>1. CASE Between(p) /\ u \in Whole
  <2>1. PICK m \in Sent, v \in Whole : Ahead(u, m, 0, v)
    BY <1>1, AheadBegins
  <2>2. QED
    BY <1>1, <2>1, FollowsFirst
<1>2. CASE ~(Between(p) /\ u \in Whole)
  <2>m. PICK m \in Sent : \E j \in 1..(Len(m) - 1) : \E v \in Whole :
          Within(p, m, j) /\ Ahead(u, m, j, v)
    BY <1>2 DEF Following
  <2>1. PICK j \in 1..(Len(m) - 1), v \in Whole :
          Within(p, m, j) /\ Ahead(u, m, j, v)
    BY <2>m
  <2>2. QED
    BY <2>1, FollowsNext
<1>3. QED
  BY <1>1, <1>2

(* The end of a SysEx message, when it is reported from within the parser, *)
(* which has not been reset yet.                                           *)
LEMMA FollowsSysEx ==
  ASSUME NEW p, Sound(p), p.calls = <<>>, p.m_State = "SysExByte",
         NEW u, u # <<>>, Following(p, u), Head(u) = 247
  PROVE  LET s == P!Store(p, 247)
         IN  Follows(p, 247, P!Call(s, "sysex", P!Message(s)), Tail(u))
               /\ OffIn(p) = OffIn(P!Call(s, "sysex", P!Message(s)))
<1>1. ~(Between(p) /\ u \in Whole)
  BY HeadFacts
<1>m. PICK m \in Sent : \E j \in 1..(Len(m) - 1) : \E v \in Whole :
        Within(p, m, j) /\ Ahead(u, m, j, v)
  BY <1>1 DEF Following
<1>2. PICK j \in 1..(Len(m) - 1), v \in Whole :
        Within(p, m, j) /\ Ahead(u, m, j, v)
  BY <1>m
<1>3. IsMessage(m)
  BY SentFacts
<1>4. m \in Seq(0..255) /\ Len(m) \in Nat \ {0}
  BY <1>3, MessageFacts
<1>5. j + 1 \in 2..Len(m) /\ Len(m) > 1 /\ j \in 0..(Len(m) - 1)
  BY <1>4
<1>6. Head(u) = m[j + 1] /\ Ahead(Tail(u), m, j + 1, v)
  BY <1>2, <1>5, AheadFacts
<1>7. IsSysEx(m) /\ j + 1 = Len(m)
  <2>1. IsShort(m) => m[1] # 240
    BY <1>3, MessageFacts
  <2>2. ~IsShort(m)
    BY <1>2, <2>1 DEF Within
  <2>3. IsSysEx(m)
    BY <1>3, <1>5, <2>2, MessageFacts
  <2>4. ~(j + 1 < Len(m))
    <3>1. j + 1 < Len(m) => ~P!IsStatus(m[j + 1])
      BY <1>3, <1>5, <2>3, DataFacts
    <3>2. P!IsStatus(m[j + 1])
      BY <1>6 DEF P!IsStatus
    <3>3. QED
      BY <3>1, <3>2
  <2>5. QED
    BY <1>4, <2>3, <2>4
<1> DEFINE s == P!Store(p, m[j + 1])
           c == P!Call(s, "sysex", m)
<1>8. Sound(s) /\ s.calls = <<>> /\ Within(s, m, j + 1)
  BY <1>2, <1>3, <1>7, SysExHeld
<1>9. s = P!Store(p, 247)
  BY <1>6
<1> HIDE DEF s
<1>10. P!Message(s) = m
  <2>1. Holds(s, m, Len(m))
    BY <1>7, <1>8 DEF Within
  <2>2. QED
    BY <1>4, <2>1, HeldWhole
<1>11. /\ Sound(c) /\ c.m_State = s.m_State
       /\ c.calls = Append(s.calls, [kind |-> "sysex", bytes |-> m])
  BY <1>8, CallFacts
<1>12. c.calls = <<[kind |-> "sysex", bytes |-> m]>>
  BY <1>8, <1>11
<1>13. s.m_State = "SysExByte"
  <2>1. m[1] = 240
    BY <1>3, <1>7, MessageFacts
  <2>2. QED
    BY <1>8, <2>1 DEF Within
<1> HIDE DEF c
<1>14. OffIn(c) = 0 /\ OffIn(p) = 0
  BY <1>11, <1>13 DEF OffIn
<1>15. SentBy(c.calls) /\ Offs(c.calls) = 0
  <2>1. /\ SentBy(<<[kind |-> "sysex", bytes |-> m]>>)
        /\ Offs(<<[kind |-> "sysex", bytes |-> m]>>) = 0
    BY OneReported
  <2>2. QED
    BY <1>12, <2>1
<1>16. Balanced(p, 247, c)
  BY <1>14, <1>15 DEF Balanced, One, NoteOff
<1>17. Tail(u) = v
  <2>1. Ahead(Tail(u), m, Len(m), v)
    BY <1>6, <1>7
  <2>2. \A x : Ahead(x, m, Len(m), v) => x = v
    BY AheadEnds
  <2>3. QED
    BY <2>1, <2>2, Zenon
<1>18. Following(c, Tail(u))
  <2>1. Between(c)
    BY <1>11, <1>13 DEF Between
  <2>2. Tail(u) \in Whole
    BY <1>17
  <2>3. QED
    BY <2>1, <2>2 DEF Following
<1>19. Follows(p, 247, c, Tail(u))
  BY <1>11, <1>15, <1>16, <1>18 DEF Follows
<1>20. QED
  BY <1>9, <1>10, <1>14, <1>19 DEF c

----------------------------------------------------------------------------
(* The invariant behind OnlyWhatWasSent. *)

(* The bytes of this data. *)
BytesOf(data) == [k \in 1..Len(data) |-> data[k].byte]

(* What the innermost ParseMIDIBytes has left, what is in the queue, and   *)
(* the packet the sender has left of its message: what the parser gets if  *)
(* no other message comes, in this order.                                  *)
Parsing == IF calls = <<>> THEN <<>> ELSE BytesOf(calls[1].rest)
First(packets) == IF packets = <<>> THEN <<>> ELSE packets[1]
Unsent == First(sending)
Unparsed == Parsing \o (BytesOf(m_MIDIRxBuffer) \o Unsent)

(* Outside of the innermost call nothing is left to parse: a purge that    *)
(* comes before what a call has left tears a message.                      *)
OuterCallsDone == \A k \in 2..Len(calls) : calls[k].rest = <<>>

PacketsInv ==
  /\ Len(sending) <= 1
  /\ \A i \in 1..Len(socket) : BytesOf(socket[i]) \in Datagrams

Intact == OuterCallsDone /\ Following(parser, Unparsed) /\ SentBy(parser.calls)

StreamInv == DiscardInv /\ PacketsInv /\ (~overrun /\ ~torn => Intact)

----------------------------------------------------------------------------
(* Bytes and their data. *)

(* BytesOf keeps length and order, *)
LEMMA BytesOfFacts ==
  ASSUME NEW data \in Received
  PROVE  /\ BytesOf(data) \in Seq(0..255) /\ Len(BytesOf(data)) = Len(data)
         /\ \A k \in 1..Len(data) : BytesOf(data)[k] = data[k].byte
<1>1. data \in Seq(Bytes)
  BY DEF Received, Bytes
<1>2. ASSUME NEW k \in 1..Len(data) PROVE data[k].byte \in 0..255
  <2>1. data[k] \in Bytes
    BY <1>1, ElementOfSeq
  <2>2. QED
    BY <2>1 DEF Bytes
<1> DEFINE n == Len(data)
<1>3. n \in Nat
  BY <1>1
<1> HIDE DEF n
<1>4. [k \in 1..n |-> data[k].byte] \in Seq(0..255)
  BY <1>2, <1>3 DEF n
<1>5. BytesOf(data) = [k \in 1..n |-> data[k].byte]
  BY DEF BytesOf, n
<1>6. QED
  BY <1>3, <1>4, <1>5 DEF n

(* maps nothing to nothing, *)
LEMMA BytesOfNothing == BytesOf(<<>>) = <<>>
<1>1. <<>> \in Received
  BY DEF Received
<1>2. Len(BytesOf(<<>>)) = 0 /\ BytesOf(<<>>) \in Seq(0..255)
  BY <1>1, BytesOfFacts
<1>3. QED
  BY <1>2

(* forgets when a byte came, *)
LEMMA BytesOfStamp ==
  ASSUME NEW bytes \in Seq(0..255), NEW w \in {"busy", "busyNet"}
  PROVE  BytesOf(Stamp(bytes, w)) = bytes
<1> DEFINE s == Stamp(bytes, w)
<1>1. s \in Received /\ Len(s) = Len(bytes)
  BY StampFacts
<1>2. \A k \in 1..Len(bytes) : s[k].byte = bytes[k]
  BY DEF Stamp
<1> HIDE DEF s
<1>3. /\ BytesOf(s) \in Seq(0..255) /\ Len(BytesOf(s)) = Len(bytes)
      /\ \A k \in 1..Len(bytes) : BytesOf(s)[k] = s[k].byte
  BY <1>1, BytesOfFacts
<1>4. \A k \in 1..Len(bytes) : BytesOf(s)[k] = bytes[k]
  BY <1>2, <1>3
<1>5. BytesOf(s) = bytes
  BY <1>3, <1>4, SeqEqual
<1>6. QED
  BY <1>5 DEF s

(* The elements of two sequences put together. *)
LEMMA JoinedElements ==
  ASSUME NEW S, NEW s \in Seq(S), NEW t \in Seq(S), NEW k \in 1..(Len(s) + Len(t))
  PROVE  (s \o t)[k] = IF k <= Len(s) THEN s[k] ELSE t[k - Len(s)]
  OBVIOUS

(* The bytes of data put together are those of both. *)
LEMMA BytesOfJoined ==
  ASSUME NEW a \in Received, NEW b \in Received
  PROVE  BytesOf(a \o b) = BytesOf(a) \o BytesOf(b)
<1> DEFINE c == a \o b
           x == BytesOf(a)
           y == BytesOf(b)
           n == Len(a)
           m == Len(b)
<1>1. c \in Received /\ Len(c) = n + m /\ n \in Nat /\ m \in Nat
  BY ReceivedJoined DEF Received
<1>2. /\ x \in Seq(0..255) /\ Len(x) = n
      /\ \A k \in 1..n : x[k] = a[k].byte
  BY BytesOfFacts
<1>3. /\ y \in Seq(0..255) /\ Len(y) = m
      /\ \A k \in 1..m : y[k] = b[k].byte
  BY BytesOfFacts
<1>4. \A k \in 1..(n + m) : c[k] = IF k <= n THEN a[k] ELSE b[k - n]
  BY JoinedElements DEF Received
<1> HIDE DEF c, x, y
<1>5. /\ BytesOf(c) \in Seq(0..255) /\ Len(BytesOf(c)) = n + m
      /\ \A k \in 1..(n + m) : BytesOf(c)[k] = c[k].byte
  BY <1>1, BytesOfFacts
<1>6. /\ x \o y \in Seq(0..255) /\ Len(x \o y) = n + m
  BY <1>2, <1>3, JoinFacts
<1>7. ASSUME NEW k \in 1..(n + m) PROVE (x \o y)[k] = IF k <= n THEN x[k] ELSE y[k - n]
  <2>1. k \in 1..(Len(x) + Len(y))
    BY <1>2, <1>3
  <2>2. (x \o y)[k] = IF k <= Len(x) THEN x[k] ELSE y[k - Len(x)]
    BY <1>2, <1>3, <2>1, JoinedElements
  <2>3. QED
    BY <1>2, <2>2
<1> HIDE DEF n, m
<1>8. ASSUME NEW k \in 1..(n + m) PROVE BytesOf(c)[k] = (x \o y)[k]
  <2>1. CASE k <= n
    <3>1. k \in 1..n
      BY <1>1, <2>1
    <3>2. QED
      BY <1>2, <1>4, <1>5, <1>7, <2>1, <3>1
  <2>2. CASE ~(k <= n)
    <3>1. k - n \in 1..m
      BY <1>1, <2>2
    <3>2. QED
      BY <1>3, <1>4, <1>5, <1>7, <2>2, <3>1
  <2>3. QED
    BY <2>1, <2>2
<1>9. BytesOf(c) = x \o y
  BY <1>5, <1>6, <1>8, SeqEqual
<1>10. QED
  BY <1>9 DEF c, x, y

(* The first byte of data and the others. *)
LEMMA BytesOfTail ==
  ASSUME NEW data \in Received, data # <<>>
  PROVE  /\ Head(data).byte \in 0..255 /\ Tail(data) \in Received
         /\ BytesOf(data) = <<Head(data).byte>> \o BytesOf(Tail(data))
<1> DEFINE b == Head(data).byte
           t == Tail(data)
           u == <<b>> \o BytesOf(t)
<1>1. /\ Head(data) \in Bytes /\ Head(data) = data[1] /\ t \in Received
      /\ Len(t) = Len(data) - 1 /\ Len(data) \in Nat \ {0}
      /\ \A k \in 1..Len(t) : t[k] = data[k + 1]
  <2>1. data \in Seq(Bytes)
    BY DEF Received, Bytes
  <2>2. /\ Head(data) \in Bytes /\ Head(data) = data[1] /\ t \in Seq(Bytes)
        /\ Len(t) = Len(data) - 1 /\ Len(data) \in Nat \ {0}
        /\ \A k \in 1..Len(t) : t[k] = data[k + 1]
    BY <2>1, TailFacts
  <2>3. QED
    BY <2>2 DEF Received, Bytes
<1>2. b \in 0..255
  BY <1>1 DEF Bytes
<1> HIDE DEF t
<1>3. /\ BytesOf(t) \in Seq(0..255) /\ Len(BytesOf(t)) = Len(t)
      /\ \A k \in 1..Len(t) : BytesOf(t)[k] = t[k].byte
  BY <1>1, BytesOfFacts
<1>4. /\ BytesOf(data) \in Seq(0..255) /\ Len(BytesOf(data)) = Len(data)
      /\ \A k \in 1..Len(data) : BytesOf(data)[k] = data[k].byte
  BY BytesOfFacts
<1> HIDE DEF b
<1>5. /\ u \in Seq(0..255) /\ Len(u) = Len(t) + 1 /\ u[1] = b
      /\ \A k \in 1..Len(t) : u[k + 1] = BytesOf(t)[k]
  BY <1>2, <1>3, ConsFacts
<1> HIDE DEF u
<1>6. ASSUME NEW k \in 1..Len(data) PROVE BytesOf(data)[k] = u[k]
  <2>1. CASE k = 1
    BY <1>1, <1>4, <1>5, <2>1 DEF b
  <2>2. CASE k # 1
    <3>1. k - 1 \in 1..Len(t) /\ (k - 1) + 1 = k
      BY <1>1, <2>2
    <3>2. u[k] = BytesOf(t)[k - 1] /\ BytesOf(t)[k - 1] = t[k - 1].byte /\ t[k - 1] = data[k]
      BY <1>1, <1>3, <1>5, <3>1
    <3>3. QED
      BY <1>4, <3>2
  <2>3. QED
    BY <2>1, <2>2
<1>7. Len(u) = Len(data)
  BY <1>1, <1>5
<1>8. BytesOf(data) = u
  BY <1>4, <1>5, <1>6, <1>7, SeqEqual
<1>9. QED
  BY <1>1, <1>2, <1>8 DEF b, t, u

(* Sequences are put together in either order. *)
Regrouped(x, y, z) == (x \o y) \o z = x \o (y \o z)

(* The library's ConcatAssociative, in a form the provers find. *)
LEMMA JoinedTwice ==
  ASSUME NEW S, NEW x \in Seq(S), NEW y \in Seq(S), NEW z \in Seq(S)
  PROVE  Regrouped(x, y, z)
  BY ConcatAssociative DEF Regrouped

(* A stream may go on with another message. *)
LEMMA FollowingMore ==
  ASSUME NEW p, NEW u \in Seq(0..255), Following(p, u), NEW m \in Sent
  PROVE  Following(p, u \o m)
<1>m. m \in Seq(0..255)
  BY SentFacts DEF IsMessage
<1>1. CASE Between(p) /\ u \in Whole
  <2>1. u \o m \in Whole
    BY <1>1, WholeAfter
  <2>2. QED
    BY <1>1, <2>1 DEF Following
<1>2. CASE ~(Between(p) /\ u \in Whole)
  <2>1. PICK k \in Sent : \E j \in 1..(Len(k) - 1) : \E v \in Whole :
          Within(p, k, j) /\ Ahead(u, k, j, v)
    BY <1>2 DEF Following
  <2>2. PICK j \in 1..(Len(k) - 1), v \in Whole : Within(p, k, j) /\ Ahead(u, k, j, v)
    BY <2>1
  <2>3. v \o m \in Whole
    BY WholeAfter
  <2>4. Rest(k, j) \in Seq(0..255)
    <3>1. k \in Seq(0..255)
      BY SentFacts DEF IsMessage
    <3>2. \A i \in (j + 1)..Len(k) : i \in 1..Len(k)
      BY <3>1
    <3>3. \A i \in (j + 1)..Len(k) : k[i] \in 0..255
      BY <3>1, <3>2, ElementOfSeq
    <3>4. QED
      BY <3>1, <3>3, SubSeqProperties DEF Rest
  <2>5. (Rest(k, j) \o v) \o m = Rest(k, j) \o (v \o m)
    <3> DEFINE w == Rest(k, j)
    <3>1. v \in Seq(0..255) /\ w \in Seq(0..255)
      BY <2>4 DEF Whole
    <3> HIDE DEF w
    <3>2. Regrouped(w, v, m)
      BY <1>m, <3>1, JoinedTwice
    <3>3. QED
      BY <3>2 DEF w, Regrouped
  <2>6. Ahead(u \o m, k, j, v \o m)
    BY <2>2, <2>5 DEF Ahead
  <2>7. QED
    BY <2>2, <2>3, <2>6 DEF Following
<1>3. QED
  BY <1>1, <1>2

----------------------------------------------------------------------------
(* The steps.  What they do to the rest is known already. *)

(* What is appended to the middle is appended at the end. *)
Appended(x, y, a, t) == x \o ((y \o a) \o t) = (x \o y) \o (a \o t)

(* Bytes added to the queue come after what is there. *)
LEMMA AppendedBytes ==
  ASSUME NEW S, NEW x \in Seq(S), NEW y \in Seq(S), NEW a \in Seq(S), NEW t \in Seq(S)
  PROVE  Appended(x, y, a, t)
<1>1. Regrouped(y, a, t)
  BY JoinedTwice
<1> DEFINE m == a \o t
<1>2. m \in Seq(S)
  BY JoinFacts
<1> HIDE DEF m
<1>3. Regrouped(x, y, m)
  BY <1>2, JoinedTwice
<1>4. QED
  BY <1>1, <1>3 DEF m, Appended, Regrouped

(* Unless it overruns, the queue takes a packet whole. *)
LEMMA EnqueueAll ==
  ASSUME NEW block, Enqueue(block), ~overrun'
  PROVE  ~overrun /\ m_MIDIRxBuffer' = m_MIDIRxBuffer \o block
  BY DEF Enqueue

(* All that is left to parse are bytes. *)
LEMMA UnparsedIsBytes ==
  ASSUME TypeInv
  PROVE  /\ Parsing \in Seq(0..255) /\ Unsent \in Seq(0..255)
         /\ BytesOf(m_MIDIRxBuffer) \in Seq(0..255)
         /\ BytesOf(m_MIDIRxBuffer) \o Unsent \in Seq(0..255)
         /\ Unparsed \in Seq(0..255)
<1>1. Parsing \in Seq(0..255)
  <2>1. CASE calls = <<>>
    BY <2>1 DEF Parsing
  <2>2. CASE calls # <<>>
    <3>1. calls[1] \in Call
      BY <2>2, TailFacts DEF TypeInv
    <3>2. calls[1].rest \in Received
      BY <3>1 DEF Call
    <3>3. BytesOf(calls[1].rest) \in Seq(0..255)
      BY <3>2, BytesOfFacts
    <3>4. QED
      BY <2>2, <3>3 DEF Parsing
  <2>3. QED
    BY <2>1, <2>2
<1>2. Unsent \in Seq(0..255)
  BY TailFacts DEF TypeInv, Unsent, First
<1>3. BytesOf(m_MIDIRxBuffer) \in Seq(0..255)
  BY BytesOfFacts DEF TypeInv
<1>4. BytesOf(m_MIDIRxBuffer) \o Unsent \in Seq(0..255)
  BY <1>2, <1>3, JoinFacts
<1>5. Unparsed \in Seq(0..255)
  BY <1>1, <1>4, JoinFacts DEF Unparsed
<1>6. QED
  BY <1>1, <1>2, <1>3, <1>4, <1>5

(* At first nothing is left to parse. *)
LEMMA StreamStarts == Init => StreamInv
<1> SUFFICES ASSUME Init PROVE StreamInv
  OBVIOUS
<1>1. DiscardInv
  BY InputStarts
<1>2. PacketsInv
  BY DEF Init, PacketsInv
<1>3. Unparsed = <<>>
  BY BytesOfNothing DEF Init, Unparsed, Parsing, Unsent, First
<1>4. Between(parser) /\ parser.calls = <<>>
  BY DEF Init, P!Init, Between
<1>5. Following(parser, Unparsed)
  BY <1>3, <1>4, WholeEmpty DEF Following
<1>6. OuterCallsDone
  BY DEF Init, OuterCallsDone
<1>7. SentBy(parser.calls)
  BY <1>4 DEF SentBy
<1>8. QED
  BY <1>1, <1>2, <1>5, <1>6, <1>7 DEF StreamInv, Intact

(* The packets of a message. *)
LEMMA PacketFacts ==
  ASSUME NEW packets \in Messages
  PROVE  /\ Concat(packets) \in Sent
         /\ Head(packets) \in Seq(0..255) /\ First(Tail(packets)) \in Seq(0..255)
         /\ Concat(packets) = Head(packets) \o First(Tail(packets))
         /\ Len(Tail(packets)) <= 1
<1> DEFINE n == Len(packets)
           t == Tail(packets)
<1>1. packets \in Seq(Seq(0..255)) /\ n \in {1, 2}
  BY MessageAssumption
<1>2. Concat(packets) \in Sent
  BY DEF Sent
<1>3. packets # <<>>
  BY MessageAssumption
<1>4. /\ Head(packets) \in Seq(0..255) /\ Head(packets) = packets[1]
      /\ t \in Seq(Seq(0..255)) /\ Len(t) = n - 1
      /\ \A k \in 1..Len(t) : t[k] = packets[k + 1]
  BY <1>1, <1>3, TailFacts
<1>5. Concat(packets) = IF n = 1 THEN packets[1] ELSE packets[1] \o packets[2]
  BY DEF Concat
<1> HIDE DEF n, t
<1>6. CASE n = 1
  <2>1. t = <<>>
    BY <1>4, <1>6
  <2>2. packets[1] \o <<>> = packets[1]
    BY <1>4, ConcatEmptySeq
  <2>3. First(t) = <<>>
    BY <2>1 DEF First
  <2>4. Len(t) <= 1
    BY <1>4, <1>6
  <2>5. Concat(packets) = Head(packets) \o First(t)
    BY <1>4, <1>5, <1>6, <2>2, <2>3
  <2>6. First(t) \in Seq(0..255)
    BY <2>3
  <2>7. QED
    BY <1>2, <1>4, <2>4, <2>5, <2>6 DEF t
<1>7. CASE n = 2
  <2>1. Len(t) = 1
    BY <1>4, <1>7
  <2>2. 1 \in 1..Len(t) /\ 1 + 1 = 2 /\ t # <<>>
    BY <2>1
  <2>3. t[1] = packets[2] /\ t[1] \in Seq(0..255)
    BY <1>4, <2>2, ElementOfSeq
  <2>4. First(t) = packets[2]
    BY <2>2, <2>3 DEF First
  <2>5. Concat(packets) = packets[1] \o packets[2]
    BY <1>5, <1>7
  <2>6. Concat(packets) = Head(packets) \o First(t)
    BY <1>4, <2>4, <2>5
  <2>7. First(t) \in Seq(0..255) /\ Len(t) <= 1
    BY <2>1, <2>3, <2>4
  <2>8. QED
    BY <1>2, <1>4, <2>6, <2>7 DEF t
<1>8. QED
  BY <1>1, <1>6, <1>7 DEF n

(* A packet: the first of a message, or the other one. *)
LEMMA StreamReceive == StreamInv /\ Receive => StreamInv'
<1> SUFFICES ASSUME StreamInv, Receive PROVE StreamInv'
  OBVIOUS
<1> DEFINE B == BytesOf(m_MIDIRxBuffer)
<1>1. UNCHANGED <<socket, calls, parser, torn>>
  BY DEF Receive, parsing
<1>2. DiscardInv' /\ TypeInv
  BY ReceiveStep DEF StreamInv, DiscardInv
<1>b. /\ Parsing \in Seq(0..255) /\ B \in Seq(0..255) /\ Unsent \in Seq(0..255)
      /\ B \o Unsent \in Seq(0..255) /\ m_MIDIRxBuffer \in Received
  BY <1>2, UnparsedIsBytes DEF TypeInv
<1>u. Parsing' = Parsing /\ (OuterCallsDone <=> OuterCallsDone')
  BY <1>1 DEF Parsing, OuterCallsDone
<1>3. CASE /\ sending = <<>>
           /\ \E packets \in Messages : /\ Enqueue(Stamp(Head(packets), "busy"))
                                        /\ sending' = Tail(packets)
  <2>1. PICK packets \in Messages : /\ Enqueue(Stamp(Head(packets), "busy"))
                                    /\ sending' = Tail(packets)
    BY <1>3
  <2> DEFINE a == Head(packets)
             m == Concat(packets)
  <2>2. /\ m \in Sent /\ a \in Seq(0..255) /\ First(Tail(packets)) \in Seq(0..255)
        /\ m = a \o First(Tail(packets)) /\ Len(Tail(packets)) <= 1
    BY PacketFacts
  <2>3. Unsent' = First(Tail(packets))
    BY <2>1 DEF Unsent
  <2>4. Unsent' \in Seq(0..255) /\ m = a \o Unsent'
    BY <2>2, <2>3
  <2>5. PacketsInv'
    BY <1>1, <2>1, <2>2 DEF StreamInv, PacketsInv
  <2> HIDE DEF m, B
  <2>6. ASSUME ~overrun', ~torn' PROVE Intact'
    <3>1. ~overrun /\ m_MIDIRxBuffer' = m_MIDIRxBuffer \o Stamp(a, "busy")
      BY <2>1, <2>6, EnqueueAll
    <3>2. Intact
      BY <1>1, <2>6, <3>1 DEF StreamInv
    <3>3. BytesOf(m_MIDIRxBuffer') = B \o a
      <4>1. Stamp(a, "busy") \in Received /\ BytesOf(Stamp(a, "busy")) = a
        BY <2>2, StampFacts, BytesOfStamp
      <4>2. QED
        BY <1>b, <3>1, <4>1, BytesOfJoined DEF B
    <3>4. Unsent = <<>> /\ B \o Unsent = B
      BY <1>3, <1>b, ConcatEmptySeq DEF Unsent, First
    <3> HIDE DEF a
    <3>5. Appended(Parsing, B, a, Unsent')
      BY <1>b, <2>2, <2>4, AppendedBytes
    <3>7. Unparsed' = Unparsed \o m
      <4>1. Unparsed' = Parsing \o ((B \o a) \o Unsent')
        BY <1>u, <3>3 DEF Unparsed
      <4>2. Unparsed = Parsing \o B
        BY <3>4 DEF Unparsed, B
      <4>3. QED
        BY <2>4, <3>5, <4>1, <4>2 DEF Appended
    <3>8. Following(parser, Unparsed \o m)
      <4>1. Unparsed \in Seq(0..255)
        BY <1>2, UnparsedIsBytes
      <4>2. QED
        BY <2>2, <3>2, <4>1, FollowingMore DEF Intact
    <3>9. QED
      BY <1>1, <1>u, <3>2, <3>7, <3>8 DEF Intact
  <2>7. QED
    BY <1>2, <2>5, <2>6 DEF StreamInv
<1>4. CASE /\ sending # <<>> /\ Enqueue(Stamp(Head(sending), "busy"))
           /\ sending' = Tail(sending)
  <2> DEFINE a == sending[1]
  <2>1. /\ a \in Seq(0..255) /\ Head(sending) = a /\ Len(Tail(sending)) = Len(sending) - 1
        /\ Len(sending) \in Nat \ {0} /\ Tail(sending) \in Seq(Seq(0..255))
    BY <1>2, <1>4, TailFacts DEF TypeInv
  <2>2. Len(sending) = 1
    BY <2>1 DEF StreamInv, PacketsInv
  <2>3. sending' = <<>>
    BY <1>4, <2>1, <2>2
  <2>4. PacketsInv'
    BY <1>1, <2>3 DEF StreamInv, PacketsInv
  <2>5. Unsent = a /\ Unsent' = <<>>
    BY <1>4, <2>3 DEF Unsent, First
  <2> HIDE DEF a, B
  <2>6. ASSUME ~overrun', ~torn' PROVE Intact'
    <3>1. ~overrun /\ m_MIDIRxBuffer' = m_MIDIRxBuffer \o Stamp(a, "busy")
      BY <1>4, <2>1, <2>6, EnqueueAll
    <3>2. Intact
      BY <1>1, <2>6, <3>1 DEF StreamInv
    <3>3. BytesOf(m_MIDIRxBuffer') = B \o a
      <4>1. Stamp(a, "busy") \in Received /\ BytesOf(Stamp(a, "busy")) = a
        BY <2>1, StampFacts, BytesOfStamp
      <4>2. QED
        BY <1>b, <3>1, <4>1, BytesOfJoined DEF B
    <3>4. (B \o a) \o <<>> = B \o a
      <4>1. B \o a \in Seq(0..255)
        BY <1>b, <2>1, JoinFacts
      <4>2. QED
        BY <4>1, ConcatEmptySeq
    <3>5. Unparsed' = Unparsed
      BY <1>u, <2>5, <3>3, <3>4 DEF Unparsed, B
    <3>6. QED
      BY <1>1, <1>u, <3>2, <3>5 DEF Intact
  <2>7. QED
    BY <1>2, <2>4, <2>6 DEF StreamInv
<1>5. QED
  BY <1>3, <1>4 DEF Receive

(* A datagram waits for Yield. *)
LEMMA StreamDatagram == StreamInv /\ DatagramArrives => StreamInv'
<1> SUFFICES ASSUME StreamInv, DatagramArrives PROVE StreamInv'
  OBVIOUS
<1>1. UNCHANGED <<sending, m_MIDIRxBuffer, calls, parser, torn, overrun>>
  BY DEF DatagramArrives, parsing
<1>2. PICK bytes \in Datagrams : socket' = Append(socket, Stamp(bytes, "busyNet"))
  BY DEF DatagramArrives
<1>3. bytes \in Seq(0..255)
  BY DatagramAssumption DEF IsMessage
<1> DEFINE block == Stamp(bytes, "busyNet")
<1>4. block \in Received /\ BytesOf(block) \in Datagrams
  BY <1>3, StampFacts, BytesOfStamp
<1> HIDE DEF block
<1>5. socket \in Seq(Received) /\ socket' = Append(socket, block)
  BY <1>2 DEF StreamInv, DiscardInv, TypeInv, block
<1>6. /\ Len(socket') = Len(socket) + 1
      /\ \A i \in 1..Len(socket') : socket'[i] = IF i <= Len(socket) THEN socket[i] ELSE block
  BY <1>4, <1>5
<1>7. PacketsInv'
  BY <1>1, <1>4, <1>5, <1>6 DEF StreamInv, PacketsInv
<1>8. Intact => Intact'
  BY <1>1 DEF Intact, OuterCallsDone, Unparsed, Parsing, Unsent
<1>9. DiscardInv'
  BY DatagramStep DEF StreamInv
<1>10. QED
  BY <1>1, <1>7, <1>8, <1>9 DEF StreamInv

(* A new call has its data to parse, and those around it what they have.   *)
LEMMA NewCall ==
  ASSUME TypeInv, NEW data \in Received, NEW ignore \in BOOLEAN,
         NEW then \in {"events", "midi", "purge"},
         ParseMIDIBytes(data, ignore, then),
         \A k \in 1..Len(calls) : calls[k].rest = <<>>
  PROVE  Parsing' = BytesOf(data) /\ OuterCallsDone'
<1> DEFINE c == [rest |-> data, bIgnoreNoteOns |-> ignore, then |-> then]
<1>1. calls' = <<c>> \o calls
  BY DEF ParseMIDIBytes
<1>2. c \in Call /\ c.rest = data
  BY DEF Call
<1> HIDE DEF c
<1>3. calls \in Seq(Call) /\ Len(calls) \in Nat
  BY DEF TypeInv
<1>4. /\ calls' \in Seq(Call) /\ Len(calls') = Len(calls) + 1 /\ calls'[1] = c
      /\ \A k \in 1..Len(calls) : calls'[k + 1] = calls[k]
      /\ calls' # <<>>
  BY <1>1, <1>2, <1>3, ConsFacts
<1>5. Parsing' = BytesOf(data)
  BY <1>2, <1>4 DEF Parsing
<1>6. ASSUME NEW k \in 2..Len(calls') PROVE calls'[k].rest = <<>>
  <2>1. k - 1 \in 1..Len(calls) /\ (k - 1) + 1 = k
    BY <1>3, <1>4
  <2>2. calls'[k] = calls[k - 1]
    BY <1>4, <2>1
  <2>3. QED
    BY <2>1, <2>2
<1>7. QED
  BY <1>5, <1>6 DEF OuterCallsDone

(* When nothing is being parsed, or only the end of it is.  *)
LEMMA NothingLeft ==
  ASSUME TypeInv, \A k \in 1..Len(calls) : calls[k].rest = <<>>
  PROVE  Parsing = <<>> /\ Unparsed = BytesOf(m_MIDIRxBuffer) \o Unsent
<1>1. Parsing = <<>>
  <2>1. CASE calls = <<>>
    BY <2>1 DEF Parsing
  <2>2. CASE calls # <<>>
    <3>1. 1 \in 1..Len(calls)
      BY <2>2, TailFacts DEF TypeInv
    <3>2. calls[1].rest = <<>>
      BY <3>1
    <3>3. QED
      BY <2>2, <3>2, BytesOfNothing DEF Parsing
  <2>3. QED
    BY <2>1, <2>2
<1>2. BytesOf(m_MIDIRxBuffer) \o Unsent \in Seq(0..255)
  BY UnparsedIsBytes
<1> DEFINE u == BytesOf(m_MIDIRxBuffer) \o Unsent
<1> HIDE DEF u
<1>3. <<>> \o u = u
  BY <1>2, ConcatEmptySeq DEF u
<1>4. QED
  BY <1>1, <1>3 DEF Unparsed, u

(* The queue is handed to a call, and comes no later for that.             *)
LEMMA QueueParsed ==
  ASSUME TypeInv, NEW ignore \in BOOLEAN, NEW then \in {"events", "midi", "purge"},
         ParseMIDIBytes(m_MIDIRxBuffer, ignore, then), m_MIDIRxBuffer' = <<>>,
         sending' = sending, \A k \in 1..Len(calls) : calls[k].rest = <<>>
  PROVE  Unparsed' = Unparsed /\ OuterCallsDone'
<1>1. Parsing' = BytesOf(m_MIDIRxBuffer) /\ OuterCallsDone'
  <2>1. m_MIDIRxBuffer \in Received
    BY DEF TypeInv
  <2>2. QED
    BY <2>1, NewCall
<1>2. Unsent' = Unsent
  BY DEF Unsent
<1>3. <<>> \o Unsent = Unsent
  BY UnparsedIsBytes, ConcatEmptySeq
<1>4. Unparsed' = BytesOf(m_MIDIRxBuffer) \o Unsent
  BY <1>1, <1>2, <1>3, BytesOfNothing DEF Unparsed
<1>5. QED
  BY <1>1, <1>4, NothingLeft

(* UpdateMIDI hands the queue on: what is left to parse is the same. *)
LEMMA StreamUpdate == StreamInv /\ UpdateMIDI => StreamInv'
<1> SUFFICES ASSUME StreamInv, UpdateMIDI PROVE StreamInv'
  OBVIOUS
<1>1. /\ pc = "midi" /\ m_MIDIRxBuffer' = <<>>
      /\ UNCHANGED <<sending, socket, parser, torn, overrun>>
  BY DEF UpdateMIDI, senders, parsing
<1>2. calls = <<>> /\ TypeInv
  BY <1>1 DEF StreamInv, DiscardInv, CallsInv
<1>3. DiscardInv' /\ PacketsInv'
  BY <1>1, UpdateStep DEF StreamInv, PacketsInv
<1>4. Unparsed' = Unparsed /\ (OuterCallsDone => OuterCallsDone')
  <2>1. CASE m_MIDIRxBuffer = <<>>
    BY <1>1, <2>1 DEF UpdateMIDI, Unparsed, Parsing, Unsent, OuterCallsDone
  <2>2. CASE m_MIDIRxBuffer # <<>>
    <3>1. ParseMIDIBytes(m_MIDIRxBuffer, FALSE, "events")
      BY <2>2 DEF UpdateMIDI
    <3>2. \A k \in 1..Len(calls) : calls[k].rest = <<>>
      BY <1>2
    <3>3. QED
      BY <1>1, <1>2, <3>1, <3>2, QueueParsed
  <2>3. QED
    BY <2>1, <2>2
<1>5. Intact => Intact'
  BY <1>1, <1>4 DEF Intact
<1>6. QED
  BY <1>1, <1>3, <1>5 DEF StreamInv

(* So does a purge, unless that tears a message. *)
LEMMA StreamPurge == StreamInv /\ PurgeTurn => StreamInv'
<1> SUFFICES ASSUME StreamInv, PurgeTurn PROVE StreamInv'
  OBVIOUS
<1>1. /\ m_MIDIRxBuffer' = <<>> /\ Overtakes
      /\ ParseMIDIBytes(m_MIDIRxBuffer, TRUE, "purge")
      /\ UNCHANGED <<sending, socket, parser, overrun>>
  BY DEF PurgeTurn, senders
<1>2. TypeInv
  BY DEF StreamInv, DiscardInv
<1>3. DiscardInv' /\ PacketsInv'
  BY <1>1, PurgeTurnStep DEF StreamInv, PacketsInv
<1>4. ASSUME ~overrun', ~torn' PROVE Intact'
  <2>1. ~torn /\ \A k \in 1..Len(calls) : calls[k].rest = <<>>
    BY <1>1, <1>4 DEF Overtakes
  <2>2. Unparsed' = Unparsed /\ OuterCallsDone'
    BY <1>1, <1>2, <2>1, QueueParsed
  <2>3. Intact
    BY <1>1, <1>4, <2>1 DEF StreamInv
  <2>4. QED
    BY <1>1, <2>2, <2>3 DEF Intact
<1>5. QED
  BY <1>3, <1>4 DEF StreamInv

(* A datagram is parsed before what else there is, between two messages.   *)
LEMMA StreamYield == StreamInv /\ Yield => StreamInv'
<1> SUFFICES ASSUME StreamInv, Yield PROVE StreamInv'
  OBVIOUS
<1>1. /\ pc = "yield" /\ UNCHANGED <<sending, m_MIDIRxBuffer, parser, overrun>>
  BY DEF Yield, senders
<1>2. calls = <<>> /\ TypeInv
  BY <1>1 DEF StreamInv, DiscardInv, CallsInv
<1>3. DiscardInv'
  BY YieldStep DEF StreamInv
<1>4. CASE socket = <<>>
  <2>1. UNCHANGED <<calls, socket, torn>>
    BY <1>4 DEF Yield
  <2>2. QED
    BY <1>1, <1>3, <2>1
    DEF StreamInv, PacketsInv, Intact, OuterCallsDone, Unparsed, Parsing, Unsent
<1>5. CASE socket # <<>>
  <2> DEFINE data == Head(socket)
             d == BytesOf(data)
             u == BytesOf(m_MIDIRxBuffer) \o Unsent
  <2>1. /\ ParseMIDIBytes(data, FALSE, "midi") /\ socket' = Tail(socket)
        /\ torn' = (torn \/ parser.m_State # "StatusByte")
    BY <1>5 DEF Yield
  <2>2. /\ data \in Received /\ data = socket[1]
        /\ Len(Tail(socket)) = Len(socket) - 1 /\ Len(socket) \in Nat \ {0}
        /\ \A k \in 1..Len(Tail(socket)) : Tail(socket)[k] = socket[k + 1]
    BY <1>2, <1>5, TailFacts DEF TypeInv
  <2>3. PacketsInv'
    <3>1. \A k \in 1..Len(Tail(socket)) : k + 1 \in 1..Len(socket)
      BY <2>2
    <3>2. QED
      BY <1>1, <2>1, <2>2, <3>1 DEF StreamInv, PacketsInv
  <2>4. d \in Sent
    BY <2>2 DEF StreamInv, PacketsInv, Sent
  <2>5. ASSUME ~overrun', ~torn' PROVE Intact'
    <3>1. Intact /\ parser.m_State = "StatusByte"
      BY <1>1, <2>1, <2>5 DEF StreamInv
    <3>2. \A k \in 1..Len(calls) : calls[k].rest = <<>>
      BY <1>2
    <3>3. Unparsed = u
      BY <1>2, <3>2, NothingLeft
    <3>4. Between(parser) /\ u \in Whole
      BY <3>1, <3>3 DEF Intact, Following, Within
    <3>5. Parsing' = d /\ OuterCallsDone'
      BY <1>2, <2>1, <2>2, <3>2, NewCall
    <3>6. Unparsed' = d \o u
      BY <1>1, <3>5 DEF Unparsed, Unsent
    <3> HIDE DEF d, u
    <3>7. d \o u \in Whole
      BY <2>4, <3>4, WholeBefore
    <3>8. QED
      BY <1>1, <3>1, <3>4, <3>5, <3>6, <3>7 DEF Intact, Following
  <2>6. QED
    BY <1>3, <2>3, <2>5 DEF StreamInv
<1>6. QED
  BY <1>4, <1>5

(* Events and switches that begin take nothing. *)
LEMMA StreamPasses ==
  StreamInv /\ (ProcessEventQueue \/ DeferredSwitch \/ SwitchSucceeds) => StreamInv'
<1> SUFFICES ASSUME StreamInv, ProcessEventQueue \/ DeferredSwitch \/ SwitchSucceeds
             PROVE  StreamInv'
  OBVIOUS
<1>1. UNCHANGED <<sending, overrun, m_MIDIRxBuffer, socket, parser, torn, calls>>
  BY DEF ProcessEventQueue, DeferredSwitch, SwitchSucceeds, senders, parsing
<1>2. DiscardInv'
  BY EventSteps, SwitchSucceedsStep DEF StreamInv
<1>3. QED
  BY <1>1, <1>2
  DEF StreamInv, PacketsInv, Intact, OuterCallsDone, Unparsed, Parsing, Unsent

(* Whoever has part of a message has not its EOX.                          *)
LEMMA NoEndWithin ==
  ASSUME NEW p, NEW m, IsMessage(m), NEW j \in 1..(Len(m) - 1), Within(p, m, j)
  PROVE  p.m_State # "StatusByte" /\ p.m_MessageBuffer[p.m_nMessageLength - 1] # 247
<1>1. Len(m) \in Nat /\ Len(m) > 1 /\ j \in 1..Len(m)
  BY MessageFacts
<1>2. p.m_nMessageLength = j /\ p.m_MessageBuffer[j - 1] = m[j]
  <2>1. p.m_nMessageLength = j /\ \A i \in 1..j : p.m_MessageBuffer[i - 1] = m[i]
    BY DEF Within, Holds
  <2>2. j \in 1..j
    BY <1>1
  <2>3. QED
    BY <2>1, <2>2
<1>3. m[j] # 247
  <2>1. CASE j = 1
    <3>1. IsShort(m) \/ IsSysEx(m)
      BY <1>1, MessageFacts
    <3>2. m[1] # 247
      <4>1. CASE IsShort(m)
        BY <4>1 DEF IsShort
      <4>2. CASE IsSysEx(m)
        BY <4>2 DEF IsSysEx
      <4>3. QED
        BY <3>1, <4>1, <4>2
    <3>4. QED
      BY <2>1, <3>2
  <2>2. CASE j # 1
    <3>1. j \in 2..Len(m) /\ j < Len(m)
      BY <1>1, <2>2
    <3>2. ~P!IsStatus(m[j]) /\ m[j] \in 0..255
      BY <3>1, DataFacts
    <3>3. QED
      BY <3>2 DEF P!IsStatus
  <2>3. QED
    BY <2>1, <2>2
<1>4. QED
  BY <1>2, <1>3 DEF Within

(* The parser that a switch resets has no message in progress, or one that *)
(* is torn by that.                                                        *)
LEMMA ResetBetween ==
  ASSUME NEW p, NEW u, Following(p, u),
         ~(/\ p.m_State # "StatusByte"
           /\ 247 # p.m_MessageBuffer[p.m_nMessageLength - 1])
  PROVE  Between(p) /\ u \in Whole
<1>1. ASSUME NEW m \in Sent, NEW j \in 1..(Len(m) - 1), Within(p, m, j) PROVE FALSE
  BY <1>1, SentFacts, NoEndWithin
<1>2. QED
  BY <1>1 DEF Following

(* A reset between two messages, or at an EOX, loses nothing. *)
LEMMA ResetFollows ==
  ASSUME NEW p, Sound(p), NEW u, Following(p, u),
         ~(/\ p.m_State # "StatusByte"
           /\ 247 # p.m_MessageBuffer[p.m_nMessageLength - 1])
  PROVE  Following(P!ResetState(p, TRUE), u)
<1>1. Between(p) /\ u \in Whole
  BY ResetBetween
<1> DEFINE q == P!ResetState(p, TRUE)
<1>2. q.m_State = "StatusByte" /\ q.m_nMessageLength = 0
  BY ResetFacts
<1> HIDE DEF q
<1>3. Following(q, u)
  BY <1>1, <1>2 DEF Following, Between
<1>4. QED
  BY <1>3 DEF q

(* A switch returns: ResetState loses nothing, or tears a message. *)
LEMMA StreamSwitchEnds == StreamInv /\ (SwitchFails \/ PurgeEnds) => StreamInv'
<1> SUFFICES ASSUME StreamInv, SwitchFails \/ PurgeEnds PROVE StreamInv'
  OBVIOUS
<1>1. /\ UNCHANGED <<sending, overrun, m_MIDIRxBuffer, socket, calls>>
      /\ SwitchReturns
  BY DEF SwitchFails, PurgeEnds, senders
<1>2. Sound(parser)
  BY DEF StreamInv, DiscardInv, TypeInv
<1>3. DiscardInv' /\ PacketsInv'
  BY <1>1, SwitchEnds DEF StreamInv, PacketsInv
<1>4. Unparsed' = Unparsed /\ (OuterCallsDone => OuterCallsDone')
  BY <1>1 DEF Unparsed, Parsing, Unsent, OuterCallsDone
<1>5. CASE UNCHANGED <<parser, torn>>
  BY <1>1, <1>3, <1>4, <1>5 DEF StreamInv, Intact
<1>6. CASE /\ parser' = P!ResetState(parser, TRUE)
           /\ torn' = (torn \/ /\ parser.m_State # "StatusByte"
                               /\ 247 # parser.m_MessageBuffer[parser.m_nMessageLength - 1])
  <2>1. ASSUME ~overrun', ~torn' PROVE Intact'
    <3> DEFINE tears == /\ parser.m_State # "StatusByte"
                        /\ 247 # parser.m_MessageBuffer[parser.m_nMessageLength - 1]
    <3>t. torn' = (torn \/ tears)
      BY <1>6
    <3> HIDE DEF tears
    <3>0. ~torn /\ ~tears
      BY <2>1, <3>t
    <3>1. /\ ~torn
          /\ ~(/\ parser.m_State # "StatusByte"
               /\ 247 # parser.m_MessageBuffer[parser.m_nMessageLength - 1])
      BY <3>0 DEF tears
    <3>2. Intact
      BY <1>1, <2>1, <3>1 DEF StreamInv
    <3>3. Following(P!ResetState(parser, TRUE), Unparsed)
      BY <1>2, <3>1, <3>2, ResetFollows DEF Intact
    <3>4. P!ResetState(parser, TRUE).calls = parser.calls
      BY <1>2, ResetFacts
    <3>5. QED
      BY <1>4, <1>6, <3>2, <3>3, <3>4 DEF Intact
  <2>2. QED
    BY <1>3, <2>1 DEF StreamInv
<1>7. QED
  BY <1>1, <1>5, <1>6 DEF SwitchReturns

(* A call that is over leaves nothing, and nor do those around it.         *)
LEMMA StreamParseReturns == StreamInv /\ ParseReturns => StreamInv'
<1> SUFFICES ASSUME StreamInv, ParseReturns PROVE StreamInv'
  OBVIOUS
<1>1. /\ UNCHANGED <<sending, overrun, m_MIDIRxBuffer, socket, parser, torn>>
      /\ pc = "parse" /\ Head(calls).rest = <<>> /\ calls' = Tail(calls)
  BY DEF ParseReturns, senders, parsing
<1>2. TypeInv /\ calls # <<>>
  BY <1>1 DEF StreamInv, DiscardInv, CallsInv
<1>3. DiscardInv' /\ PacketsInv' /\ TypeInv'
  BY <1>1, ParseReturnsStep DEF StreamInv, PacketsInv, DiscardInv
<1>4. /\ Head(calls) = calls[1]
      /\ Len(Tail(calls)) = Len(calls) - 1 /\ Len(calls) \in Nat \ {0}
      /\ \A k \in 1..Len(Tail(calls)) : Tail(calls)[k] = calls[k + 1]
  BY <1>2, TailFacts DEF TypeInv
<1>5. ASSUME Intact PROVE Intact'
  <2>1. \A k \in 1..Len(calls) : calls[k].rest = <<>>
    <3>1. \A k \in 1..Len(calls) : k = 1 \/ k \in 2..Len(calls)
      BY <1>4
    <3>2. QED
      BY <1>1, <1>4, <1>5, <3>1 DEF Intact, OuterCallsDone
  <2>2. \A k \in 1..Len(calls') : calls'[k].rest = <<>>
    <3>1. \A k \in 1..Len(calls') : calls'[k] = calls[k + 1] /\ k + 1 \in 1..Len(calls)
      BY <1>1, <1>4
    <3>2. QED
      BY <2>1, <3>1
  <2>3. Parsing = <<>>
    BY <1>2, <2>1, NothingLeft
  <2>4. Parsing' = <<>>
    <3>1. CASE calls' = <<>>
      BY <3>1 DEF Parsing
    <3>2. CASE calls' # <<>>
      <4>1. 1 \in 1..Len(calls')
        BY <1>3, <3>2, TailFacts DEF TypeInv
      <4>2. calls'[1].rest = <<>>
        BY <2>2, <4>1
      <4>3. QED
        BY <3>2, <4>2, BytesOfNothing DEF Parsing
    <3>3. QED
      BY <3>1, <3>2
  <2>5. Unparsed' = Unparsed
    BY <1>1, <2>3, <2>4 DEF Unparsed, Unsent
  <2>6. OuterCallsDone'
    <3>1. \A k \in 2..Len(calls') : k \in 1..Len(calls')
      OBVIOUS
    <3>2. QED
      BY <2>2, <3>1 DEF OuterCallsDone
  <2>7. QED
    BY <1>1, <1>5, <2>5, <2>6 DEF Intact
<1>6. QED
  BY <1>1, <1>3, <1>5 DEF StreamInv

(* Where the parser is does not depend on what it has reported. *)
LEMMA FollowingForgets ==
  ASSUME NEW p, Sound(p), NEW u
  PROVE  Following([p EXCEPT !.calls = <<>>], u) <=> Following(p, u)
<1> DEFINE q == [p EXCEPT !.calls = <<>>]
<1>1. /\ q.m_State = p.m_State /\ q.m_nMessageLength = p.m_nMessageLength
      /\ q.m_MessageBuffer = p.m_MessageBuffer
  BY DEF Sound
<1> HIDE DEF q
<1>2. Between(q) <=> Between(p)
  BY <1>1 DEF Between
<1>3. \A m, j : Within(q, m, j) <=> Within(p, m, j)
  BY <1>1 DEF Within, Holds
<1>4. Following(q, u) <=> Following(p, u)
  BY <1>2, <1>3 DEF Following
<1>5. QED
  BY <1>4 DEF q

(* A byte is taken off what is to come, and nothing else. *)
LEMMA ByteTaken ==
  ASSUME TypeInv, CallsInv, ParseByte
  PROVE  LET b == Head(Head(calls).rest).byte
         IN  /\ Unparsed # <<>> /\ b \in 0..255
             /\ Head(Unparsed) = b /\ Tail(Unparsed) = Unparsed'
             /\ OuterCallsDone => OuterCallsDone'
<1> DEFINE call == Head(calls)
           b == Head(call.rest).byte
           next == [call EXCEPT !.rest = Tail(@)]
           t == BytesOf(Tail(call.rest))
           u == BytesOf(m_MIDIRxBuffer) \o Unsent
<1>1. /\ UNCHANGED <<sending, m_MIDIRxBuffer>>
      /\ pc = "parse" /\ call.rest # <<>>
      /\ calls' = <<next>> \o Tail(calls)
  BY DEF ParseByte, senders
<1>2. calls \in Seq(Call) /\ calls # <<>>
  BY <1>1 DEF TypeInv, CallsInv
<1>3. /\ call \in Call /\ call = calls[1] /\ Tail(calls) \in Seq(Call)
      /\ Len(Tail(calls)) = Len(calls) - 1 /\ Len(calls) \in Nat \ {0}
      /\ \A k \in 1..Len(Tail(calls)) : Tail(calls)[k] = calls[k + 1]
  BY <1>2, TailFacts
<1>4. call.rest \in Received
  BY <1>3 DEF Call
<1>5. /\ b \in 0..255 /\ Tail(call.rest) \in Received
      /\ BytesOf(call.rest) = <<b>> \o t
  BY <1>1, <1>4, BytesOfTail
<1>6. next \in Call /\ next.rest = Tail(call.rest)
  BY <1>3, <1>5 DEF Call
<1> HIDE DEF next, b
<1>7. /\ Len(calls') = Len(calls) /\ calls'[1] = next /\ calls' # <<>>
      /\ \A k \in 1..Len(Tail(calls)) : calls'[k + 1] = Tail(calls)[k]
  BY <1>1, <1>3, <1>6, ConsFacts
<1>8. OuterCallsDone => OuterCallsDone'
  <2>1. ASSUME NEW k \in 2..Len(calls') PROVE calls'[k] = calls[k]
    <3>1. k - 1 \in 1..Len(Tail(calls)) /\ (k - 1) + 1 = k
      BY <1>3, <1>7
    <3>2. QED
      BY <1>3, <1>7, <3>1
  <2>2. QED
    BY <1>7, <2>1 DEF OuterCallsDone
<1>9. t \in Seq(0..255) /\ u \in Seq(0..255)
  BY <1>5, BytesOfFacts, UnparsedIsBytes
<1>10. Unparsed = (<<b>> \o t) \o u
  BY <1>2, <1>3, <1>5 DEF Unparsed, Parsing
<1>11. Unparsed' = t \o u
  BY <1>1, <1>6, <1>7 DEF Unparsed, Parsing, Unsent
<1> HIDE DEF t, u
<1>12. <<b>> \in Seq(0..255)
  BY <1>5
<1>13. Unparsed = <<b>> \o (t \o u)
  BY <1>9, <1>10, <1>12, ConcatAssociative
<1>14. t \o u \in Seq(0..255)
  BY <1>9, JoinFacts
<1> DEFINE v == t \o u
<1> HIDE DEF v
<1>15. v \in Seq(0..255) /\ Unparsed = <<b>> \o v /\ Unparsed' = v
  BY <1>11, <1>13, <1>14 DEF v
<1>16. <<b>> \o v # <<>>
  BY <1>5, <1>15, ConsFacts
<1>17. Head(<<b>> \o v) = b /\ Tail(<<b>> \o v) = v
  BY <1>5, <1>15, HeadTailCons
<1>18. QED
  BY <1>5, <1>8, <1>15, <1>16, <1>17 DEF b

(* The note-offs reported in a step are played. *)
Played == playedOffs \in Nat => playedOffs' = playedOffs + Offs(parser'.calls)

(* The parser follows, whether it goes on or is waiting for a switch.      *)
LEMMA ByteFollowed ==
  ASSUME TypeInv, CallsInv, ParseByte, Following(parser, Unparsed)
  PROVE  LET p == [parser EXCEPT !.calls = <<>>]
             b == Head(Head(calls).rest).byte
         IN  Follows(p, b, parser', Unparsed') /\ Played
<1> DEFINE call == Head(calls)
           b == Head(call.rest).byte
           p == [parser EXCEPT !.calls = <<>>]
           q == P!Store(p, b)
           r == P!ParseByte(p, b, call.bIgnoreNoteOns)
           c == P!Call(q, "sysex", P!Message(q))
<1>1. \/ /\ EndsSysEx(b) /\ parser' = c /\ UNCHANGED playedOffs
      \/ parser' = r /\ playedOffs' = playedOffs + Offs(r.calls)
  BY DEF ParseByte
<1>2. /\ Unparsed # <<>> /\ b \in 0..255
      /\ Head(Unparsed) = b /\ Tail(Unparsed) = Unparsed'
  BY ByteTaken
<1>3. call.bIgnoreNoteOns \in BOOLEAN
  <2>1. pc = "parse"
    BY DEF ParseByte
  <2>2. calls \in Seq(Call) /\ calls # <<>>
    BY <2>1 DEF TypeInv, CallsInv
  <2>3. call \in Call
    BY <2>2, TailFacts
  <2>4. QED
    BY <2>3 DEF Call
<1>4. Sound(p) /\ p.calls = <<>> /\ Following(p, Unparsed)
  BY CallsForgotten, FollowingForgets DEF TypeInv
<1>5. p.m_State = parser.m_State
  BY DEF TypeInv, Sound
<1> HIDE DEF b, p, call
<1>6. CASE /\ EndsSysEx(b) /\ parser' = c /\ UNCHANGED playedOffs
  <2>1. b = 247 /\ p.m_State = "SysExByte"
    BY <1>5, <1>6 DEF EndsSysEx
  <2>2. /\ Follows(p, 247, c, Tail(Unparsed))
        /\ OffIn(p) = OffIn(c)
    BY <1>2, <1>4, <2>1, FollowsSysEx
  <2> HIDE DEF c
  <2>3. Offs(c.calls) \in Nat /\ OffIn(p) + One(247) = Offs(c.calls) + OffIn(c)
    BY <2>2 DEF Follows, Balanced
  <2>4. One(247) = 0 /\ OffIn(p) \in Nat
    BY DEF One, NoteOff, OffIn
  <2>5. Offs(c.calls) = 0
    <3> DEFINE d == OffIn(p)
               f == Offs(c.calls)
    <3>1. d \in Nat /\ f \in Nat /\ d + 0 = f + d
      BY <2>2, <2>3, <2>4
    <3> HIDE DEF d, f
    <3>2. f = 0
      BY <3>1
    <3>3. QED
      BY <3>2 DEF f
  <2>6. playedOffs' = playedOffs
    BY <1>6
  <2>7. Follows(p, b, parser', Unparsed')
    BY <1>2, <1>6, <2>1, <2>2
  <2>8. Played
    BY <1>6, <2>5, <2>6 DEF Played
  <2>9. QED
    BY <2>7, <2>8 DEF p, b, call
<1>7. CASE parser' = r /\ playedOffs' = playedOffs + Offs(r.calls)
  <2>1. Follows(p, Head(Unparsed), P!ParseByte(p, Head(Unparsed), call.bIgnoreNoteOns),
                Tail(Unparsed))
    BY <1>2, <1>3, <1>4, FollowsByte
  <2>2. Follows(p, b, r, Unparsed')
    BY <1>2, <2>1
  <2> HIDE DEF r
  <2>3. Follows(p, b, parser', Unparsed') /\ Played
    BY <1>7, <2>2 DEF Played
  <2>4. QED
    BY <2>3 DEF p, b, call
<1>8. QED
  BY <1>1, <1>6, <1>7

(* One byte is parsed, and the parser follows. *)
LEMMA StreamParseByte == StreamInv /\ ParseByte => StreamInv'
<1> SUFFICES ASSUME StreamInv, ParseByte PROVE StreamInv'
  OBVIOUS
<1>1. UNCHANGED <<sending, overrun, socket, torn>>
  BY DEF ParseByte, senders
<1>2. TypeInv /\ CallsInv
  BY DEF StreamInv, DiscardInv
<1>3. DiscardInv' /\ PacketsInv'
  BY <1>1, ParseByteStep DEF StreamInv, PacketsInv
<1>4. ASSUME Intact PROVE Intact'
  <2>1. OuterCallsDone'
    BY <1>2, <1>4, ByteTaken DEF Intact
  <2>2. Following(parser', Unparsed') /\ SentBy(parser'.calls)
    BY <1>2, <1>4, ByteFollowed DEF Intact, Follows
  <2>3. QED
    BY <2>1, <2>2 DEF Intact
<1>5. QED
  BY <1>1, <1>3, <1>4 DEF StreamInv

(* Nothing changes when nothing does. *)
LEMMA StreamStutters == StreamInv /\ UNCHANGED vars => StreamInv'
<1> SUFFICES ASSUME StreamInv, UNCHANGED vars PROVE StreamInv'
  OBVIOUS
<1>1. UNCHANGED <<sending, overrun, m_MIDIRxBuffer, socket, parser, torn, calls>>
  BY DEF vars, senders, parsing
<1>2. DiscardInv'
  BY InputStutters DEF StreamInv
<1>3. QED
  BY <1>1, <1>2
  DEF StreamInv, PacketsInv, Intact, OuterCallsDone, Unparsed, Parsing, Unsent

(* Unless bytes were lost or a message torn, what is still to be parsed    *)
(* goes on where the parser is, and what it has just reported was sent.    *)
THEOREM StreamInvariant == Spec => []StreamInv
<1>1. StreamInv /\ [Next]_vars => StreamInv'
  BY StreamReceive, StreamDatagram, StreamUpdate, StreamPurge, StreamYield,
     StreamPasses, StreamSwitchEnds, StreamParseReturns, StreamParseByte,
     StreamStutters
  DEF Next, MainTask
<1>2. QED
  BY <1>1, StreamStarts, PTL DEF Spec

(* Purging and the parser's re-entry invent nothing. *)
THEOREM NothingInvented == Spec => []OnlyWhatWasSent
<1>1. SentBy(parser.calls) => Reported("short") \cup Reported("sysex") \subseteq Sent
  BY DEF SentBy, Reported
<1>2. StreamInv => OnlyWhatWasSent
  BY <1>1 DEF StreamInv, Intact, OnlyWhatWasSent
<1>3. QED
  BY <1>2, StreamInvariant, PTL

----------------------------------------------------------------------------
(* Counting the note-offs that wait. *)

Places(lists) == Cardinality(OffPlaces(lists))

(* Those of some data. *)
OffsOf(data) == Places(<<data>>)

LongestFacts == Longest \in Nat /\ Longest >= 3 /\ Longest >= Capacity

LEMMA LongestIs == LongestFacts
  BY CapacityAssumption DEF LongestFacts, Longest

(* Sets in bijection have as many elements, *)
LEMMA SameNumber ==
  ASSUME NEW S, NEW T, IsFiniteSet(S), NEW f \in [S -> T],
         \A x, y \in S : f[x] = f[y] => x = y,
         \A t \in T : \E x \in S : f[x] = t
  PROVE  Cardinality(T) = Cardinality(S)
<1>1. f \in Bijection(S, T)
  BY Fun_IsBij
<1>2. ExistsBijection(S, T)
  BY <1>1 DEF ExistsBijection
<1>3. QED
  BY <1>2, FS_Bijection

(* and disjoint ones as many as both. *)
LEMMA DisjointSum ==
  ASSUME NEW A, NEW T, IsFiniteSet(A), IsFiniteSet(T), A \cap T = {}
  PROVE  Cardinality(A \cup T) = Cardinality(A) + Cardinality(T)
<1> DEFINE i == Cardinality(A)
           j == Cardinality(T)
           k == Cardinality(A \cap T)
<1>1. Cardinality(A \cup T) = i + j - k
  BY FS_Union
<1>2. i \in Nat /\ j \in Nat /\ k = 0
  BY FS_EmptySet, FS_CardinalityType
<1> HIDE DEF i, j, k
<1>3. Cardinality(A \cup T) = i + j
  BY <1>1, <1>2
<1>4. QED
  BY <1>3 DEF i, j

(* The places of note-offs can be counted. *)
LEMMA PlacesFinite ==
  ASSUME NEW lists, Len(lists) \in Nat
  PROVE  IsFiniteSet(OffPlaces(lists)) /\ Places(lists) \in Nat
<1> DEFINE n == Len(lists)
           S == (1..n) \X (1..Longest)
<1>1. IsFiniteSet(1..n) /\ IsFiniteSet(1..Longest)
  BY FS_Interval, LongestIs DEF LongestFacts
<1>2. IsFiniteSet(S)
  BY <1>1, FS_Product
<1>3. OffPlaces(lists) \in SUBSET S
  BY DEF OffPlaces
<1>4. QED
  BY <1>2, <1>3, FS_Subset, FS_CardinalityType DEF Places

(* The note-offs of lists put together. *)
LEMMA PlacesJoined ==
  ASSUME NEW a \in Seq(Received), NEW b \in Seq(Received)
  PROVE  Places(a \o b) = Places(a) + Places(b)
<1> DEFINE n == Len(a)
           m == Len(b)
           c == a \o b
           A == OffPlaces(a)
           B == OffPlaces(b)
           C == OffPlaces(c)
           T == {at \in C : at[1] > n}
<1>1. n \in Nat /\ m \in Nat /\ Len(c) = n + m
  BY JoinFacts
<1>2. \A i \in 1..(n + m) : c[i] = IF i <= n THEN a[i] ELSE b[i - n]
  BY JoinedElements
<1>3. IsFiniteSet(A) /\ IsFiniteSet(B) /\ IsFiniteSet(C)
  BY <1>1, PlacesFinite
<1>a. \A i, k : <<i, k>> \in A <=>
        i \in 1..n /\ k \in 1..Longest /\ k <= Len(a[i]) /\ NoteOff(a[i][k].byte)
  BY DEF OffPlaces
<1>b. \A i, k : <<i, k>> \in B <=>
        i \in 1..m /\ k \in 1..Longest /\ k <= Len(b[i]) /\ NoteOff(b[i][k].byte)
  BY DEF OffPlaces
<1>c. \A i, k : <<i, k>> \in C <=>
        i \in 1..(n + m) /\ k \in 1..Longest /\ k <= Len(c[i]) /\ NoteOff(c[i][k].byte)
  BY <1>1 DEF OffPlaces
<1>p. /\ \A x \in A : x = <<x[1], x[2]>>
      /\ \A x \in B : x = <<x[1], x[2]>>
      /\ \A x \in C : x = <<x[1], x[2]>>
  BY DEF OffPlaces
<1> HIDE DEF A, B, C, c, n, m
<1>4. \A x \in A : x[1] \in 1..n
  BY <1>a, <1>p
<1>5. A = {x \in C : x[1] <= n}
  <2>1. ASSUME NEW x \in A PROVE x \in C /\ x[1] <= n
    <3>1. x[1] \in 1..(n + m) /\ x[1] <= n
      BY <1>1, <1>4
    <3>2. c[x[1]] = a[x[1]]
      BY <1>2, <3>1
    <3>3. <<x[1], x[2]>> \in C
      BY <1>a, <1>c, <1>p, <3>1, <3>2
    <3>4. QED
      BY <1>p, <3>1, <3>3
  <2>2. ASSUME NEW x \in C, x[1] <= n PROVE x \in A
    <3>1. x[1] \in 1..(n + m) /\ x[1] \in 1..n
      BY <1>1, <1>c, <1>p, <2>2
    <3>2. c[x[1]] = a[x[1]]
      BY <1>2, <2>2, <3>1
    <3>3. <<x[1], x[2]>> \in A
      BY <1>a, <1>c, <1>p, <3>1, <3>2
    <3>4. QED
      BY <1>p, <3>3
  <2>3. QED
    BY <2>1, <2>2
<1>6. Cardinality(T) = Cardinality(B)
  <2> DEFINE f == [x \in B |-> <<x[1] + n, x[2]>>]
  <2>1. ASSUME NEW x \in B PROVE <<x[1] + n, x[2]>> \in T
    <3>1. x[1] \in 1..m
      BY <1>b, <1>p
    <3>2. x[1] + n \in 1..(n + m) /\ x[1] + n > n /\ (x[1] + n) - n = x[1]
      BY <1>1, <3>1
    <3>3. c[x[1] + n] = b[x[1]]
      BY <1>1, <1>2, <3>1, <3>2
    <3>4. <<x[1] + n, x[2]>> \in C
      BY <1>b, <1>c, <1>p, <3>2, <3>3
    <3>5. QED
      BY <3>2, <3>4
  <2>2. f \in [B -> T]
    BY <2>1
  <2>3. ASSUME NEW x \in B, NEW y \in B, f[x] = f[y] PROVE x = y
    <3>1. x[1] \in 1..m /\ y[1] \in 1..m
      BY <1>b, <1>p
    <3>2. x[1] + n = y[1] + n /\ x[2] = y[2]
      BY <2>3
    <3>3. x[1] = y[1]
      BY <1>1, <3>1, <3>2
    <3>4. QED
      BY <1>p, <3>2, <3>3
  <2>4. ASSUME NEW t \in T PROVE \E x \in B : f[x] = t
    <3>1. t \in C /\ t[1] > n /\ t = <<t[1], t[2]>>
      BY <1>p
    <3>2. t[1] \in 1..(n + m)
      BY <1>c, <3>1
    <3>3. t[1] - n \in 1..m /\ (t[1] - n) + n = t[1]
      BY <1>1, <3>1, <3>2
    <3>4. c[t[1]] = b[t[1] - n]
      BY <1>1, <1>2, <3>1, <3>2
    <3>5. <<t[1] - n, t[2]>> \in B
      BY <1>b, <1>c, <3>1, <3>3, <3>4
    <3>6. f[<<t[1] - n, t[2]>>] = <<t[1], t[2]>>
      BY <3>3, <3>5
    <3>7. QED
      BY <3>1, <3>5, <3>6
  <2> HIDE DEF f, T
  <2>5. QED
    BY <1>3, <2>2, <2>3, <2>4, SameNumber
<1>7. C = A \cup T /\ A \cap T = {}
  <2>1. \A x \in C : x[1] \in 1..(n + m)
    BY <1>c, <1>p
  <2>2. \A x \in C : x[1] <= n \/ x[1] > n
    BY <1>1, <2>1
  <2>3. \A x \in C : ~(x[1] <= n /\ x[1] > n)
    BY <1>1, <2>1
  <2>4. QED
    BY <1>5, <2>2, <2>3
<1>8. IsFiniteSet(T)
  BY <1>3, FS_Subset
<1> HIDE DEF T
<1>9. Cardinality(C) = Cardinality(A) + Cardinality(T)
  BY <1>3, <1>7, <1>8, DisjointSum
<1>10. QED
  BY <1>6, <1>9 DEF Places, A, B, C, c

(* Empty lists have none. *)
LEMMA NoPlaces ==
  ASSUME NEW lists, \A i \in 1..Len(lists) : lists[i] = <<>>
  PROVE  Places(lists) = 0
<1>1. OffPlaces(lists) = {}
  <2>1. ASSUME NEW at \in OffPlaces(lists) PROVE FALSE
    <3>1. at[1] \in 1..Len(lists) /\ at[2] \in 1..Longest /\ at[2] <= Len(lists[at[1]])
      BY DEF OffPlaces
    <3>2. Len(lists[at[1]]) = 0
      BY <3>1
    <3>3. QED
      BY <3>1, <3>2
  <2>2. QED
    BY <2>1
<1>2. QED
  BY <1>1, FS_EmptySet DEF Places

(* The note-offs of data, by their places in it. *)
OffKeys(data) == {k \in 1..Len(data) : NoteOff(data[k].byte)}

(* Those of some data are the places in it. *)
LEMMA OffsByKey ==
  ASSUME NEW data \in Received, Len(data) <= Longest
  PROVE  /\ OffsOf(data) = Cardinality(OffKeys(data)) /\ OffsOf(data) \in Nat
         /\ IsFiniteSet(OffKeys(data))
<1> DEFINE lists == <<data>>
           K == OffKeys(data)
           P0 == OffPlaces(lists)
           f == [x \in K |-> <<1, x>>]
<1>1. Len(data) \in Nat /\ Longest \in Nat
  BY LongestIs DEF LongestFacts, Received
<1>2. IsFiniteSet(K)
  <2>1. IsFiniteSet(1..Len(data))
    BY <1>1, FS_Interval
  <2>2. QED
    BY <2>1, FS_Subset DEF OffKeys
<1>3. Len(lists) = 1 /\ lists[1] = data
  OBVIOUS
<1>4. \A i, k : <<i, k>> \in P0 <=> i = 1 /\ k \in K
  <2> HIDE DEF lists
  <2>1. \A i : i \in 1..Len(lists) <=> i = 1
    BY <1>3
  <2>2. \A k : k \in 1..Longest /\ k <= Len(data) <=> k \in 1..Len(data)
    BY <1>1
  <2>3. QED
    BY <1>3, <2>1, <2>2 DEF OffPlaces, OffKeys
<1>5. \A t \in P0 : t = <<t[1], t[2]>>
  BY DEF OffPlaces
<1> HIDE DEF K, P0, lists
<1>6. f \in [K -> P0]
  BY <1>4
<1>7. \A x, y \in K : f[x] = f[y] => x = y
  OBVIOUS
<1>8. ASSUME NEW t \in P0 PROVE \E x \in K : f[x] = t
  <2>1. t = <<t[1], t[2]>> /\ t[1] = 1 /\ t[2] \in K
    BY <1>4, <1>5
  <2>2. f[t[2]] = t
    BY <2>1
  <2>3. QED
    BY <2>1, <2>2
<1> HIDE DEF f
<1>9. Cardinality(P0) = Cardinality(K)
  BY <1>2, <1>6, <1>7, <1>8, SameNumber
<1>10. QED
  BY <1>2, <1>9, FS_CardinalityType DEF OffsOf, Places, K, P0, lists

(* The note-offs of data put together. *)
LEMMA OffsJoined ==
  ASSUME NEW a \in Received, NEW b \in Received, Len(a) + Len(b) <= Longest
  PROVE  OffsOf(a \o b) = OffsOf(a) + OffsOf(b)
<1> DEFINE n == Len(a)
           m == Len(b)
           c == a \o b
           A == OffKeys(a)
           B == OffKeys(b)
           C == OffKeys(c)
           T == {k \in C : k > n}
           f == [k \in B |-> k + n]
<1>1. /\ n \in Nat /\ m \in Nat /\ c \in Received /\ Len(c) = n + m
      /\ n <= Longest /\ m <= Longest /\ n + m <= Longest
  BY ReceivedJoined, LongestIs DEF Received, LongestFacts
<1>2. \A k \in 1..(n + m) : c[k] = IF k <= n THEN a[k] ELSE b[k - n]
  BY JoinedElements DEF Received
<1>3. /\ OffsOf(a) = Cardinality(A) /\ OffsOf(b) = Cardinality(B)
      /\ OffsOf(c) = Cardinality(C)
      /\ IsFiniteSet(A) /\ IsFiniteSet(B) /\ IsFiniteSet(C)
  BY <1>1, OffsByKey
<1>a. \A k : k \in A <=> k \in 1..n /\ NoteOff(a[k].byte)
  BY DEF OffKeys
<1>b. \A k : k \in B <=> k \in 1..m /\ NoteOff(b[k].byte)
  BY DEF OffKeys
<1>c. \A k : k \in C <=> k \in 1..(n + m) /\ NoteOff(c[k].byte)
  BY <1>1 DEF OffKeys
<1> HIDE DEF A, B, C, c, n, m
<1>4. \A k \in 1..n : k \in 1..(n + m) /\ k <= n /\ c[k] = a[k]
  BY <1>1, <1>2
<1>5. \A k \in 1..m : /\ k + n \in 1..(n + m) /\ k + n > n /\ ~(k + n <= n)
                      /\ (k + n) - n = k
  BY <1>1
<1>6. \A k \in 1..m : c[k + n] = b[k]
  BY <1>2, <1>5
<1>7. C = A \cup T /\ A \cap T = {}
  <2>1. \A k \in 1..(n + m) : k \in 1..n <=> ~(k > n)
    BY <1>1
  <2>2. \A k \in A : k \in C /\ ~(k > n)
    BY <1>a, <1>c, <1>4, <2>1
  <2>3. \A k \in C : k > n \/ k \in A
    BY <1>a, <1>c, <1>4, <2>1
  <2>4. QED
    BY <2>2, <2>3
<1>8. Cardinality(T) = Cardinality(B)
  <2>1. f \in [B -> T]
    BY <1>b, <1>c, <1>5, <1>6
  <2>2. \A x, y \in B : f[x] = f[y] => x = y
    <3>1. \A x, y \in B : x \in Int /\ y \in Int /\ n \in Int
      BY <1>1, <1>b
    <3>2. QED
      BY <3>1
  <2>3. ASSUME NEW t \in T PROVE \E x \in B : f[x] = t
    <3>1. t \in 1..(n + m) /\ t > n /\ NoteOff(c[t].byte)
      BY <1>c
    <3>2. t - n \in 1..m /\ (t - n) + n = t
      BY <1>1, <3>1
    <3>3. c[t] = b[t - n]
      BY <1>6, <3>2
    <3>4. t - n \in B
      BY <1>b, <3>1, <3>2, <3>3
    <3>5. f[t - n] = t
      BY <3>2, <3>4
    <3>6. QED
      BY <3>4, <3>5
  <2> HIDE DEF f, T
  <2>4. QED
    BY <1>3, <2>1, <2>2, <2>3, SameNumber
<1>9. IsFiniteSet(T)
  BY <1>3, FS_Subset
<1> HIDE DEF T
<1>10. Cardinality(C) = Cardinality(A) + Cardinality(T)
  BY <1>3, <1>7, <1>9, DisjointSum
<1>11. QED
  BY <1>3, <1>8, <1>10 DEF c

(* Data of which the first byte only may be a note-off. *)
LEMMA OffsOfMessage ==
  ASSUME NEW data \in Received, data # <<>>, Len(data) <= Longest,
         \A k \in 2..Len(data) : ~NoteOff(data[k].byte)
  PROVE  OffsOf(data) = One(data[1].byte)
<1>1. 1 \in 1..Len(data) /\ \A k \in 1..Len(data) : k = 1 \/ k \in 2..Len(data)
  BY TailFacts DEF Received
<1>2. OffKeys(data) = IF NoteOff(data[1].byte) THEN {1} ELSE {}
  BY <1>1 DEF OffKeys
<1>3. Cardinality({1}) = 1 /\ Cardinality({}) = 0
  BY FS_EmptySet, FS_Singleton
<1>4. OffsOf(data) = Cardinality(OffKeys(data))
  BY OffsByKey
<1> DEFINE K == OffKeys(data)
<1> HIDE DEF K
<1>5. Cardinality(K) = One(data[1].byte)
  <2>1. K = IF NoteOff(data[1].byte) THEN {1} ELSE {}
    BY <1>2 DEF K
  <2>2. QED
    BY <1>3, <2>1 DEF One
<1>6. QED
  BY <1>4, <1>5 DEF K

(* Data without a note-off has no place of one. *)
LEMMA NoOffsIn ==
  ASSUME NEW data \in Received, Len(data) <= Longest,
         \A k \in 1..Len(data) : ~NoteOff(data[k].byte)
  PROVE  OffsOf(data) = 0
<1>1. OffKeys(data) = {}
  BY DEF OffKeys
<1>2. QED
  BY <1>1, OffsByKey, FS_EmptySet

----------------------------------------------------------------------------
(* The invariant behind NoteOffsKept. *)

OffsParsing == IF calls = <<>> THEN 0 ELSE OffsOf(calls[1].rest)

(* The second packet of a message has no status byte but an EOX; what is   *)
(* handed to the parser are datagrams and queues.                          *)
SecondPackets ==
  \A i \in 1..Len(sending) : \A k \in 1..Len(sending[i]) : ~NoteOff(sending[i][k])
ShortRests == \A k \in 1..Len(calls) : Len(calls[k].rest) <= Longest

(* A note-off is played, in the queue, in a datagram, in what is being     *)
(* parsed, or begun.                                                       *)
Settled ==
  /\ playedOffs \in Nat
  /\ sentOffs = playedOffs + OffsOf(m_MIDIRxBuffer) + Places(socket) + OffsParsing
                  + OffIn(parser)

BalanceInv ==
  /\ StreamInv /\ SecondPackets /\ ShortRests /\ sentOffs \in Nat
  /\ ~overrun /\ ~torn => Settled

(* The data that waits is short, so that its note-offs are counted. *)
LEMMA ShortData ==
  ASSUME TypeInv, PacketsInv
  PROVE  /\ m_MIDIRxBuffer \in Received /\ Len(m_MIDIRxBuffer) <= Longest
         /\ socket \in Seq(Received) /\ Places(socket) \in Nat
         /\ \A i \in 1..Len(socket) : Len(socket[i]) <= Longest
         /\ OffsOf(m_MIDIRxBuffer) \in Nat
<1>1. Longest \in Nat /\ Longest >= 3 /\ Longest >= Capacity /\ Capacity \in Nat
  BY LongestIs, CapacityAssumption DEF LongestFacts
<1>2. m_MIDIRxBuffer \in Received /\ Len(m_MIDIRxBuffer) <= Longest
  <2>1. m_MIDIRxBuffer \in Received /\ Len(m_MIDIRxBuffer) <= Capacity
    BY DEF TypeInv
  <2>2. Len(m_MIDIRxBuffer) \in Nat
    BY <2>1 DEF Received
  <2>3. QED
    BY <1>1, <2>1, <2>2
<1>3. socket \in Seq(Received) /\ Len(socket) \in Nat
  BY DEF TypeInv
<1>4. ASSUME NEW i \in 1..Len(socket) PROVE Len(socket[i]) <= Longest
  <2>1. socket[i] \in Received
    BY <1>3, ElementOfSeq
  <2>2. Len(BytesOf(socket[i])) = Len(socket[i])
    BY <2>1, BytesOfFacts
  <2>3. Len(BytesOf(socket[i])) <= 3
    BY DatagramAssumption DEF PacketsInv
  <2>4. Len(socket[i]) \in Nat
    BY <2>1 DEF Received
  <2>5. QED
    BY <1>1, <2>2, <2>3, <2>4
<1>5. QED
  BY <1>2, <1>3, <1>4, OffsByKey, PlacesFinite

(* What is being parsed has a number of note-offs, *)
LEMMA ParsingCounted ==
  ASSUME TypeInv, ShortRests
  PROVE  OffsParsing \in Nat
<1>1. CASE calls = <<>>
  BY <1>1 DEF OffsParsing
<1>2. CASE calls # <<>>
  <2>1. calls[1] \in Call /\ 1 \in 1..Len(calls)
    BY <1>2, TailFacts DEF TypeInv
  <2>2. calls[1].rest \in Received /\ Len(calls[1].rest) <= Longest
    BY <2>1 DEF Call, ShortRests
  <2>3. QED
    BY <1>2, <2>2, OffsByKey DEF OffsParsing
<1>3. QED
  BY <1>1, <1>2

(* nothing has none, *)
LEMMA NothingCounted == OffsOf(<<>>) = 0
<1>1. \A i \in 1..Len(<< <<>> >>) : << <<>> >>[i] = <<>>
  OBVIOUS
<1>2. QED
  BY <1>1, NoPlaces DEF OffsOf

(* What waits, when only the innermost call has something left. *)
LEMMA WaitingCounted ==
  ASSUME TypeInv, PacketsInv, ShortRests, OuterCallsDone
  PROVE  OffsWaiting = OffsOf(m_MIDIRxBuffer) + Places(socket) + OffsParsing
<1> DEFINE r == [k \in 1..Len(calls) |-> calls[k].rest]
           q == <<m_MIDIRxBuffer>>
<1>1. q \in Seq(Received) /\ socket \in Seq(Received)
  BY DEF TypeInv
<1>2. calls \in Seq(Call) /\ Len(calls) \in Nat
  BY DEF TypeInv
<1>3. ASSUME NEW k \in 1..Len(calls) PROVE calls[k].rest \in Received
  <2>1. calls[k] \in Call
    BY <1>2, ElementOfSeq
  <2>2. QED
    BY <2>1 DEF Call
<1>4. r \in Seq(Received) /\ Len(r) = Len(calls)
  BY <1>2, <1>3
<1>5. Places(r) = OffsParsing
  <2>1. CASE calls = <<>>
    <3>1. Len(r) = 0
      BY <1>4, <2>1
    <3>2. Places(r) = 0
      BY <3>1, NoPlaces
    <3>3. QED
      BY <2>1, <3>2 DEF OffsParsing
  <2>2. CASE calls # <<>>
    <3> DEFINE d == calls[1].rest
               t == Tail(r)
    <3>1. r # <<>> /\ r[1] = d /\ d \in Received
      BY <1>2, <1>3, <1>4, <2>2
    <3> HIDE DEF r
    <3>2. /\ Tail(r) \in Seq(Received) /\ Len(Tail(r)) = Len(r) - 1
          /\ \A k \in 1..Len(Tail(r)) : Tail(r)[k] = r[k + 1]
      BY <1>4, <3>1, TailFacts
    <3> HIDE DEF t
    <3>3. \A k \in 1..Len(t) : t[k] = <<>>
      <4>1. \A k \in 1..Len(t) : k + 1 \in 2..Len(calls) /\ k + 1 \in 1..Len(calls)
        BY <1>2, <1>4, <3>2 DEF t
      <4>2. \A k \in 1..Len(calls) : r[k] = calls[k].rest
        BY DEF r
      <4>3. QED
        BY <3>2, <4>1, <4>2 DEF OuterCallsDone, t
    <3>4. Places(t) = 0
      BY <3>3, NoPlaces
    <3>5. /\ <<d>> \o t \in Seq(Received) /\ Len(<<d>> \o t) = Len(t) + 1
          /\ (<<d>> \o t)[1] = d
          /\ \A k \in 1..Len(t) : (<<d>> \o t)[k + 1] = t[k]
      BY <3>1, <3>2, ConsFacts DEF t
    <3> DEFINE s == <<d>> \o t
    <3> HIDE DEF s, d
    <3>6. r = s
      <4>1. Len(s) = Len(r)
        BY <1>2, <1>4, <3>2, <3>5 DEF s, t
      <4>2. ASSUME NEW k \in 1..Len(r) PROVE r[k] = s[k]
        <5>1. CASE k = 1
          BY <3>1, <3>5, <5>1 DEF s
        <5>2. CASE k # 1
          <6>1. k - 1 \in 1..Len(t) /\ (k - 1) + 1 = k
            BY <1>2, <1>4, <3>2, <5>2 DEF t
          <6>2. QED
            BY <3>2, <3>5, <6>1 DEF s, t
        <5>3. QED
          BY <5>1, <5>2
      <4>3. QED
        BY <1>4, <3>5, <4>1, <4>2, SeqEqual DEF s
    <3>7. <<d>> \in Seq(Received) /\ t \in Seq(Received)
      BY <3>1, <3>2 DEF t
    <3>8. Places(s) = Places(<<d>>) + Places(t)
      BY <3>7, PlacesJoined DEF s
    <3>9. Places(<<d>>) \in Nat
      BY <3>7, PlacesFinite
    <3>10. Places(s) = OffsOf(d)
      BY <3>4, <3>8, <3>9 DEF OffsOf
    <3>11. QED
      BY <2>2, <3>6, <3>10 DEF OffsParsing, d
  <2>3. QED
    BY <2>1, <2>2
<1>6. Waiting = q \o socket \o r
  BY DEF Waiting
<1> HIDE DEF q, r
<1>7. q \o socket \in Seq(Received)
  BY <1>1, JoinFacts
<1>8. Places(q \o socket) = Places(q) + Places(socket)
  BY <1>1, PlacesJoined
<1> DEFINE w == q \o socket
<1> HIDE DEF w
<1>9. Places(w \o r) = Places(w) + Places(r)
  BY <1>4, <1>7, PlacesJoined DEF w
<1>10. OffsWaiting = Places(w \o r)
  BY <1>6 DEF OffsWaiting, Places, w
<1>11. Places(q) = OffsOf(m_MIDIRxBuffer)
  BY DEF OffsOf, q
<1>12. QED
  BY <1>5, <1>8, <1>9, <1>10, <1>11 DEF w

(* and a parser is within one at most. *)
LEMMA OffInFacts ==
  ASSUME NEW p
  PROVE  OffIn(p) \in {0, 1} /\ (Between(p) => OffIn(p) = 0)
  BY DEF OffIn, Between

(* The property follows. *)
LEMMA BalanceKeepsOffs == BalanceInv => NoteOffsKept
<1> SUFFICES ASSUME BalanceInv, ~overrun, ~torn
             PROVE  sentOffs = playedOffs + OffsWaiting + (IF OffBegun THEN 1 ELSE 0)
  BY DEF NoteOffsKept
<1>1. /\ TypeInv /\ PacketsInv /\ ShortRests /\ OuterCallsDone /\ Settled
  BY DEF BalanceInv, StreamInv, DiscardInv, Intact
<1>2. OffsWaiting = OffsOf(m_MIDIRxBuffer) + Places(socket) + OffsParsing
  BY <1>1, WaitingCounted
<1>3. /\ OffsOf(m_MIDIRxBuffer) \in Nat /\ Places(socket) \in Nat
      /\ OffsParsing \in Nat
  BY <1>1, ShortData, ParsingCounted
<1>4. OffIn(parser) = IF OffBegun THEN 1 ELSE 0
  BY DEF OffIn, OffBegun
<1> DEFINE a == OffsOf(m_MIDIRxBuffer)
           b == Places(socket)
           c == OffsParsing
           d == OffIn(parser)
<1>5. d \in Nat
  BY OffInFacts
<1>6. playedOffs \in Nat /\ sentOffs = playedOffs + a + b + c + d
  BY <1>1 DEF Settled
<1> HIDE DEF a, b, c, d
<1>7. sentOffs = playedOffs + (a + b + c) + d
  BY <1>3, <1>5, <1>6 DEF a, b, c
<1>8. QED
  BY <1>2, <1>4, <1>7 DEF a, b, c, d

----------------------------------------------------------------------------
(* The steps. *)

(* At first nothing is sent or played. *)
LEMMA BalanceStarts == Init => BalanceInv
<1> SUFFICES ASSUME Init PROVE BalanceInv
  OBVIOUS
<1>1. StreamInv
  BY StreamStarts
<1>2. Places(<<>>) = 0
  BY NoPlaces
<1>3. /\ sending = <<>> /\ calls = <<>> /\ m_MIDIRxBuffer = <<>> /\ socket = <<>>
      /\ sentOffs = 0 /\ playedOffs = 0 /\ parser.m_State = "StatusByte"
  BY DEF Init, P!Init
<1>4. Settled
  BY <1>2, <1>3, NothingCounted DEF Settled, OffsParsing, OffIn
<1>5. QED
  BY <1>1, <1>3, <1>4 DEF BalanceInv, SecondPackets, ShortRests

(* Steps that leave what waits where it is.                                *)
LEMMA BalanceUnchanged ==
  ASSUME BalanceInv, StreamInv',
         UNCHANGED <<sending, sentOffs, playedOffs, m_MIDIRxBuffer, socket, calls>>,
         ~overrun' /\ ~torn' => ~overrun /\ ~torn /\ OffIn(parser') = OffIn(parser)
  PROVE  BalanceInv'
<1>1. OffsParsing' = OffsParsing
  BY DEF OffsParsing
<1>2. SecondPackets' /\ ShortRests' /\ sentOffs' \in Nat
  BY DEF BalanceInv, SecondPackets, ShortRests
<1>3. ASSUME ~overrun', ~torn' PROVE Settled'
  BY <1>1, <1>3 DEF BalanceInv, Settled
<1>4. QED
  BY <1>2, <1>3 DEF BalanceInv

(* These steps touch no MIDI byte. *)
LEMMA BalanceRest ==
  BalanceInv /\ (ProcessEventQueue \/ DeferredSwitch \/ SwitchSucceeds \/ UNCHANGED vars)
    => BalanceInv'
<1> SUFFICES ASSUME BalanceInv,
                    ProcessEventQueue \/ DeferredSwitch \/ SwitchSucceeds \/ UNCHANGED vars
             PROVE  BalanceInv'
  OBVIOUS
<1>1. UNCHANGED <<sending, sentOffs, overrun, playedOffs, m_MIDIRxBuffer, socket, calls,
                  parser, torn>>
  BY DEF ProcessEventQueue, DeferredSwitch, SwitchSucceeds, vars, senders, parsing
<1>2. StreamInv'
  BY StreamPasses, StreamStutters DEF BalanceInv
<1>3. QED
  BY <1>1, <1>2, BalanceUnchanged

(* A parser that is reset has no note-off begun. *)
LEMMA BalanceSwitchEnds == BalanceInv /\ (SwitchFails \/ PurgeEnds) => BalanceInv'
<1> SUFFICES ASSUME BalanceInv, SwitchFails \/ PurgeEnds PROVE BalanceInv'
  OBVIOUS
<1>1. /\ UNCHANGED <<sending, sentOffs, overrun, playedOffs, m_MIDIRxBuffer, socket, calls>>
      /\ SwitchReturns
  BY DEF SwitchFails, PurgeEnds, senders
<1>2. StreamInv' /\ Sound(parser)
  BY StreamSwitchEnds DEF BalanceInv, StreamInv, DiscardInv, TypeInv
<1>3. ASSUME ~overrun', ~torn' PROVE ~overrun /\ ~torn /\ OffIn(parser') = OffIn(parser)
  <2>1. CASE UNCHANGED <<parser, torn>>
    BY <1>1, <1>3, <2>1
  <2>2. CASE /\ parser' = P!ResetState(parser, TRUE)
             /\ torn' = (torn \/ /\ parser.m_State # "StatusByte"
                                 /\ 247 # parser.m_MessageBuffer[parser.m_nMessageLength - 1])
    <3> DEFINE tears == /\ parser.m_State # "StatusByte"
                        /\ 247 # parser.m_MessageBuffer[parser.m_nMessageLength - 1]
               q == P!ResetState(parser, TRUE)
    <3>1. torn' = (torn \/ tears)
      BY <2>2
    <3> HIDE DEF tears
    <3>2. ~torn /\ ~tears
      BY <1>3, <3>1
    <3>3. ~(/\ parser.m_State # "StatusByte"
            /\ 247 # parser.m_MessageBuffer[parser.m_nMessageLength - 1])
      BY <3>2 DEF tears
    <3>4. Following(parser, Unparsed)
      BY <1>1, <1>3, <3>2 DEF BalanceInv, StreamInv, Intact
    <3>5. Between(parser)
      BY <3>3, <3>4, ResetBetween
    <3>6. q.m_State = "StatusByte"
      BY <1>2, ResetFacts
    <3> HIDE DEF q
    <3>7. OffIn(q) = 0 /\ OffIn(parser) = 0
      BY <3>5, <3>6, OffInFacts DEF OffIn
    <3>8. QED
      BY <1>1, <1>3, <2>2, <3>2, <3>7 DEF q
  <2>3. QED
    BY <1>1, <2>1, <2>2 DEF SwitchReturns
<1>4. QED
  BY <1>1, <1>2, <1>3, BalanceUnchanged

(* The queue is handed to a call. *)
LEMMA QueueCounted ==
  ASSUME TypeInv, PacketsInv, ShortRests, NEW ignore \in BOOLEAN,
         NEW then \in {"events", "midi", "purge"},
         NEW data \in Received, Len(data) <= Longest,
         ParseMIDIBytes(data, ignore, then)
  PROVE  ShortRests' /\ OffsParsing' = OffsOf(data)
<1> DEFINE c == [rest |-> data, bIgnoreNoteOns |-> ignore, then |-> then]
<1>1. calls' = <<c>> \o calls
  BY DEF ParseMIDIBytes
<1>2. c \in Call /\ c.rest = data
  BY DEF Call
<1> HIDE DEF c
<1>3. calls \in Seq(Call) /\ Len(calls) \in Nat
  BY DEF TypeInv
<1>4. /\ Len(calls') = Len(calls) + 1 /\ calls'[1] = c /\ calls' # <<>>
      /\ \A k \in 1..Len(calls) : calls'[k + 1] = calls[k]
  BY <1>1, <1>2, <1>3, ConsFacts
<1>5. OffsParsing' = OffsOf(data)
  BY <1>2, <1>4 DEF OffsParsing
<1>6. ASSUME NEW k \in 1..Len(calls') PROVE Len(calls'[k].rest) <= Longest
  <2>1. CASE k = 1
    BY <1>2, <1>4, <2>1
  <2>2. CASE k # 1
    <3>1. k - 1 \in 1..Len(calls) /\ (k - 1) + 1 = k
      BY <1>3, <1>4, <2>2
    <3>2. calls'[k] = calls[k - 1]
      BY <1>4, <3>1
    <3>3. QED
      BY <3>1, <3>2 DEF ShortRests
  <2>3. QED
    BY <2>1, <2>2
<1>7. QED
  BY <1>5, <1>6 DEF ShortRests

(* When nothing is left to parse there are no note-offs in it.             *)
LEMMA NothingLeftCounted ==
  ASSUME TypeInv, \A k \in 1..Len(calls) : calls[k].rest = <<>>
  PROVE  OffsParsing = 0
<1>1. CASE calls = <<>>
  BY <1>1 DEF OffsParsing
<1>2. CASE calls # <<>>
  <2>1. 1 \in 1..Len(calls)
    BY <1>2, TailFacts DEF TypeInv
  <2>2. calls[1].rest = <<>>
    BY <2>1
  <2>3. QED
    BY <1>2, <2>2, NothingCounted DEF OffsParsing
<1>3. QED
  BY <1>1, <1>2

(* What was in the queue is being parsed, and nothing else was.            *)
LEMMA QueueSettled ==
  ASSUME TypeInv, PacketsInv, ShortRests, Settled, NEW ignore \in BOOLEAN,
         NEW then \in {"events", "midi", "purge"},
         \A k \in 1..Len(calls) : calls[k].rest = <<>>,
         ParseMIDIBytes(m_MIDIRxBuffer, ignore, then), m_MIDIRxBuffer' = <<>>,
         UNCHANGED <<sentOffs, playedOffs, socket, parser>>
  PROVE  Settled'
<1>1. m_MIDIRxBuffer \in Received /\ Len(m_MIDIRxBuffer) <= Longest
  BY ShortData
<1>2. OffsParsing' = OffsOf(m_MIDIRxBuffer)
  BY <1>1, QueueCounted
<1>3. OffsParsing = 0
  BY NothingLeftCounted
<1>4. OffsOf(m_MIDIRxBuffer') = 0
  BY NothingCounted
<1> DEFINE a == OffsOf(m_MIDIRxBuffer)
           b == Places(socket)
           d == OffIn(parser)
<1>5. a \in Nat /\ b \in Nat /\ d \in Nat
  BY ShortData, OffInFacts
<1>6. playedOffs \in Nat /\ sentOffs = playedOffs + a + b + 0 + d
  BY <1>3 DEF Settled
<1> HIDE DEF a, b, d
<1>7. sentOffs = playedOffs + 0 + b + a + d
  BY <1>5, <1>6
<1>8. QED
  BY <1>2, <1>4, <1>6, <1>7 DEF Settled, a, b, d

(* UpdateMIDI moves the queue's note-offs to what is being parsed, *)
LEMMA BalanceUpdate == BalanceInv /\ UpdateMIDI => BalanceInv'
<1> SUFFICES ASSUME BalanceInv, UpdateMIDI PROVE BalanceInv'
  OBVIOUS
<1>1. /\ pc = "midi" /\ m_MIDIRxBuffer' = <<>>
      /\ UNCHANGED <<sending, sentOffs, playedOffs, socket, parser, torn, overrun>>
  BY DEF UpdateMIDI, senders, parsing
<1>2. calls = <<>> /\ TypeInv /\ PacketsInv /\ ShortRests
  BY <1>1 DEF BalanceInv, StreamInv, DiscardInv, CallsInv
<1>3. StreamInv'
  BY StreamUpdate DEF BalanceInv
<1>4. CASE m_MIDIRxBuffer = <<>>
  <2>1. UNCHANGED <<m_MIDIRxBuffer, calls>>
    BY <1>1, <1>4 DEF UpdateMIDI
  <2>2. QED
    BY <1>1, <1>3, <2>1, BalanceUnchanged
<1>5. CASE m_MIDIRxBuffer # <<>>
  <2>1. ParseMIDIBytes(m_MIDIRxBuffer, FALSE, "events")
    BY <1>5 DEF UpdateMIDI
  <2>2. \A k \in 1..Len(calls) : calls[k].rest = <<>>
    BY <1>2
  <2>3. Settled => Settled'
    BY <1>1, <1>2, <2>1, <2>2, QueueSettled
  <2>4. ShortRests'
    BY <1>2, <2>1, ShortData, QueueCounted
  <2>5. QED
    BY <1>1, <1>3, <2>3, <2>4 DEF BalanceInv, SecondPackets
<1>6. QED
  BY <1>4, <1>5

(* and so does a purge. *)
LEMMA BalancePurge == BalanceInv /\ PurgeTurn => BalanceInv'
<1> SUFFICES ASSUME BalanceInv, PurgeTurn PROVE BalanceInv'
  OBVIOUS
<1>1. /\ m_MIDIRxBuffer' = <<>> /\ Overtakes
      /\ ParseMIDIBytes(m_MIDIRxBuffer, TRUE, "purge")
      /\ UNCHANGED <<sending, sentOffs, playedOffs, socket, parser, overrun>>
  BY DEF PurgeTurn, senders
<1>2. TypeInv /\ PacketsInv /\ ShortRests
  BY DEF BalanceInv, StreamInv, DiscardInv
<1>3. StreamInv'
  BY StreamPurge DEF BalanceInv
<1>4. ShortRests'
  BY <1>1, <1>2, ShortData, QueueCounted
<1>5. ASSUME ~overrun', ~torn' PROVE Settled'
  <2>1. ~torn /\ \A k \in 1..Len(calls) : calls[k].rest = <<>>
    BY <1>1, <1>5 DEF Overtakes
  <2>2. Settled
    BY <1>1, <1>5, <2>1 DEF BalanceInv
  <2>3. QED
    BY <1>1, <1>2, <2>1, <2>2, QueueSettled
<1>6. QED
  BY <1>1, <1>3, <1>4, <1>5 DEF BalanceInv, SecondPackets

(* A sequence is its head before its tail. *)
LEMMA HeadTailJoined ==
  ASSUME NEW S, NEW s \in Seq(S), s # <<>>
  PROVE  s = <<Head(s)>> \o Tail(s)
  OBVIOUS

(* A packet is in the queue, whole, with the note-offs it has. *)
LEMMA PacketSettled ==
  ASSUME TypeInv, PacketsInv, ShortRests, Settled, sentOffs \in Nat,
         NEW block \in Received, NEW offs \in Nat,
         Len(block) <= Longest => OffsOf(block) = offs,
         m_MIDIRxBuffer' = m_MIDIRxBuffer \o block, Len(m_MIDIRxBuffer') <= Capacity,
         sentOffs' = sentOffs + offs, UNCHANGED <<playedOffs, socket, calls, parser>>
  PROVE  Settled'
<1> DEFINE a == OffsOf(m_MIDIRxBuffer)
           b == Places(socket)
           c == OffsParsing
           d == OffIn(parser)
           e == OffsOf(block)
<1>1. /\ m_MIDIRxBuffer \in Received /\ Len(m_MIDIRxBuffer) \in Nat /\ Len(block) \in Nat
      /\ Len(m_MIDIRxBuffer \o block) = Len(m_MIDIRxBuffer) + Len(block)
  BY ReceivedJoined DEF TypeInv, Received
<1>2. Longest \in Nat /\ Capacity \in Nat /\ Capacity <= Longest
  BY LongestIs, CapacityAssumption DEF LongestFacts
<1>3. Len(m_MIDIRxBuffer) + Len(block) <= Longest /\ Len(block) <= Longest
  <2>1. Len(m_MIDIRxBuffer) + Len(block) <= Capacity
    BY <1>1
  <2>2. QED
    BY <1>1, <1>2, <2>1
<1>4. OffsOf(m_MIDIRxBuffer') = a + e
  <2>1. OffsOf(m_MIDIRxBuffer \o block) = a + e
    BY <1>1, <1>3, OffsJoined, SMTT(30)
  <2>2. QED
    BY <1>1, <2>1
<1>5. OffsParsing' = c
  BY DEF OffsParsing
<1>6. a \in Nat /\ b \in Nat /\ c \in Nat /\ d \in Nat /\ e = offs
  <2>1. a \in Nat /\ b \in Nat
    BY ShortData
  <2>2. c \in Nat
    BY ParsingCounted
  <2>3. d \in Nat
    BY OffInFacts
  <2>4. QED
    BY <1>3, <2>1, <2>2, <2>3
<1>7. playedOffs \in Nat /\ sentOffs = playedOffs + a + b + c + d
  BY DEF Settled
<1> HIDE DEF a, b, c, d, e
<1>8. sentOffs' = playedOffs + (a + e) + b + c + d
  BY <1>6, <1>7
<1>9. QED
  BY <1>4, <1>5, <1>7, <1>8 DEF Settled, a, b, c, d, e

(* The packets of a message have a note-off in the first byte, or none.    *)
LEMMA PacketOffs ==
  ASSUME NEW packets \in Messages
  PROVE  /\ Head(packets) # <<>> /\ Head(packets) = packets[1]
         /\ \A k \in 2..Len(Head(packets)) : ~NoteOff(Head(packets)[k])
         /\ Tail(packets) \in Seq(Seq(0..255))
         /\ \A i \in 1..Len(Tail(packets)) : \A k \in 1..Len(Tail(packets)[i]) :
              ~NoteOff(Tail(packets)[i][k])
<1> DEFINE m == Concat(packets)
           a == Head(packets)
           t == Tail(packets)
           f == First(t)
<1>1. packets \in Seq(Seq(0..255)) /\ packets # <<>> /\ packets[1] # <<>>
  BY MessageAssumption
<1>2. a = packets[1] /\ a \in Seq(0..255) /\ a # <<>> /\ t \in Seq(Seq(0..255))
  BY <1>1, TailFacts
<1>3. m \in Sent /\ f \in Seq(0..255) /\ m = a \o f /\ Len(t) <= 1
  BY PacketFacts
<1>4. IsMessage(m)
  BY <1>3, SentFacts
<1> HIDE DEF m, a, t, f
<1>5. Len(a) \in Nat \ {0} /\ Len(f) \in Nat /\ Len(m) = Len(a) + Len(f)
  BY <1>2, <1>3, TailFacts, JoinFacts
<1>6. \A i \in 2..Len(m) : ~NoteOff(m[i])
  <2>1. ASSUME NEW i \in 2..Len(m) PROVE ~NoteOff(m[i])
    <3>1. One(m[i]) = 0
      BY <1>4, DataIsNoOff
    <3>2. QED
      BY <3>1 DEF One
  <2>2. QED
    BY <2>1
<1>7. \A i \in 1..(Len(a) + Len(f)) : m[i] = IF i <= Len(a) THEN a[i] ELSE f[i - Len(a)]
  BY <1>2, <1>3, JoinedElements
<1>8. \A k \in 2..Len(a) : ~NoteOff(a[k])
  <2>1. \A k \in 2..Len(a) : k \in 1..(Len(a) + Len(f)) /\ k \in 2..Len(m) /\ k <= Len(a)
    BY <1>5
  <2>2. QED
    BY <1>6, <1>7, <2>1
<1>9. \A k \in 1..Len(f) : ~NoteOff(f[k])
  <2>1. ASSUME NEW k \in 1..Len(f) PROVE ~NoteOff(f[k])
    <3>1. /\ k + Len(a) \in 1..(Len(a) + Len(f)) /\ k + Len(a) \in 2..Len(m)
          /\ ~(k + Len(a) <= Len(a)) /\ (k + Len(a)) - Len(a) = k
      BY <1>5
    <3>2. m[k + Len(a)] = f[k]
      BY <1>7, <3>1
    <3>3. QED
      BY <1>6, <3>1, <3>2
  <2>2. QED
    BY <2>1
<1>10. ASSUME NEW i \in 1..Len(t) PROVE t[i] = f
  <2>1. i = 1 /\ t # <<>>
    BY <1>2, <1>3
  <2>2. QED
    BY <2>1 DEF f, First
<1>11. QED
  BY <1>2, <1>8, <1>9, <1>10 DEF a, t

(* What is stamped has the same note-offs. *)
LEMMA StampedOffs ==
  ASSUME NEW bytes \in Seq(0..255), NEW w \in {"busy", "busyNet"}
  PROVE  /\ Stamp(bytes, w) \in Received /\ Len(Stamp(bytes, w)) = Len(bytes)
         /\ \A k \in 1..Len(bytes) : Stamp(bytes, w)[k].byte = bytes[k]
<1>1. \A k \in 1..Len(bytes) : Stamp(bytes, w)[k].byte = bytes[k]
  BY DEF Stamp
<1>2. QED
  BY <1>1, StampFacts

(* Of the bytes of a message only the first may be a note-off. *)
LEMMA FirstOff ==
  ASSUME NEW bytes \in Seq(0..255), bytes # <<>>, NEW w \in {"busy", "busyNet"},
         \A k \in 2..Len(bytes) : ~NoteOff(bytes[k]), Len(bytes) <= Longest
  PROVE  OffsOf(Stamp(bytes, w)) = One(bytes[1])
<1> DEFINE s == Stamp(bytes, w)
<1>1. /\ s \in Received /\ Len(s) = Len(bytes)
      /\ \A k \in 1..Len(bytes) : s[k].byte = bytes[k]
  BY StampedOffs
<1> HIDE DEF s
<1>2. 1 \in 1..Len(bytes) /\ \A k \in 2..Len(bytes) : k \in 1..Len(bytes)
  BY TailFacts
<1>3. s # <<>> /\ \A k \in 2..Len(s) : ~NoteOff(s[k].byte)
  BY <1>1, <1>2
<1>4. OffsOf(s) = One(s[1].byte)
  BY <1>1, <1>3, OffsOfMessage
<1>5. QED
  BY <1>1, <1>2, <1>4 DEF s

(* A packet brings the note-off it begins with. *)
LEMMA BalanceReceive == BalanceInv /\ Receive => BalanceInv'
<1> SUFFICES ASSUME BalanceInv, Receive PROVE BalanceInv'
  OBVIOUS
<1>1. UNCHANGED <<playedOffs, socket, calls, parser, torn>>
  BY DEF Receive, parsing
<1>2. StreamInv' /\ TypeInv /\ PacketsInv /\ ShortRests /\ sentOffs \in Nat
  BY StreamReceive DEF BalanceInv, StreamInv, DiscardInv
<1>3. ShortRests' /\ Len(m_MIDIRxBuffer') <= Capacity
  BY <1>1, <1>2 DEF ShortRests, StreamInv, DiscardInv, TypeInv
<1>4. CASE \E packets \in Messages :
             /\ Enqueue(Stamp(Head(packets), "busy"))
             /\ sending' = Tail(packets)
             /\ sentOffs' = sentOffs + (IF NoteOff(packets[1][1]) THEN 1 ELSE 0)
  <2>1. PICK packets \in Messages :
             /\ Enqueue(Stamp(Head(packets), "busy"))
             /\ sending' = Tail(packets)
             /\ sentOffs' = sentOffs + (IF NoteOff(packets[1][1]) THEN 1 ELSE 0)
    BY <1>4
  <2> DEFINE a == Head(packets)
             block == Stamp(a, "busy")
  <2>2. /\ a # <<>> /\ a = packets[1] /\ a \in Seq(0..255)
        /\ \A k \in 2..Len(a) : ~NoteOff(a[k])
    BY PacketOffs, PacketFacts
  <2>3. SecondPackets'
    BY <2>1, PacketOffs DEF SecondPackets
  <2>4. sentOffs' = sentOffs + One(a[1]) /\ One(a[1]) \in Nat
    BY <2>1, <2>2 DEF One
  <2>5. block \in Received /\ (Len(block) <= Longest => OffsOf(block) = One(a[1]))
    BY <2>2, StampedOffs, FirstOff
  <2>6. Enqueue(block)
    BY <2>1
  <2> HIDE DEF a, block
  <2>7. ASSUME ~overrun', ~torn' PROVE Settled'
    <3>1. ~overrun /\ m_MIDIRxBuffer' = m_MIDIRxBuffer \o block
      BY <2>6, <2>7, EnqueueAll
    <3>2. Settled
      BY <1>1, <2>7, <3>1 DEF BalanceInv
    <3>3. QED
      BY <1>1, <1>2, <1>3, <2>4, <2>5, <3>1, <3>2, PacketSettled
  <2>8. sentOffs' \in Nat
    BY <1>2, <2>4
  <2>9. QED
    BY <1>2, <1>3, <2>3, <2>7, <2>8 DEF BalanceInv
<1>5. CASE /\ sending # <<>> /\ Enqueue(Stamp(Head(sending), "busy"))
           /\ sending' = Tail(sending) /\ UNCHANGED sentOffs
  <2> DEFINE a == Head(sending)
             block == Stamp(a, "busy")
  <2>1. /\ a \in Seq(0..255) /\ a = sending[1] /\ Len(Tail(sending)) = Len(sending) - 1
        /\ Len(sending) \in Nat \ {0}
        /\ \A k \in 1..Len(Tail(sending)) : Tail(sending)[k] = sending[k + 1]
    BY <1>2, <1>5, TailFacts DEF TypeInv
  <2>2. \A k \in 1..Len(a) : ~NoteOff(a[k])
    BY <2>1 DEF BalanceInv, SecondPackets
  <2>3. SecondPackets'
    <3>1. \A k \in 1..Len(Tail(sending)) : k + 1 \in 1..Len(sending)
      BY <2>1
    <3>2. QED
      BY <1>5, <2>1, <3>1 DEF BalanceInv, SecondPackets
  <2>4. block \in Received /\ (Len(block) <= Longest => OffsOf(block) = 0)
    <3>1. /\ block \in Received /\ Len(block) = Len(a)
          /\ \A k \in 1..Len(a) : block[k].byte = a[k]
      BY <2>1, StampedOffs
    <3> HIDE DEF a, block
    <3>2. \A k \in 1..Len(block) : ~NoteOff(block[k].byte)
      BY <2>2, <3>1
    <3>3. QED
      BY <3>1, <3>2, NoOffsIn
  <2>5. Enqueue(block)
    BY <1>5
  <2> HIDE DEF a, block
  <2>6. sentOffs' = sentOffs + 0
    BY <1>2, <1>5
  <2>7. ASSUME ~overrun', ~torn' PROVE Settled'
    <3>1. ~overrun /\ m_MIDIRxBuffer' = m_MIDIRxBuffer \o block
      BY <2>5, <2>7, EnqueueAll
    <3>2. Settled
      BY <1>1, <2>7, <3>1 DEF BalanceInv
    <3>3. QED
      BY <1>1, <1>2, <1>3, <2>4, <2>6, <3>1, <3>2, PacketSettled
  <2>8. QED
    BY <1>2, <1>3, <1>5, <2>3, <2>7 DEF BalanceInv
<1>6. QED
  BY <1>4, <1>5 DEF Receive

(* So does a datagram, *)
LEMMA BalanceDatagram == BalanceInv /\ DatagramArrives => BalanceInv'
<1> SUFFICES ASSUME BalanceInv, DatagramArrives PROVE BalanceInv'
  OBVIOUS
<1>1. UNCHANGED <<sending, overrun, playedOffs, m_MIDIRxBuffer, calls, parser, torn>>
  BY DEF DatagramArrives, parsing
<1>2. StreamInv' /\ TypeInv /\ PacketsInv /\ ShortRests /\ sentOffs \in Nat
  BY StreamDatagram DEF BalanceInv, StreamInv, DiscardInv
<1>3. PICK bytes \in Datagrams :
        /\ socket' = Append(socket, Stamp(bytes, "busyNet"))
        /\ sentOffs' = sentOffs + (IF NoteOff(bytes[1]) THEN 1 ELSE 0)
  BY DEF DatagramArrives
<1>4. /\ IsMessage(bytes) /\ bytes \in Seq(0..255) /\ bytes # <<>>
      /\ Len(bytes) <= 3 /\ Len(bytes) \in Nat
  BY DatagramAssumption DEF IsMessage
<1>5. Len(bytes) <= Longest
  BY <1>4, LongestIs DEF LongestFacts
<1>6. \A k \in 2..Len(bytes) : ~NoteOff(bytes[k])
  <2>1. ASSUME NEW k \in 2..Len(bytes) PROVE ~NoteOff(bytes[k])
    <3>1. One(bytes[k]) = 0
      BY <1>4, DataIsNoOff
    <3>2. QED
      BY <3>1 DEF One
  <2>2. QED
    BY <2>1
<1> DEFINE block == Stamp(bytes, "busyNet")
           e == One(bytes[1])
<1>7. block \in Received /\ OffsOf(block) = e
  BY <1>4, <1>5, <1>6, StampedOffs, FirstOff
<1>8. socket \in Seq(Received) /\ socket' = Append(socket, block)
  BY <1>2, <1>3 DEF TypeInv
<1>9. sentOffs' = sentOffs + e /\ e \in Nat
  BY <1>3 DEF One
<1> HIDE DEF block, e
<1>10. Places(socket') = Places(socket) + e
  <2>1. socket' = socket \o <<block>>
    BY <1>7, <1>8, AppendIsConcat
  <2>2. <<block>> \in Seq(Received)
    BY <1>7
  <2>3. Places(socket \o <<block>>) = Places(socket) + Places(<<block>>)
    BY <1>8, <2>2, PlacesJoined
  <2>4. QED
    BY <1>7, <2>1, <2>3 DEF OffsOf
<1>11. ASSUME ~overrun', ~torn' PROVE Settled'
  <2> DEFINE a == OffsOf(m_MIDIRxBuffer)
             b == Places(socket)
             c == OffsParsing
             d == OffIn(parser)
  <2>1. a \in Nat /\ b \in Nat /\ c \in Nat /\ d \in Nat
    BY <1>2, ShortData, ParsingCounted, OffInFacts
  <2>2. playedOffs \in Nat /\ sentOffs = playedOffs + a + b + c + d
    BY <1>1, <1>11 DEF BalanceInv, Settled
  <2>3. OffsParsing' = c
    BY <1>1 DEF OffsParsing
  <2> HIDE DEF a, b, c, d
  <2>4. sentOffs' = playedOffs + a + (b + e) + c + d
    BY <1>9, <2>1, <2>2
  <2>5. QED
    BY <1>1, <1>10, <2>2, <2>3, <2>4 DEF Settled, a, b, c, d
<1>12. QED
  BY <1>1, <1>2, <1>9, <1>11 DEF BalanceInv, SecondPackets, ShortRests

(* which is parsed when MainTask yields. *)
LEMMA BalanceYield == BalanceInv /\ Yield => BalanceInv'
<1> SUFFICES ASSUME BalanceInv, Yield PROVE BalanceInv'
  OBVIOUS
<1>1. pc = "yield" /\ UNCHANGED <<sending, sentOffs, m_MIDIRxBuffer, parser, playedOffs, overrun>>
  BY DEF Yield, senders
<1>2. /\ calls = <<>> /\ StreamInv' /\ TypeInv /\ PacketsInv /\ ShortRests
  BY <1>1, StreamYield DEF BalanceInv, StreamInv, DiscardInv, CallsInv
<1>3. CASE socket = <<>>
  <2>1. UNCHANGED <<calls, socket, torn>>
    BY <1>3 DEF Yield
  <2>2. QED
    BY <1>1, <1>2, <2>1, BalanceUnchanged
<1>4. CASE socket # <<>>
  <2> DEFINE data == Head(socket)
             t == Tail(socket)
  <2>1. /\ ParseMIDIBytes(data, FALSE, "midi") /\ socket' = t
        /\ torn' = (torn \/ parser.m_State # "StatusByte")
    BY <1>4 DEF Yield
  <2>2. socket \in Seq(Received)
    BY <1>2 DEF TypeInv
  <2>3. /\ data \in Received /\ data = socket[1] /\ t \in Seq(Received)
        /\ 1 \in 1..Len(socket)
    BY <1>4, <2>2, TailFacts
  <2>4. Len(data) <= Longest
    BY <1>2, <2>3, ShortData
  <2>5. ShortRests' /\ OffsParsing' = OffsOf(data)
    BY <1>2, <2>1, <2>3, <2>4, QueueCounted
  <2>6. socket = <<data>> \o t
    BY <1>4, <2>2, HeadTailJoined
  <2> HIDE DEF data, t
  <2>7. Places(socket) = OffsOf(data) + Places(t)
    <3>1. <<data>> \in Seq(Received)
      BY <2>3
    <3>2. Places(<<data>> \o t) = Places(<<data>>) + Places(t)
      BY <2>3, <3>1, PlacesJoined
    <3>3. QED
      BY <2>6, <3>2 DEF OffsOf
  <2>8. ASSUME ~overrun', ~torn' PROVE Settled'
    <3> DEFINE a == OffsOf(m_MIDIRxBuffer)
               b == Places(t)
               c == OffsOf(data)
               d == OffIn(parser)
    <3>1. /\ a \in Nat /\ d \in Nat /\ c \in Nat
      BY <1>2, <2>3, <2>4, ShortData, OffsByKey, OffInFacts
    <3>2. b \in Nat
      BY <2>3, PlacesFinite
    <3>3. ~torn
      BY <2>1, <2>8
    <3>4. Settled
      BY <1>1, <2>8, <3>3 DEF BalanceInv
    <3>5. OffsParsing = 0
      BY <1>2 DEF OffsParsing
    <3>6. playedOffs \in Nat /\ sentOffs = playedOffs + a + (c + b) + 0 + d
      BY <2>7, <3>4, <3>5 DEF Settled
    <3> HIDE DEF a, b, c, d
    <3>7. sentOffs = playedOffs + a + b + c + d
      BY <3>1, <3>2, <3>6
    <3>8. QED
      BY <1>1, <2>1, <2>5, <3>6, <3>7 DEF Settled, a, b, c, d
  <2>9. QED
    BY <1>1, <1>2, <2>5, <2>8 DEF BalanceInv, SecondPackets
<1>5. QED
  BY <1>3, <1>4

(* A call that is over has none left. *)
LEMMA BalanceParseReturns == BalanceInv /\ ParseReturns => BalanceInv'
<1> SUFFICES ASSUME BalanceInv, ParseReturns PROVE BalanceInv'
  OBVIOUS
<1>1. /\ UNCHANGED <<sending, sentOffs, overrun, m_MIDIRxBuffer, socket, parser, torn,
                     playedOffs>>
      /\ pc = "parse" /\ Head(calls).rest = <<>> /\ calls' = Tail(calls)
  BY DEF ParseReturns, senders, parsing
<1>2. /\ StreamInv' /\ TypeInv /\ calls # <<>> /\ TypeInv'
  BY <1>1, StreamParseReturns DEF BalanceInv, StreamInv, DiscardInv, CallsInv
<1>3. /\ Head(calls) = calls[1]
      /\ Len(Tail(calls)) = Len(calls) - 1 /\ Len(calls) \in Nat \ {0}
      /\ \A k \in 1..Len(Tail(calls)) : Tail(calls)[k] = calls[k + 1]
  BY <1>2, TailFacts DEF TypeInv
<1>4. \A k \in 1..Len(calls') : calls'[k] = calls[k + 1] /\ k + 1 \in 2..Len(calls)
                                 /\ k + 1 \in 1..Len(calls)
  BY <1>1, <1>3
<1>5. ShortRests'
  BY <1>4 DEF BalanceInv, ShortRests
<1>6. ASSUME ~overrun', ~torn' PROVE Settled'
  <2>1. OuterCallsDone /\ Settled
    BY <1>1, <1>6 DEF BalanceInv, StreamInv, Intact
  <2>2. OffsParsing = 0
    BY <1>1, <1>2, <1>3, NothingCounted DEF OffsParsing
  <2>3. \A k \in 1..Len(calls') : calls'[k].rest = <<>>
    BY <1>4, <2>1 DEF OuterCallsDone
  <2>4. OffsParsing' = 0
    <3>1. CASE calls' = <<>>
      BY <3>1 DEF OffsParsing
    <3>2. CASE calls' # <<>>
      <4>1. 1 \in 1..Len(calls')
        BY <1>2, <3>2, TailFacts DEF TypeInv
      <4>2. calls'[1].rest = <<>>
        BY <2>3, <4>1
      <4>3. QED
        BY <3>2, <4>2, NothingCounted DEF OffsParsing
    <3>3. QED
      BY <3>1, <3>2
  <2>5. QED
    BY <1>1, <2>1, <2>2, <2>4 DEF Settled
<1>7. QED
  BY <1>1, <1>2, <1>5, <1>6 DEF BalanceInv, SecondPackets

(* A byte is a note-off begun, or counts for nothing, or ends one. *)
LEMMA BalanceParseByte == BalanceInv /\ ParseByte => BalanceInv'
<1> SUFFICES ASSUME BalanceInv, ParseByte PROVE BalanceInv'
  OBVIOUS
<1> DEFINE call == Head(calls)
           x == Head(call.rest)
           next == [call EXCEPT !.rest = Tail(@)]
<1>1. /\ UNCHANGED <<sending, sentOffs, overrun, m_MIDIRxBuffer, socket, torn>>
      /\ pc = "parse" /\ call.rest # <<>> /\ calls' = <<next>> \o Tail(calls)
  BY DEF ParseByte, senders
<1>2. /\ StreamInv' /\ TypeInv /\ CallsInv /\ PacketsInv /\ ShortRests /\ calls # <<>>
  BY <1>1, StreamParseByte DEF BalanceInv, StreamInv, DiscardInv, CallsInv
<1>3. /\ call \in Call /\ call = calls[1] /\ Tail(calls) \in Seq(Call)
      /\ Len(Tail(calls)) = Len(calls) - 1 /\ Len(calls) \in Nat \ {0}
      /\ \A k \in 1..Len(Tail(calls)) : Tail(calls)[k] = calls[k + 1]
  BY <1>2, TailFacts DEF TypeInv
<1>4. call.rest \in Received /\ Len(call.rest) <= Longest
  <2>1. 1 \in 1..Len(calls)
    BY <1>3
  <2>2. QED
    BY <1>2, <1>3, <2>1 DEF Call, ShortRests
<1> DEFINE t == Tail(call.rest)
           b == x.byte
<1>5. /\ x \in Bytes /\ t \in Received /\ Len(t) = Len(call.rest) - 1
      /\ Len(call.rest) \in Nat \ {0}
      /\ call.rest = <<x>> \o t
  <2>1. call.rest \in Seq(Bytes) /\ call.rest # <<>>
    BY <1>1, <1>4 DEF Received, Bytes
  <2>2. /\ x \in Bytes /\ t \in Seq(Bytes) /\ Len(t) = Len(call.rest) - 1
        /\ Len(call.rest) \in Nat \ {0}
    BY <2>1, TailFacts
  <2>3. call.rest = <<x>> \o t
    BY <2>1, HeadTailJoined
  <2>4. QED
    BY <2>2, <2>3 DEF Received, Bytes
<1>6. next \in Call /\ next.rest = t
  BY <1>3, <1>5 DEF Call
<1> HIDE DEF next, t, x
<1>7. Len(t) <= Longest /\ 1 + Len(t) <= Longest /\ 1 <= Longest
  BY <1>4, <1>5, LongestIs DEF LongestFacts
<1>8. /\ Len(calls') = Len(calls) /\ calls'[1] = next /\ calls' # <<>>
      /\ \A k \in 1..Len(Tail(calls)) : calls'[k + 1] = Tail(calls)[k]
  BY <1>1, <1>3, <1>6, ConsFacts
<1>9. ShortRests'
  <2>1. ASSUME NEW k \in 1..Len(calls') PROVE Len(calls'[k].rest) <= Longest
    <3>1. CASE k = 1
      BY <1>6, <1>7, <1>8, <3>1
    <3>2. CASE k # 1
      <4>1. k - 1 \in 1..Len(Tail(calls)) /\ (k - 1) + 1 = k
        BY <1>3, <1>8, <3>2
      <4>2. calls'[k] = calls[k]
        BY <1>3, <1>8, <4>1
      <4>3. QED
        BY <1>2, <1>8, <4>2 DEF ShortRests
    <3>3. QED
      BY <3>1, <3>2
  <2>2. QED
    BY <2>1 DEF ShortRests
<1>10. OffsOf(call.rest) = One(b) + OffsOf(t)
  <2>1. <<x>> \in Received /\ Len(<<x>>) = 1 /\ <<x>>[1] = x
    BY <1>5 DEF Received, Bytes
  <2>2. OffsOf(<<x>> \o t) = OffsOf(<<x>>) + OffsOf(t)
    BY <1>5, <1>7, <2>1, OffsJoined
  <2>3. OffsOf(<<x>>) = One(b)
    <3>1. <<x>> # <<>> /\ \A k \in 2..Len(<<x>>) : ~NoteOff(<<x>>[k].byte)
      BY <2>1
    <3>2. QED
      BY <1>7, <2>1, <3>1, OffsOfMessage
  <2>4. QED
    BY <1>5, <2>2, <2>3
<1> DEFINE p == [parser EXCEPT !.calls = <<>>]
<1>11. OffIn(p) = OffIn(parser)
  BY <1>2 DEF TypeInv, Sound, OffIn
<1>12. ASSUME ~overrun', ~torn' PROVE Settled'
  <2>1. Settled /\ Following(parser, Unparsed)
    BY <1>1, <1>12 DEF BalanceInv, StreamInv, Intact
  <2>2. Follows(p, b, parser', Unparsed') /\ Played
    BY <1>2, <2>1, ByteFollowed DEF x
  <2> HIDE DEF p, b
  <2> DEFINE a == OffsOf(m_MIDIRxBuffer)
             s == Places(socket)
             c == OffsOf(t)
             d == OffIn(p)
             e == OffIn(parser')
             f == Offs(parser'.calls)
             o == One(b)
  <2>3. a \in Nat /\ s \in Nat /\ c \in Nat
    BY <1>2, <1>5, <1>7, ShortData, OffsByKey
  <2>4. d \in Nat /\ e \in Nat /\ o \in Nat
    BY OffInFacts DEF One
  <2>5. f \in Nat /\ d + o = f + e
    BY <2>2 DEF Follows, Balanced
  <2>6. playedOffs \in Nat => playedOffs' = playedOffs + f
    BY <2>2 DEF Played
  <2>7. OffsParsing = o + c
    BY <1>2, <1>3, <1>10 DEF OffsParsing
  <2>8. OffsParsing' = c
    BY <1>6, <1>8 DEF OffsParsing
  <2>9. playedOffs \in Nat /\ sentOffs = playedOffs + a + s + (o + c) + d
    BY <1>11, <2>1, <2>7 DEF Settled
  <2> HIDE DEF a, s, c, d, e, f, o
  <2>10. playedOffs' = playedOffs + f
    BY <2>6, <2>9
  <2>11. playedOffs' \in Nat /\ sentOffs = playedOffs' + a + s + c + e
    BY <2>3, <2>4, <2>5, <2>9, <2>10
  <2>12. QED
    BY <1>1, <2>8, <2>11 DEF Settled, a, s, c, e
<1>13. QED
  BY <1>1, <1>2, <1>9, <1>12 DEF BalanceInv, SecondPackets

(* Unless bytes were lost or a message torn, every note-off sent is played,*)
(* begun, or waiting.                                                      *)
THEOREM BalanceInvariant == Spec => []BalanceInv
<1>1. BalanceInv /\ [Next]_vars => BalanceInv'
  BY BalanceReceive, BalanceDatagram, BalanceUpdate, BalancePurge, BalanceYield,
     BalanceRest, BalanceSwitchEnds, BalanceParseReturns, BalanceParseByte
  DEF Next, MainTask
<1>2. QED
  BY <1>1, BalanceStarts, PTL DEF Spec

(* No note-off is lost or played twice while SoundFonts are switched.      *)
THEOREM NoOffLost == Spec => []NoteOffsKept
  BY BalanceInvariant, BalanceKeepsOffs, PTL
=============================================================================
