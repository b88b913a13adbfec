-------------------------- MODULE AppleMidiProofs --------------------------
(***************************************************************************)
(* Proofs about the AppleMIDI participant, for any initiators, timeouts    *)
(* and command lists, and whatever packets come: it implements             *)
(* MidiSession, answers invitations, and hands on what the commands of a   *)
(* list stand for.                                                         *)
(***************************************************************************)
EXTENDS AppleMidi, SequenceTheorems, WellFoundedInduction, TLAPS

Somebody == Initiators \cup {Nobody}

(* What the session rests on: a handler works for the initiator of the     *)
(* session it is in, and only a session's handler looks at commands.       *)
SessionInv ==
  /\ pc \in {"receive", "handle", "commands", "behind", "rest", "yield"}
  /\ m_State \in {"ControlInvitation", "MIDIInvitation", "Connected"}
  /\ control \in [result : Int, packet : ControlPackets \cup {NoPacket}]
  /\ midi \in MIDIPackets \cup {NoPacket}
  /\ initiator \in [control : Somebody, midiPort : Int]
  /\ sinceSync \in Nat
  /\ m_State # "ControlInvitation" => initiator.control \in Initiators
  /\ pc \in {"commands", "behind", "rest"} => m_State = "Connected"

(* Who packets on the control port are from. *)
LEMMA ControlFrom ==
  ASSUME NEW p \in ControlPackets \cup {NoPacket}
  PROVE  /\ p.from \in Somebody
         /\ p.kind \in {"invitation", "endSession"} => p.from \in Initiators
BY DEF ControlPackets, OtherPacket, NoPacket, Somebody

(* Who packets on the MIDI port are from. *)
LEMMA MIDIFrom ==
  ASSUME NEW p \in MIDIPackets \cup {NoPacket}
  PROVE  /\ p.from \in Somebody
         /\ p.kind = "invitation" => p.from \in Initiators
BY DEF MIDIPackets, OtherPacket, NoPacket, Somebody

(* The ports of addresses are numbers, and Nobody is none of the initiators. *)
LEMMA Addresses ==
  /\ \A p \in Somebody : p.port \in Int
  /\ Nobody \notin Initiators
  /\ \A p, q \in Initiators : p.ip = q.ip /\ p.port = q.port /\ p.id = q.id => p = q
<1>1. Nobody \notin Initiators
  BY InitiatorAssumption
<1>2. \A p \in Initiators : p \in [ip : STRING, port : Int, id : Int]
  BY InitiatorAssumption
<1>3. \A p \in Somebody : p.port \in Int
  BY <1>2 DEF Somebody, Nobody
<1>4. QED
  BY <1>1, <1>2, <1>3

(* The task starts without a session. *)
LEMMA SessionInit == Init => SessionInv
<1> SUFFICES ASSUME Init PROVE SessionInv
  OBVIOUS
<1>1. Nobody \in Somebody /\ LongNoSync \in Nat
  BY TimeoutAssumption DEF Somebody, LongNoSync
<1>2. QED
  BY <1>1 DEF Init, SessionInv

(* Forgetting a session leaves the invariant. *)
LEMMA ResetKeeps ==
  ASSUME SessionInv, Reset, pc' = "yield", UNCHANGED io
  PROVE  SessionInv'
<1>1. Nobody \in Somebody /\ LongNoSync \in Nat
  BY TimeoutAssumption DEF Somebody, LongNoSync
<1>2. QED
  BY <1>1 DEF SessionInv, Reset, io

(* Every turn of the task, and of the clock, keeps the invariant. *)
LEMMA SessionStep == SessionInv /\ [Next]_vars => SessionInv'
<1> SUFFICES ASSUME SessionInv, [Next]_vars PROVE SessionInv'
  OBVIOUS
<1>1. CASE Receive
  <2>1. control' \in [result : Int, packet : ControlPackets \cup {NoPacket}]
    BY <1>1 DEF Receive, SessionInv
  <2>2. QED
    BY <1>1, <2>1 DEF Receive, SessionInv, session, clock, sequence, parsing
<1>2. CASE Tick
  <2>1. sinceSync' \in Nat
    BY <1>2 DEF Tick, SessionInv, Earlier
  <2>2. QED
    BY <1>2, <2>1 DEF Tick, SessionInv, io, session
<1>3. CASE StayIdle
  BY <1>3 DEF StayIdle, SessionInv, In, io, session, clock
<1>4. CASE AcceptControl
  <2>1. initiator' = [initiator EXCEPT !.control = control.packet.from]
    BY <1>4 DEF AcceptControl
  <2>2. control.packet.from \in Initiators
    BY <1>4, ControlFrom DEF AcceptControl, SessionInv
  <2>3. /\ initiator' \in [control : Somebody, midiPort : Int]
        /\ initiator'.control \in Initiators
    BY <2>1, <2>2 DEF SessionInv, Somebody
  <2>4. QED
    BY <1>4, <2>3 DEF AcceptControl, SessionInv, In, io
<1>5. CASE MIDIInvitationUnexpected
  BY <1>5 DEF MIDIInvitationUnexpected, SessionInv, In, io, session, clock
<1>6. CASE AcceptMIDI
  <2>1. initiator' = [initiator EXCEPT !.midiPort = midi.from.port]
    BY <1>6 DEF AcceptMIDI
  <2>2. midi.from.port \in Int
    BY MIDIFrom, Addresses DEF SessionInv
  <2>3. /\ initiator' \in [control : Somebody, midiPort : Int]
        /\ initiator'.control = initiator.control
    BY <2>1, <2>2 DEF SessionInv
  <2>4. QED
    BY <1>6, <2>3 DEF AcceptMIDI, SessionInv, In, io
<1>7. CASE CannotAcceptMIDI
  BY <1>7, ResetKeeps DEF CannotAcceptMIDI
<1>8. CASE MIDIInvitationTimeout
  BY <1>8, ResetKeeps DEF MIDIInvitationTimeout
<1>9. CASE AwaitMIDIInvitation
  BY <1>9 DEF AwaitMIDIInvitation, SessionInv, In, io, session, clock
<1>10. CASE SessionEnded
  BY <1>10, ResetKeeps DEF SessionEnded
<1>11. CASE NothingToParse
  BY <1>11 DEF NothingToParse, Goes, SessionInv, In, io, session
<1>12. CASE ParseMIDIPacket
  BY <1>12 DEF ParseMIDIPacket, Goes, SessionInv, In, io, session
<1>13. CASE SyncReceived
  <2>1. sinceSync' \in Nat
    BY <1>13 DEF SyncReceived, SessionInv
  <2>2. QED
    BY <1>13, <2>1 DEF SyncReceived, Goes, SessionInv, In, io, session
<1>14. CASE CommandTurn
  BY <1>14 DEF CommandTurn, SessionInv, io, session, clock
<1>15. CASE PacketParsed
  BY <1>15 DEF PacketParsed, SessionInv, io, session, clock
<1>16. CASE Rest
  <2>1. CASE sinceSync > SyncTimeout
    BY <1>16, <2>1, ResetKeeps DEF Rest
  <2>2. CASE ~(sinceSync > SyncTimeout)
    BY <1>16, <2>2 DEF Rest, SessionInv, io, session
  <2>3. QED
    BY <2>1, <2>2
<1>17. CASE Yield
  <2>1. control' \in [result : Int, packet : ControlPackets \cup {NoPacket}]
    BY <1>17 DEF Yield, SessionInv
  <2>2. QED
    BY <1>17, <2>1 DEF Yield, SessionInv, session, clock
<1>18. CASE PassEnd
  BY <1>18 DEF PassEnd, SessionInv, io, session, clock
<1>19. CASE ReadBehind
  BY <1>19 DEF ReadBehind, SessionInv, io, session, clock
<1>20. CASE UNCHANGED vars
  BY <1>20 DEF vars, SessionInv, io, session, clock
<1>21. QED
  BY <1>1, <1>2, <1>3, <1>4, <1>5, <1>6, <1>7, <1>8, <1>9, <1>10, <1>11, <1>12,
     <1>13, <1>14, <1>15, <1>16, <1>17, <1>18, <1>19, <1>20 DEF Next, Turn

(* The invariant holds in every reachable state. *)
THEOREM SessionInvariant == Spec => []SessionInv
<1>1. QED
  BY SessionInit, SessionStep, PTL DEF Spec

----------------------------------------------------------------------------
(* Every state of the task is one of the session: mapping Init. *)
LEMMA RefinedInit == Init => Session!Init
BY DEF Init, Session!Init, Silent

(* A step of the task that leaves what the session shows is a stutter; and *)
(* each of the others is the action of the session that it stands for.     *)
LEMMA RefinedStep == SessionInv /\ [Next]_vars => [Session!Next]_(Session!vars)
<1> SUFFICES ASSUME SessionInv, [Next]_vars PROVE [Session!Next]_(Session!vars)
  OBVIOUS
<1> USE DEF Session!Next, Session!vars, Silent, In, io, session, clock, sequence, parsing
<1>a. Nobody \notin Initiators /\ (m_State # "ControlInvitation" => initiator.control # Nobody)
  BY Addresses DEF SessionInv
<1>b. \A x, y : [ip |-> x, port |-> y] # Nobody
  BY DEF Nobody
<1>1. CASE Receive
  <2>1. control'.packet \in ControlPackets \cup {NoPacket}
    BY <1>1 DEF Receive, SessionInv
  <2>2. midi' \in MIDIPackets \cup {NoPacket}
    BY <1>1 DEF Receive
  <2>3. control'.packet.from \in Somebody /\ midi'.from \in Somebody
    BY <2>1, <2>2, ControlFrom, MIDIFrom
  <2>4. Session!Arrive
    BY <1>1, <2>3 DEF Receive, Session!Arrive, Somebody
  <2>5. QED
    BY <2>4
<1>2. CASE Tick
  <2>1. CASE sinceSync' > sinceSync
    BY <1>2, <2>1 DEF Tick, Session!TimePasses
  <2>2. CASE sinceSync' = sinceSync
    BY <1>2, <2>2 DEF Tick
  <2>3. QED
    BY <1>2, <2>1, <2>2 DEF Tick, Earlier, SessionInv
<1>3. CASE StayIdle
  BY <1>3 DEF StayIdle
<1>4. CASE AcceptControl
  <2>1. initiator'.control = control.packet.from
    BY <1>4 DEF AcceptControl, SessionInv
  <2>2. CASE m_State' = "MIDIInvitation" /\ sinceSync' = 0
    BY <1>4, <2>1, <2>2 DEF AcceptControl, Session!Invite
  <2>3. CASE UNCHANGED <<m_State, sinceSync>>
    BY <1>4, <2>3 DEF AcceptControl
  <2>4. QED
    BY <1>4, <2>2, <2>3 DEF AcceptControl
<1>5. CASE MIDIInvitationUnexpected
  BY <1>5 DEF MIDIInvitationUnexpected
<1>6. CASE AcceptMIDI
  <2>1. initiator'.control = initiator.control /\ initiator'.midiPort = midi.from.port
    BY <1>6 DEF AcceptMIDI, SessionInv
  <2>2. Session!Join
    BY <1>6, <1>a, <2>1 DEF AcceptMIDI, Session!Join
  <2>3. QED
    BY <2>2
<1>7. CASE CannotAcceptMIDI
  <2>1. Session!Failing
    BY <1>7 DEF CannotAcceptMIDI, Session!Failing
  <2>2. Session!End
    BY <1>7, <1>a, <2>1 DEF CannotAcceptMIDI, Reset, Session!End
  <2>3. QED
    BY <2>2
<1>8. CASE MIDIInvitationTimeout
  <2>1. Session!Leaving
    BY <1>8 DEF MIDIInvitationTimeout, Session!Leaving
  <2>2. Session!End
    BY <1>8, <1>a, <2>1 DEF MIDIInvitationTimeout, Reset, Session!End
  <2>3. QED
    BY <2>2
<1>9. CASE AwaitMIDIInvitation
  BY <1>9 DEF AwaitMIDIInvitation
<1>10. CASE SessionEnded
  <2>1. control.packet.from \in Initiators /\ initiator.control \in Initiators
    BY <1>10, ControlFrom DEF SessionEnded, EndOfSession, SessionInv
  <2>2. control.packet.from = initiator.control
    BY <1>10, <2>1, Addresses DEF SessionEnded, EndOfSession, ControlFromInitiator
  <2>3. Session!Leaving
    BY <1>10, <1>b, <2>2 DEF SessionEnded, EndOfSession, Session!Leaving
  <2>4. Session!End
    BY <1>10, <1>a, <2>3 DEF SessionEnded, Reset, Session!End
  <2>5. QED
    BY <2>4
<1>11. CASE NothingToParse
  BY <1>11 DEF NothingToParse, Goes
<1>12. CASE ParseMIDIPacket
  <2>1. Session!FromVoice
    BY <1>12, <1>b DEF ParseMIDIPacket, Goes, MIDIFromInitiator, Session!FromVoice,
                       Session!SameEndpoint
  <2>2. Session!Hear
    BY <1>12, <2>1 DEF ParseMIDIPacket, Goes, Session!Hear
  <2>3. QED
    BY <2>2
<1>13. CASE SyncReceived
  <2>1. CASE ExpectedSync
    <3>1. Session!FromVoice
      BY <1>13, <1>b DEF SyncReceived, Goes, MIDIFromInitiator, Session!FromVoice,
                         Session!SameEndpoint
    <3>2. Session!Sync
      BY <1>13, <2>1, <3>1 DEF SyncReceived, Goes, ExpectedSync, Session!Sync
    <3>3. QED
      BY <3>2
  <2>2. CASE ~ExpectedSync
    BY <1>13, <2>2 DEF SyncReceived, Goes
  <2>3. QED
    BY <2>1, <2>2
<1>14. CASE CommandTurn
  BY <1>14 DEF CommandTurn
<1>15. CASE PacketParsed
  BY <1>15 DEF PacketParsed, Session!HeardAll
<1>16. CASE Rest
  <2>1. CASE sinceSync > SyncTimeout
    <3>1. Session!Leaving
      BY <1>16, <1>b, <2>1 DEF Rest, Session!Leaving, SessionInv
    <3>2. Session!End
      BY <1>16, <1>a, <2>1, <3>1 DEF Rest, Reset, Session!End, SessionInv
    <3>3. QED
      BY <3>2
  <2>2. CASE ~(sinceSync > SyncTimeout)
    BY <1>16, <2>2 DEF Rest
  <2>3. QED
    BY <2>1, <2>2
<1>17. CASE Yield
  <2>1. control'.packet = control.packet /\ midi'.from = Nobody
    BY <1>17 DEF Yield, SessionInv, NoPacket
  <2>2. control.packet.from \in Somebody
    BY ControlFrom DEF SessionInv
  <2>3. Session!Arrive
    BY <1>17, <2>1, <2>2 DEF Yield, Session!Arrive, Somebody
  <2>4. QED
    BY <2>3
<1>18. CASE PassEnd
  BY <1>18 DEF PassEnd
<1>19. CASE ReadBehind
  BY <1>19 DEF ReadBehind, Session!HeardAll
<1>20. CASE UNCHANGED vars
  BY <1>20 DEF vars
<1>21. QED
  BY <1>1, <1>2, <1>3, <1>4, <1>5, <1>6, <1>7, <1>8, <1>9, <1>10, <1>11, <1>12,
     <1>13, <1>14, <1>15, <1>16, <1>17, <1>18, <1>19, <1>20 DEF Next, Turn

(* The participant implements MidiSession: one session at a time, ended by *)
(* its initiator or by its silence, and nobody else's commands are taken.  *)
THEOREM Refinement == Spec => SessionSpec
<1>1. SessionInv /\ SessionInv' /\ [Next]_vars => [Session!Next]_(Session!vars)
  BY RefinedStep
<1>2. QED
  BY <1>1, RefinedInit, SessionInvariant, PTL DEF Spec, SessionSpec, Session!Spec

----------------------------------------------------------------------------
(* What InvitationsAnswered says of a step. *)
Answered ==
  LET p == control.packet.from
  IN  pc = "handle" /\ control.result > 0 /\ control.packet.kind = "invitation" =>
        \/ \E kind \in {"accept", "reject"} : Reply(kind, p, p.port, p.id) \in sent'
        \/ m_State # "ControlInvitation" /\ ControlFromInitiator

(* Each of the handlers sends an answer, or has sent one before. *)
LEMMA AnsweredStep == SessionInv /\ [Next]_vars => [Answered]_vars
<1> SUFFICES ASSUME SessionInv, Next,
                    pc = "handle", control.result > 0, control.packet.kind = "invitation",
                    ~(m_State # "ControlInvitation" /\ ControlFromInitiator)
             PROVE  \E kind \in {"accept", "reject"} :
                      Reply(kind, control.packet.from, control.packet.from.port,
                            control.packet.from.id) \in sent'
  BY DEF Answered
<1> DEFINE p == control.packet.from
<1>1. CASE AcceptControl
  <2>1. sent' = {Reply("accept", p, p.port, p.id)}
    BY <1>1 DEF AcceptControl
  <2>2. QED
    BY <2>1
<1>2. CASE m_State # "ControlInvitation" /\ ControlReplies \subseteq sent'
  <2>1. ControlReplies = {Reply("reject", p, p.port, p.id)}
    BY <1>2 DEF ControlReplies
  <2>2. QED
    BY <1>2, <2>1
<1>3. CASE MIDIInvitationUnexpected
  BY <1>2, <1>3 DEF MIDIInvitationUnexpected, In
<1>4. CASE AcceptMIDI
  BY <1>2, <1>4 DEF AcceptMIDI, In
<1>5. CASE CannotAcceptMIDI
  BY <1>2, <1>5 DEF CannotAcceptMIDI, In
<1>6. CASE MIDIInvitationTimeout
  BY <1>2, <1>6 DEF MIDIInvitationTimeout, In
<1>7. CASE AwaitMIDIInvitation
  BY <1>2, <1>7 DEF AwaitMIDIInvitation, In
<1>8. CASE NothingToParse
  BY <1>2, <1>8 DEF NothingToParse, Goes, In
<1>9. CASE ParseMIDIPacket
  BY <1>2, <1>9 DEF ParseMIDIPacket, Goes, In
<1>10. CASE SyncReceived
  BY <1>2, <1>10 DEF SyncReceived, Goes, In
<1>11. /\ ~Receive /\ ~Tick /\ ~CommandTurn /\ ~PassEnd /\ ~ReadBehind
       /\ ~PacketParsed /\ ~Rest /\ ~Yield
  BY DEF Receive, Tick, CommandTurn, PassEnd, ReadBehind, PacketParsed, Rest, Yield
<1>12. ~StayIdle /\ ~SessionEnded
  <2>1. control.result # 0
    BY DEF SessionInv
  <2>2. QED
    BY <2>1 DEF StayIdle, SessionEnded, EndOfSession
<1>13. QED
  BY <1>1, <1>3, <1>4, <1>5, <1>6, <1>7, <1>8, <1>9, <1>10, <1>11, <1>12 DEF Next, Turn

(* Whoever invites the Pi is told yes or no, unless the session is its own. *)
THEOREM EveryInvitationAnswered == Spec => InvitationsAnswered
<1>1. InvitationsAnswered <=> [][Answered]_vars
  BY DEF InvitationsAnswered, Answered
<1>2. QED
  BY <1>1, SessionInvariant, AnsweredStep, PTL DEF Spec

----------------------------------------------------------------------------
(* A set of numbers with 0 and every successor in it has all of them. *)
LEMMA NatInSet ==
  ASSUME NEW T, 0 \in T, \A n \in Nat : n \in T => n + 1 \in T
  PROVE  Nat \subseteq T
<1> SUFFICES ASSUME NEW n \in Nat, n \notin T PROVE FALSE
  OBVIOUS
<1> DEFINE Left == Nat \ T
<1>1. IsWellFoundedOn(OpToRel(<, Nat), Nat)
  BY NatLessThanWellFounded
<1>2. \A x, y \in Nat : y < x => <<y, x>> \in OpToRel(<, Nat)
  BY DEF OpToRel
<1>3. PICK x \in Left : \A y \in Left : <<y, x>> \notin OpToRel(<, Nat)
  <2>1. Left \subseteq Nat /\ Left # {}
    OBVIOUS
  <2> HIDE DEF Left
  <2>2. QED
    BY <1>1, <2>1, WFMin
<1>4. x # 0 /\ x \in Nat
  OBVIOUS
<1>5. x - 1 \in Nat /\ x - 1 < x /\ (x - 1) + 1 = x
  BY <1>4
<1>6. x - 1 \notin Left
  BY <1>2, <1>3, <1>4, <1>5
<1>7. QED
  BY <1>5, <1>6

(* f joins the first m sequences of ss, one after the other. *)
Flattens(f, ss, m) ==
  f = [i \in 1..m |-> IF i = 1 THEN ss[i] ELSE f[i - 1] \o ss[i]]

Flattening(ss) == CHOOSE f : Flattens(f, ss, Len(ss))

(* FlattenSeq is the last of what such a function has. *)
LEMMA FlattenSeqIs ==
  ASSUME NEW ss
  PROVE  FlattenSeq(ss) = IF Len(ss) = 0 THEN ss ELSE Flattening(ss)[Len(ss)]
BY Zenon DEF FlattenSeq, Flattening, Flattens

(* There is such a function for any m: the recursion is well founded. *)
LEMMA FlatteningExists ==
  ASSUME NEW ss, NEW n \in Nat
  PROVE  \E f : Flattens(f, ss, n)
<1> DEFINE T == {m \in Nat : \E f : Flattens(f, ss, m)}
<1>1. 0 \in T
  <2>1. [i \in 1..0 |-> 0]
          = [i \in 1..0 |-> IF i = 1 THEN ss[i] ELSE [j \in 1..0 |-> 0][i - 1] \o ss[i]]
    OBVIOUS
  <2>2. QED
    BY <2>1 DEF Flattens
<1>2. ASSUME NEW m \in Nat, m \in T PROVE m + 1 \in T
  <2>1. PICK f : Flattens(f, ss, m)
    BY <1>2
  <2> DEFINE g == [i \in 1..(m + 1) |-> IF i <= m THEN f[i]
                     ELSE IF i = 1 THEN ss[i] ELSE f[i - 1] \o ss[i]]
  <2>2. f = [i \in 1..m |-> IF i = 1 THEN ss[i] ELSE f[i - 1] \o ss[i]]
    BY <2>1 DEF Flattens
  <2>3. ASSUME NEW i \in 1..(m + 1)
        PROVE  g[i] = IF i = 1 THEN ss[i] ELSE g[i - 1] \o ss[i]
    <3>1. CASE i = 1
      <4>1. i \in 1..m => f[i] = ss[i]
        BY <2>2, <3>1
      <4>2. QED
        BY <3>1, <4>1
    <3>2. CASE i # 1
      <4>1. i - 1 \in 1..(m + 1) /\ i - 1 <= m
        BY <3>2
      <4>2. g[i - 1] = f[i - 1]
        BY <4>1
      <4>3. i <= m => i \in 1..m
        OBVIOUS
      <4>4. i <= m => f[i] = f[i - 1] \o ss[i]
        BY <2>2, <3>2, <4>3
      <4>5. g[i] = f[i - 1] \o ss[i]
        BY <3>2, <4>4
      <4>6. QED
        BY <3>2, <4>2, <4>5
    <3>3. QED
      BY <3>1, <3>2
  <2>4. Flattens(g, ss, m + 1)
    <3>1. g = [i \in 1..(m + 1) |-> g[i]]
      OBVIOUS
    <3> HIDE DEF g
    <3>2. QED
      BY <2>3, <3>1, Zenon DEF Flattens
  <2> HIDE DEF g
  <2>5. QED
    BY <2>4
<1>3. Nat \subseteq T
  <2> HIDE DEF T
  <2>1. QED
    BY <1>1, <1>2, NatInSet
<1>4. QED
  BY <1>3

(* A sequence of sequences is joined from the left: for each k there is    *)
(* what its first k make, and the whole is that with something behind it.  *)
Joins(g, ss, S) ==
  /\ g \in [0..Len(ss) -> Seq(S)]
  /\ g[0] = <<>> /\ g[Len(ss)] = FlattenSeq(ss)
  /\ \A k \in 1..Len(ss) : g[k] = g[k - 1] \o ss[k]
  /\ \A k \in 0..Len(ss) : \E r \in Seq(S) : g[Len(ss)] = g[k] \o r

(* That is so for whatever is joined, by induction on how much of it is. *)
LEMMA FlattenSeqJoins ==
  ASSUME NEW S, NEW ss \in Seq(Seq(S))
  PROVE  \E g : Joins(g, ss, S)
<1> DEFINE n == Len(ss)
           f == Flattening(ss)
           g == [k \in 0..n |-> IF k = 0 THEN <<>> ELSE f[k]]
<1>1. n \in Nat /\ \A k \in 1..n : ss[k] \in Seq(S)
  BY LenProperties, ElementOfSeq
<1>2. f = [i \in 1..n |-> IF i = 1 THEN ss[i] ELSE f[i - 1] \o ss[i]]
  <2>1. Flattens(f, ss, n)
    BY <1>1, FlatteningExists, Zenon DEF Flattening
  <2> HIDE DEF f
  <2>2. QED
    BY <2>1 DEF Flattens
<1> HIDE DEF f
<1>3. ASSUME NEW k \in 1..n PROVE g[k] = g[k - 1] \o ss[k]
  <2>1. CASE k = 1
    <3>1. g[k] = ss[k] /\ g[k - 1] = <<>>
      BY <1>2, <2>1
    <3>2. ss[k] \in Seq(S)
      BY <1>1
    <3>3. <<>> \o ss[k] = ss[k]
      BY <3>2, ConcatEmptySeq
    <3>4. QED
      BY <3>1, <3>3
  <2>2. CASE k # 1
    <3>1. k - 1 \in 1..n /\ k - 1 # 0
      BY <1>1, <2>2
    <3>2. g[k] = f[k] /\ g[k - 1] = f[k - 1]
      BY <3>1
    <3>3. QED
      BY <1>2, <2>2, <3>2
  <2>3. QED
    BY <2>1, <2>2
<1>4. g[0] = <<>>
  BY <1>1
<1>5. g[n] = FlattenSeq(ss)
  <2>1. CASE n = 0
    <3>1. ss = <<>>
      BY <2>1, EmptySeq
    <3>2. QED
      BY <1>4, <2>1, <3>1, FlattenSeqIs
  <2>2. CASE n # 0
    BY <1>1, <2>2, FlattenSeqIs DEF f
  <2>3. QED
    BY <2>1, <2>2
<1>6. ASSUME NEW k \in 0..n PROVE g[k] \in Seq(S)
  <2> HIDE DEF n, g
  <2> DEFINE T == {m \in Nat : m <= n => g[m] \in Seq(S)}
  <2>1. 0 \in T
    BY <1>4, EmptySeq
  <2>2. ASSUME NEW m \in Nat, m \in T PROVE m + 1 \in T
    <3>1. SUFFICES ASSUME m + 1 <= n PROVE g[m + 1] \in Seq(S)
      OBVIOUS
    <3>2. g[m] \in Seq(S) /\ m + 1 \in 1..n /\ (m + 1) - 1 = m
      BY <1>1, <2>2, <3>1
    <3>3. ss[m + 1] \in Seq(S) /\ g[m + 1] = g[m] \o ss[m + 1]
      BY <1>1, <1>3, <3>2
    <3>4. QED
      BY <3>2, <3>3, ConcatProperties
  <2> HIDE DEF T
  <2>3. Nat \subseteq T
    BY <2>1, <2>2, NatInSet
  <2>4. QED
    BY <1>1, <2>3 DEF T
<1>7. g \in [0..n -> Seq(S)]
  BY <1>6
<1> HIDE DEF g, n
<1>8. ASSUME NEW k \in 0..n PROVE \E r \in Seq(S) : g[n] = g[k] \o r
  <2> DEFINE T == {m \in Nat : m + k <= n => \E r \in Seq(S) : g[m + k] = g[k] \o r}
  <2>2. 0 \in T
    <3>1. g[k] \in Seq(S) /\ <<>> \in Seq(S)
      BY <1>6, EmptySeq
    <3>2. g[k] \o <<>> = g[k] /\ 0 + k = k
      BY <1>1, <3>1, ConcatEmptySeq
    <3>3. QED
      BY <3>1, <3>2
  <2>3. ASSUME NEW m \in Nat, m \in T PROVE m + 1 \in T
    <3>1. SUFFICES ASSUME (m + 1) + k <= n
                   PROVE  \E r \in Seq(S) : g[(m + 1) + k] = g[k] \o r
      BY SMTT(30)
    <3>2. m + k <= n /\ (m + 1) + k \in 1..n /\ ((m + 1) + k) - 1 = m + k
      BY <1>1, <3>1
    <3>3. PICK r \in Seq(S) : g[m + k] = g[k] \o r
      BY <2>3, <3>2
    <3> DEFINE x == ss[(m + 1) + k]
    <3>4. x \in Seq(S) /\ g[(m + 1) + k] = g[m + k] \o x
      BY <1>1, <1>3, <3>2
    <3>5. g[k] \in Seq(S)
      BY <1>6
    <3> HIDE DEF x, T, n
    <3>6. r \o x \in Seq(S)
      BY <3>4, ConcatProperties
    <3>7. (g[k] \o r) \o x = g[k] \o (r \o x)
      <4>1. ASSUME NEW a \in Seq(S), NEW b \in Seq(S), NEW c \in Seq(S)
            PROVE  (a \o b) \o c = a \o (b \o c)
        BY SMTT(30)
      <4>2. QED
        BY <3>4, <3>5, <4>1
    <3>8. g[(m + 1) + k] = g[k] \o (r \o x)
      BY <3>3, <3>4, <3>7
    <3>9. QED
      BY <3>6, <3>8
  <2>4. PICK j \in Nat : j + k = n
    <3>1. n - k \in Nat /\ (n - k) + k = n
      BY <1>1
    <3>2. QED
      BY <3>1
  <2>5. Nat \subseteq T
    <3> HIDE DEF T
    <3>1. QED
      BY <2>2, <2>3, NatInSet
  <2>6. j + k <= n => \E r \in Seq(S) : g[j + k] = g[k] \o r
    BY <2>5
  <2>7. g[j + k] = g[n] /\ j + k <= n
    <3>1. g[j + k] = g[n]
      BY <2>4, Zenon
    <3>2. QED
      BY <1>1, <2>4, <3>1
  <2>8. QED
    BY <2>6, <2>7, Zenon
<1>9. QED
  BY <1>3, <1>4, <1>5, <1>7, <1>8 DEF Joins, n

----------------------------------------------------------------------------
(* The parser of a command list.  FirstOf finds the least number of a set. *)
LEMMA FirstOfIs ==
  ASSUME NEW S, S \subseteq Nat, NEW n \in S, \A j \in S : n <= j, NEW otherwise
  PROVE  FirstOf(S, otherwise) = n
<1>1. \A k \in S : (\A j \in S : k <= j) => k = n
  OBVIOUS
<1>2. S # {}
  OBVIOUS
<1>3. (CHOOSE k \in S : \A j \in S : k <= j) = n
  BY <1>1
<1>4. QED
  BY <1>2, <1>3 DEF FirstOf

(* The two parts of joined sequences, taken apart again. *)
LEMMA TakenApart ==
  ASSUME NEW S, NEW a \in Seq(S), NEW b \in Seq(S)
  PROVE  /\ DropFirst(a \o b, Len(a)) = b
         /\ SubSeq(a \o b, 1, Len(a)) = a
         /\ DropFirst(b, 0) = b
<1>1. /\ Len(a \o b) = Len(a) + Len(b) /\ a \o b \in Seq(S)
      /\ Len(a) \in Nat /\ Len(b) \in Nat
  BY ConcatProperties, LenProperties
<1>2. DropFirst(a \o b, Len(a)) = b
  BY <1>1 DEF DropFirst
<1>3. SubSeq(a \o b, 1, Len(a)) = a
  BY <1>1
<1>4. DropFirst(b, 0) = b
  BY DEF DropFirst
<1>5. QED
  BY <1>2, <1>3, <1>4

(* What is behind the same beginning is the same. *)
LEMMA Cancelled ==
  ASSUME NEW S, NEW a \in Seq(S), NEW b \in Seq(S), NEW c \in Seq(S), a \o b = a \o c
  PROVE  b = c
<1>1. DropFirst(a \o b, Len(a)) = b
  BY TakenApart
<1>2. DropFirst(a \o c, Len(a)) = c
  BY TakenApart
<1>3. QED
  BY <1>1, <1>2

(* A delta time is skipped as a whole, whatever comes behind it. *)
LEMMA DeltaSkipped ==
  ASSUME NEW d \in Seq(Byte), IsDelta(d), NEW s \in Seq(Byte)
  PROVE  ParseMIDIDeltaTime(d \o s) = Len(d)
<1> DEFINE t == d \o s
           S == {k \in 1..4 : k <= Len(t) /\ t[k] < 128}
<1>1. /\ Len(d) \in 1..4 /\ Len(s) \in Nat
      /\ \A i \in 1..Len(d) : d[i] < 128 <=> i = Len(d)
  <2>1. DOMAIN d = 1..Len(d) /\ Len(s) \in Nat
    BY LenProperties
  <2>2. QED
    BY <2>1 DEF IsDelta
<1>2. Len(t) = Len(d) + Len(s) /\ \A i \in 1..Len(d) : t[i] = d[i]
  BY <1>1, ConcatProperties
<1> HIDE DEF t
<1>3. Len(d) \in S
  <2>1. Len(d) <= Len(t)
    BY <1>1, <1>2
  <2>2. Len(d) \in 1..Len(d)
    BY <1>1
  <2>3. t[Len(d)] < 128
    BY <1>1, <1>2, <2>2
  <2>4. QED
    BY <1>1, <2>1, <2>3
<1>4. ASSUME NEW j \in S PROVE Len(d) <= j
  <2>1. SUFFICES ASSUME j < Len(d) PROVE FALSE
    BY <1>1
  <2>2. j \in 1..Len(d) /\ t[j] < 128
    BY <1>1, <2>1
  <2>3. d[j] < 128
    BY <1>2, <2>2
  <2>4. QED
    BY <1>1, <2>1, <2>2, <2>3
<1>5. S \subseteq Nat
  OBVIOUS
<1> HIDE DEF S
<1>6. FirstOf(S, 4) = Len(d)
  BY <1>3, <1>4, <1>5, FirstOfIs
<1>7. QED
  BY <1>6 DEF S, t, ParseMIDIDeltaTime

(* The running status behind a command that begins with b. *)
Running(b, status) ==
  IF b \in 128..247 THEN RunningStatus(b) ELSE status

(* Where the parser takes a SysEx, or a segment of one, to end. *)
SysExEnd(t) == FirstOf({k \in 2..Len(t) : t[k] \in {240, 244, 247}}, Len(t))

(* It is the end of the SysEx, whatever comes behind. *)
LEMMA SysExFramed ==
  ASSUME NEW s \in Seq(Byte), NEW head \in {240, 247}, NEW tail \in {240, 247},
         IsFramed(s, head, tail), NEW r \in Seq(Byte)
  PROVE  SysExEnd(s \o r) = Len(s)
<1> DEFINE S == {k \in 2..Len(s \o r) : (s \o r)[k] \in {240, 244, 247}}
<1>1. /\ Len(s) \in Nat /\ Len(s) >= 2 /\ s[Len(s)] = tail
      /\ Len(r) \in Nat
  BY LenProperties DEF IsFramed
<1>2. \A i \in 2..(Len(s) - 1) : s[i] < 128
  <2> DEFINE data == SubSeq(s, 2, Len(s) - 1)
  <2>1. \A i \in 2..(Len(s) - 1) : s[i] \in Byte
    BY <1>1, ElementOfSeq
  <2>2. /\ data \in Seq(Byte)
        /\ Len(data) = IF 2 <= Len(s) - 1 THEN Len(s) - 2 ELSE 0
        /\ \A i \in 1..(Len(s) - 2) : data[i] = s[i + 1]
    BY <1>1, <2>1
  <2>3. \A i \in DOMAIN data : data[i] < 128
    BY DEF IsFramed, IsData
  <2> HIDE DEF data
  <2>4. DOMAIN data = 1..Len(data)
    BY <2>2, LenProperties
  <2>5. ASSUME NEW i \in 2..(Len(s) - 1) PROVE s[i] < 128
    <3>1. i - 1 \in DOMAIN data /\ i - 1 \in 1..(Len(s) - 2) /\ (i - 1) + 1 = i
      BY <1>1, <2>2, <2>4
    <3>2. QED
      BY <2>2, <2>3, <3>1
  <2>6. QED
    BY <2>5
<1>3. Len(s \o r) = Len(s) + Len(r) /\ \A i \in 1..Len(s) : (s \o r)[i] = s[i]
  BY <1>1, ConcatProperties
<1>4. Len(s) \in S
  BY <1>1, <1>3
<1>5. ASSUME NEW j \in S PROVE Len(s) <= j
  <2>1. CASE j \in 2..(Len(s) - 1)
    BY <1>1, <1>2, <1>3, <2>1
  <2>2. CASE ~(j \in 2..(Len(s) - 1))
    BY <1>1, <1>3, <2>2
  <2>3. QED
    BY <2>1, <2>2
<1>6. S \subseteq Nat
  BY <1>1, <1>3
<1> HIDE DEF S
<1>7. FirstOf(S, Len(s \o r)) = Len(s)
  BY <1>4, <1>5, <1>6, FirstOfIs
<1>8. QED
  BY <1>7 DEF S, SysExEnd

(* What becomes of s, which begins with a command whose first byte is b. *)
Decided(s, b, status) ==
  /\ b \in {249, 253} => ParseMIDICommand(s, status) = Parsed(1, <<>>, status)
  /\ b \in {248, 250, 251, 252, 254, 255} =>
       ParseMIDICommand(s, status) = Command(s, 1, status)
  /\ b \in {240, 247} => ParseMIDICommand(s, status) = ParseSysExCommand(s)
  /\ b \in 128..246 \ {240} =>
       ParseMIDICommand(s, status) = Command(s, 1 + DataBytes(b), RunningStatus(b))
  /\ b < 128 /\ status # 0 =>
       ParseMIDICommand(s, status) = Command(s, DataBytes(status), status)

(* The first byte decides what the parser makes of a command. *)
LEMMA FirstByteDecides ==
  ASSUME NEW s, NEW b \in Byte, s[1] = b, NEW status \in Int
  PROVE  Decided(s, b, status)
<1>0. b \in Int
  BY DEF Byte
<1>1. ASSUME b \in {249, 253}
      PROVE  ParseMIDICommand(s, status) = Parsed(1, <<>>, status)
  <2>1. CASE b = 249
    BY <2>1 DEF ParseMIDICommand
  <2>2. CASE b = 253
    BY <2>2 DEF ParseMIDICommand
  <2>3. QED
    BY <1>1, <2>1, <2>2
<1>2. ASSUME b \in {248, 250, 251, 252, 254, 255}
      PROVE  ParseMIDICommand(s, status) = Command(s, 1, status)
  BY <1>0, <1>2 DEF ParseMIDICommand
<1>3. ASSUME b \in {240, 247}
      PROVE  ParseMIDICommand(s, status) = ParseSysExCommand(s)
  BY <1>0, <1>3 DEF ParseMIDICommand
<1>4. ASSUME b \in 128..246 \ {240}
      PROVE  ParseMIDICommand(s, status) = Command(s, 1 + DataBytes(b), RunningStatus(b))
  BY <1>0, <1>4 DEF ParseMIDICommand
<1>5. ASSUME b < 128, status # 0
      PROVE  ParseMIDICommand(s, status) = Command(s, DataBytes(status), status)
  <2>1. ParseMIDICommand(s, status) = ParseRunningCommand(s, status)
    <3>1. /\ b \notin {249, 253} /\ b \notin {248, 250, 251, 252, 254, 255}
          /\ b \notin {240, 247} /\ b \notin 128..246 \ {240}
      BY <1>0, <1>5
    <3>2. QED
      BY <1>0, <3>1 DEF ParseMIDICommand
  <2>2. QED
    BY <1>5, <2>1 DEF ParseRunningCommand
<1>6. QED
  BY <1>1, <1>2, <1>3, <1>4, <1>5 DEF Decided

(* The data bytes of a status byte are as many as the code takes. *)
LEMMA DataBytesCounted ==
  ASSUME NEW status \in Int, NEW data, NEW n \in Int, Len(data) = n, IsDataOf(status, data)
  PROVE  n = DataBytes(status) /\ status \in 128..246 \ {240}
<1>1. CASE n = 2 /\ status \in 128..191 \cup 224..239 \cup {242}
  <2>1. status \notin 192..223 \cup {241, 243} /\ status \notin {244, 245, 246}
    BY <1>1
  <2>2. QED
    BY <1>1, <2>1 DEF DataBytes
<1>2. CASE n = 1 /\ status \in 192..223 \cup {241, 243}
  BY <1>2 DEF DataBytes
<1>3. CASE n = 0 /\ status = 246
  BY <1>3 DEF DataBytes
<1>4. QED
  BY <1>1, <1>2, <1>3 DEF IsDataOf

(* What a command means is handed on, however it is written and whatever   *)
(* comes behind it, and exactly its bytes are used up.                     *)
LEMMA CommandParsed ==
  ASSUME NEW c, NEW s \in Seq(Byte), c.bytes = s,
         NEW status \in {0} \cup 128..239, IsWritten(c, status), NEW r \in Seq(Byte)
  PROVE  /\ s # <<>> /\ s \o r # <<>>
         /\ ParseMIDICommand(s \o r, status) = Parsed(Len(s), c.midi, Running(s[1], status))
<1> DEFINE t == s \o r
           b == s[1]
           n == Len(s)
<1>1. n \in Nat
  BY LenProperties
<1>2. s # <<>> /\ n >= 1
  BY <1>1 DEF IsWritten, IsFramed
<1>3. b \in Byte /\ t \in Seq(Byte) /\ t[1] = b /\ t # <<>>
  BY <1>1, <1>2, ConcatProperties, ElementOfSeq
<1>4. SubSeq(t, 1, n) = s
  BY <1>1, TakenApart
<1>b. \A left : Command(t, n, left) = Parsed(n, s, left)
  <2>1. Len(r) \in Nat /\ Len(t) = n + Len(r)
    BY LenProperties, ConcatProperties
  <2>2. n <= Len(t)
    BY <1>1, <2>1
  <2>3. QED
    BY <1>4, <2>2 DEF Command
<1> SUFFICES ParseMIDICommand(t, status) = Parsed(n, c.midi, Running(b, status))
  BY <1>2, <1>3
<1> DEFINE Written == IsWritten(c, status)
<1>a. Written
  OBVIOUS
<1> HIDE DEF t, b, n, Written
<1>5. b \in 0..255 /\ b \in Int /\ status \in Int
  <2>1. b \in 0..255
    BY <1>3 DEF Byte
  <2>2. QED
    BY <2>1
<1>6. Decided(t, b, status)
  BY <1>3, <1>5, FirstByteDecides
<1>7. CASE IsDataOf(b, Tail(s)) /\ c.midi = s
  <2>1. Len(Tail(s)) = n - 1 /\ n - 1 \in Int
    BY <1>1, <1>2 DEF n
  <2>2. n - 1 = DataBytes(b) /\ b \in 128..246 \ {240}
    <3>1. IsDataOf(b, Tail(s))
      BY <1>7
    <3>2. QED
      BY <1>5, <2>1, <3>1, DataBytesCounted
  <2>3. DataBytes(b) = n - 1
    BY <2>2
  <2>4. n = 1 + DataBytes(b)
    BY <1>1, <2>3
  <2>5. ParseMIDICommand(t, status) = Command(t, 1 + DataBytes(b), RunningStatus(b))
    BY <1>6, <2>2 DEF Decided
  <2>6. Running(b, status) = RunningStatus(b)
    BY <2>2 DEF Running
  <2>7. QED
    BY <1>b, <1>7, <2>4, <2>5, <2>6, Zenon
<1>8. CASE status # 0 /\ IsDataOf(status, s) /\ c.midi = s
  <2>1. b < 128
    <3>1. 1 \in DOMAIN s
      BY <1>1, <1>2 DEF n
    <3>2. QED
      BY <1>8, <3>1 DEF IsDataOf, IsData, b
  <2>2. n = DataBytes(status)
    BY <1>1, <1>5, <1>8, DataBytesCounted DEF n
  <2>3. ParseMIDICommand(t, status) = Command(t, DataBytes(status), status)
    BY <1>6, <1>8, <2>1 DEF Decided
  <2>4. Running(b, status) = status
    BY <1>5, <2>1 DEF Running
  <2>5. QED
    BY <1>b, <1>8, <2>2, <2>3, <2>4, Zenon
<1>9. CASE n = 1 /\ b \in {248, 250, 251, 252, 254, 255} /\ c.midi = s
  <2>1. ParseMIDICommand(t, status) = Command(t, 1, status)
    BY <1>6, <1>9 DEF Decided
  <2>2. Running(b, status) = status
    BY <1>9 DEF Running
  <2>3. QED
    BY <1>b, <1>9, <2>1, <2>2, Zenon
<1>10. CASE n = 1 /\ b \in {249, 253} /\ c.midi = <<>>
  <2>1. ParseMIDICommand(t, status) = Parsed(1, <<>>, status)
    BY <1>6, <1>10 DEF Decided
  <2>2. Running(b, status) = status
    BY <1>10 DEF Running
  <2>3. QED
    BY <1>10, <2>1, <2>2, Zenon
<1>11. ASSUME NEW tail \in {240, 247}, b \in {240, 247}, IsFramed(s, b, tail)
       PROVE  /\ ParseMIDICommand(t, status) = ParseSysExCommand(t)
              /\ Running(b, status) = 0
              /\ SysExEnd(t) = n
              /\ n >= 2 /\ t[n] = tail
  <2>1. ParseMIDICommand(t, status) = ParseSysExCommand(t)
    BY <1>6, <1>11 DEF Decided
  <2>2. Running(b, status) = 0
    BY <1>11 DEF Running, RunningStatus
  <2>3. SysExEnd(t) = n
    BY <1>11, SysExFramed DEF t, n
  <2>4. n >= 2 /\ s[n] = tail
    BY <1>11 DEF IsFramed, n
  <2>5. t[n] = s[n]
    BY <1>1, <2>4, ConcatProperties DEF t, n
  <2>6. QED
    BY <2>1, <2>2, <2>3, <2>4, <2>5
<1>12. CASE IsFramed(s, 240, 247) /\ c.midi = s
  <2>1. b = 240
    BY <1>12 DEF IsFramed, b
  <2>2. ParseSysExCommand(t) = Parsed(n, SubSeq(t, 1, n), 0)
    BY <1>3, <1>11, <1>12, <2>1 DEF ParseSysExCommand, SysExEnd
  <2>3. QED
    BY <1>4, <1>11, <1>12, <2>1, <2>2
<1>13. CASE IsFramed(s, 240, 240) /\ c.midi = Front(s)
  <2>1. b = 240
    BY <1>13 DEF IsFramed, b
  <2>2. ParseSysExCommand(t) = Parsed(n, SubSeq(t, 1, n - 1), 0)
    BY <1>3, <1>11, <1>13, <2>1 DEF ParseSysExCommand, SysExEnd
  <2>3. SubSeq(t, 1, n - 1) = Front(s)
    BY <1>1, <1>2 DEF Front, t, n
  <2>4. QED
    BY <1>11, <1>13, <2>1, <2>2, <2>3
<1>14. CASE IsFramed(s, 247, 247) /\ c.midi = Tail(s)
  <2>1. b = 247
    BY <1>14 DEF IsFramed, b
  <2>2. ParseSysExCommand(t) = Parsed(n, SubSeq(t, 2, n), 0)
    BY <1>3, <1>11, <1>14, <2>1 DEF ParseSysExCommand, SysExEnd
  <2>3. SubSeq(t, 2, n) = Tail(s)
    BY <1>1, <1>2 DEF t, n
  <2>4. QED
    BY <1>11, <1>14, <2>1, <2>2, <2>3
<1>15. QED
  BY <1>a, <1>7, <1>8, <1>9, <1>10, <1>12, <1>13, <1>14 DEF Written, IsWritten, b, n

(* The running status a command finds is what the one before it has left. *)
LEMMA RunningIs ==
  ASSUME NEW l, NEW k \in Nat, k >= 1, \A j \in 1..k : l[j].bytes[1] \in Byte
  PROVE  RunningBefore(l, k + 1) = Running(l[k].bytes[1], RunningBefore(l, k))
<1> DEFINE Statuses(n) == {j \in 1..(n - 1) : l[j].bytes[1] \in 128..247}
<1>1. (k + 1) - 1 = k
  OBVIOUS
<1>2. CASE l[k].bytes[1] \in 128..247
  <2>1. Max(Statuses(k + 1)) = k
    BY <1>2, SMTT(30) DEF Max
  <2>2. k \in Statuses(k + 1)
    BY <1>2
  <2>3. QED
    BY <1>2, <2>1, <2>2 DEF RunningBefore, Running, RunningStatus
<1>3. CASE l[k].bytes[1] \notin 128..247
  <2>1. Statuses(k + 1) = Statuses(k)
    BY <1>3
  <2>2. QED
    BY <1>3, <2>1 DEF RunningBefore, Running
<1>4. QED
  BY <1>2, <1>3

----------------------------------------------------------------------------
(* The two parts of the entries of a list. *)
Pieces(l) == [k \in DOMAIN l |-> l[k].delta \o l[k].bytes]
Meanings(l) == [k \in DOMAIN l |-> l[k].midi]

(* They are sequences of sequences of bytes. *)
LEMMA EntryTypes ==
  ASSUME NEW l \in Seq(Entry)
  PROVE  /\ Len(l) \in Nat /\ DOMAIN l = 1..Len(l)
         /\ \A k \in 1..Len(l) : /\ l[k].delta \in Seq(Byte)
                                 /\ l[k].bytes \in Seq(Byte)
                                 /\ l[k].midi \in Seq(Byte)
         /\ Pieces(l) \in Seq(Seq(Byte)) /\ Len(Pieces(l)) = Len(l)
         /\ Meanings(l) \in Seq(Seq(Byte)) /\ Len(Meanings(l)) = Len(l)
<1>1. Len(l) \in Nat /\ DOMAIN l = 1..Len(l) /\ \A k \in 1..Len(l) : l[k] \in Entry
  BY LenProperties, ElementOfSeq
<1>2. \A k \in 1..Len(l) : /\ l[k].delta \in Seq(Byte)
                           /\ l[k].bytes \in Seq(Byte)
                           /\ l[k].midi \in Seq(Byte)
  BY <1>1 DEF Entry
<1>3. \A k \in 1..Len(l) : l[k].delta \o l[k].bytes \in Seq(Byte)
  BY <1>2, ConcatProperties
<1>4. Pieces(l) \in [1..Len(l) -> Seq(Byte)] /\ Meanings(l) \in [1..Len(l) -> Seq(Byte)]
  BY <1>1, <1>2, <1>3 DEF Pieces, Meanings
<1>5. \A s : s \in [1..Len(l) -> Seq(Byte)] => s \in Seq(Seq(Byte)) /\ Len(s) = Len(l)
  BY <1>1
<1>6. QED
  BY <1>1, <1>2, <1>4, <1>5

(* What WellFormed says of each entry. *)
LEMMA WellFormedFacts ==
  ASSUME NEW l \in Seq(Entry), WellFormed(l), NEW k \in 1..Len(l)
  PROVE  /\ IsWritten(l[k], RunningBefore(l, k))
         /\ IsDelta(l[k].delta) \/ (k = 1 /\ l[k].delta = <<>>)
         /\ l[k].bytes # <<>> /\ l[k].bytes[1] \in Byte
<1>1. DOMAIN l = 1..Len(l) /\ l[k].bytes \in Seq(Byte)
  BY EntryTypes
<1>2. /\ IsWritten(l[k], RunningBefore(l, k))
      /\ IsDelta(l[k].delta) \/ (k = 1 /\ l[k].delta = <<>>)
  BY <1>1 DEF WellFormed
<1>3. l[k].bytes # <<>>
  <2> DEFINE s == l[k].bytes
  <2>1. s # <<>> \/ Len(s) = 1 \/ Len(s) >= 2
    <3>1. \/ s # <<>> \/ Len(s) = 1
          \/ IsFramed(s, 240, 247) \/ IsFramed(s, 240, 240) \/ IsFramed(s, 247, 247)
      BY <1>2 DEF IsWritten
    <3> HIDE DEF s
    <3>2. QED
      BY <3>1 DEF IsFramed
  <2> HIDE DEF s
  <2>2. s # <<>>
    <3>1. SUFFICES ASSUME s = <<>> PROVE FALSE
      OBVIOUS
    <3>2. Len(s) = 0
      BY <3>1
    <3>3. QED
      BY <2>1, <3>1, <3>2
  <2>3. QED
    BY <2>2 DEF s
<1>4. l[k].bytes[1] \in Byte
  BY <1>1, <1>3
<1>5. QED
  BY <1>2, <1>3, <1>4

(* Of a list, made of the sequences e and standing for the sequences m,    *)
(* the first k commands have been gone through.                            *)
UpTo(e, m, k) ==
  /\ commands \in Seq(Byte) /\ e[Len(list)] = e[k] \o commands
  /\ delivered = m[k]
  /\ nRunningStatus \in {0} \cup 128..239
  /\ nRunningStatus = RunningBefore(list, k + 1)
  /\ k < Len(list) => delta = (list[k + 1].delta # <<>>)

(* Where the handler is in the list it goes through.                       *)
ParseInv ==
  /\ list \in Lists \cup {<<>>}
  /\ pc \in {"receive", "handle"} => list = <<>> /\ delivered = <<>>
  /\ pc = "commands" /\ WellFormed(list) =>
       \E e, m : /\ Joins(e, Pieces(list), Byte) /\ Joins(m, Meanings(list), Byte)
                 /\ \E k \in 0..Len(list) : UpTo(e, m, k)
  /\ pc = "behind" => ~WellFormed(list)
  /\ CommandsDelivered

(* At first there is no list. *)
LEMMA ParseInit == Init => ParseInv
BY DEF Init, ParseInv, CommandsDelivered

(* What is left in front of a command begins with it. *)
LEMMA NextPiece ==
  ASSUME NEW e, Joins(e, Pieces(list), Byte), list \in Seq(Entry),
         NEW k \in 0..Len(list), k < Len(list),
         commands \in Seq(Byte), e[Len(list)] = e[k] \o commands
  PROVE  \E r \in Seq(Byte) :
           /\ e[Len(list)] = e[k + 1] \o r
           /\ commands = list[k + 1].delta \o (list[k + 1].bytes \o r)
<1> DEFINE d == list[k + 1].delta
           b == list[k + 1].bytes
<1>1. /\ k + 1 \in 1..Len(list) /\ k + 1 \in 0..Len(list)
      /\ (k + 1) - 1 = k /\ Len(list) \in Nat
  BY EntryTypes
<1>2. d \in Seq(Byte) /\ b \in Seq(Byte)
  BY <1>1, EntryTypes
<1>3. Pieces(list) \in Seq(Seq(Byte)) /\ Len(Pieces(list)) = Len(list)
  BY EntryTypes
<1>4. Pieces(list)[k + 1] = d \o b
  BY <1>1, EntryTypes DEF Pieces
<1>5. e[k] \in Seq(Byte) /\ e[k + 1] = e[k] \o (d \o b)
  BY <1>1, <1>3, <1>4 DEF Joins
<1>6. PICK r \in Seq(Byte) : e[Len(list)] = e[k + 1] \o r
  <2>1. \E r \in Seq(Byte) : e[Len(Pieces(list))] = e[k + 1] \o r
    BY <1>1, <1>3 DEF Joins
  <2>2. QED
    BY <1>3, <2>1
<1>a. commands \in Seq(Byte) /\ e[Len(list)] = e[k] \o commands
  OBVIOUS
<1> HIDE DEF d, b
<1>7. d \o b \in Seq(Byte) /\ (d \o b) \o r \in Seq(Byte)
  BY <1>2, ConcatProperties
<1> DEFINE x == d \o b
           a == e[k]
<1>8. (a \o x) \o r = a \o (x \o r)
  <2> HIDE DEF x, a
  <2>1. a \in Seq(Byte) /\ x \in Seq(Byte)
    BY <1>5, <1>7 DEF x, a
  <2>2. QED
    BY <2>1
<1>9. a \o commands = a \o (x \o r)
  BY <1>5, <1>6, <1>a, <1>8
<1>10. commands = x \o r
  <2>1. a \in Seq(Byte) /\ x \o r \in Seq(Byte)
    BY <1>5, <1>7
  <2> HIDE DEF x, a
  <2>2. QED
    BY <1>a, <1>9, <2>1, Cancelled
<1>11. (d \o b) \o r = d \o (b \o r)
  BY <1>2, SMTT(30)
<1>12. QED
  BY <1>6, <1>10, <1>11 DEF d, b

(* The command that is next is the one behind the first k; r is what comes *)
(* behind it.                                                              *)
NextIs(e, k, r) ==
  /\ e[Len(list)] = e[k + 1] \o r
  /\ Taken \in Nat /\ Taken <= Len(commands) /\ DropFirst(commands, Taken) = r
  /\ NextCommand.bytes = list[k + 1].midi
  /\ NextCommand.nRunningStatus = Running(list[k + 1].bytes[1], nRunningStatus)

(* Of a well-formed list the parser takes one command with its delta time, *)
(* and these end before the list does, or with it.                         *)
LEMMA NextCommandFound ==
  ASSUME list \in Seq(Entry), WellFormed(list), commands # <<>>,
         NEW e, Joins(e, Pieces(list), Byte), NEW m,
         NEW k \in 0..Len(list), UpTo(e, m, k)
  PROVE  k < Len(list) /\ \E r \in Seq(Byte) : NextIs(e, k, r)
<1>1. Len(list) \in Nat /\ Len(Pieces(list)) = Len(list)
  BY EntryTypes
<1>2. /\ commands \in Seq(Byte) /\ e[Len(list)] = e[k] \o commands
      /\ nRunningStatus \in {0} \cup 128..239
      /\ nRunningStatus = RunningBefore(list, k + 1)
      /\ k < Len(list) => delta = (list[k + 1].delta # <<>>)
  BY DEF UpTo
<1>3. k < Len(list)
  <2>1. CASE k = Len(list)
    <3>1. e[k] \in Seq(Byte)
      BY <1>1 DEF Joins
    <3>2. commands = <<>>
      BY <1>2, <2>1, <3>1, ConcatEqualIffEmpty
    <3>3. QED
      BY <3>2
  <2>2. QED
    BY <1>1, <2>1
<1> DEFINE c == list[k + 1]
<1>4. k + 1 \in 1..Len(list)
  BY <1>1, <1>3
<1>5. PICK r \in Seq(Byte) : /\ e[Len(list)] = e[k + 1] \o r
                             /\ commands = c.delta \o (c.bytes \o r)
  BY <1>2, <1>3, NextPiece
<1>6. c.delta \in Seq(Byte) /\ c.bytes \in Seq(Byte) /\ c.midi \in Seq(Byte)
  BY <1>4, EntryTypes
<1>7. IsWritten(c, nRunningStatus) /\ (IsDelta(c.delta) \/ c.delta = <<>>)
  BY <1>2, <1>4, WellFormedFacts
<1>8. /\ c.bytes \o r \in Seq(Byte)
      /\ Len(c.bytes \o r) = Len(c.bytes) + Len(r)
      /\ Len(commands) = Len(c.delta) + Len(c.bytes \o r)
  BY <1>5, <1>6, ConcatProperties
<1> DEFINE s == DropFirst(commands, DeltaLength)
<1>9. DeltaLength = Len(c.delta) /\ s = c.bytes \o r
  <2>1. CASE c.delta = <<>>
    <3>1. DeltaLength = 0 /\ Len(c.delta) = 0
      BY <1>2, <1>3, <2>1 DEF DeltaLength
    <3>2. <<>> \o (c.bytes \o r) = c.bytes \o r
      BY <1>8, ConcatEmptySeq
    <3>3. commands = c.bytes \o r
      BY <1>5, <2>1, <3>2
    <3>4. QED
      BY <1>2, <3>1, <3>3, TakenApart
  <2>2. CASE c.delta # <<>>
    <3>1. ParseMIDIDeltaTime(c.delta \o (c.bytes \o r)) = Len(c.delta)
      BY <1>6, <1>7, <1>8, <2>2, DeltaSkipped
    <3>2. DeltaLength = Len(c.delta)
      BY <1>2, <1>3, <1>5, <2>2, <3>1 DEF DeltaLength
    <3>3. DropFirst(c.delta \o (c.bytes \o r), Len(c.delta)) = c.bytes \o r
      BY <1>6, <1>8, TakenApart
    <3>4. QED
      BY <1>5, <3>2, <3>3
  <2>3. QED
    BY <2>1, <2>2
<1>10. NextCommand = Parsed(Len(c.bytes), c.midi, Running(c.bytes[1], nRunningStatus))
  <2>1. nRunningStatus \in {0} \cup 128..239
    BY <1>2
  <2>2. IsWritten(c, nRunningStatus) /\ c.bytes \in Seq(Byte)
    BY <1>6, <1>7
  <2> HIDE DEF s, c
  <2>3. /\ c.bytes \o r # <<>>
        /\ ParseMIDICommand(c.bytes \o r, nRunningStatus)
             = Parsed(Len(c.bytes), c.midi, Running(c.bytes[1], nRunningStatus))
    BY <2>1, <2>2, CommandParsed
  <2>4. QED
    BY <1>9, <2>3 DEF NextCommand, s
<1>11. /\ NextCommand.nBytesParsed = Len(c.bytes) /\ NextCommand.bytes = c.midi
       /\ NextCommand.nRunningStatus = Running(c.bytes[1], nRunningStatus)
  BY <1>10 DEF Parsed
<1>12. Taken = Len(c.delta) + Len(c.bytes)
  BY <1>9, <1>11 DEF Taken
<1>13. Taken \in Nat /\ Taken <= Len(commands)
  <2>1. Len(c.delta) \in Nat /\ Len(c.bytes) \in Nat /\ Len(r) \in Nat
    BY <1>6, LenProperties
  <2>2. Len(commands) = Len(c.delta) + (Len(c.bytes) + Len(r))
    BY <1>8
  <2>3. \A x, y, z \in Nat : x + y \in Nat /\ x + y <= x + (y + z)
    OBVIOUS
  <2> HIDE DEF c, s
  <2>4. /\ Len(c.delta) + Len(c.bytes) \in Nat
        /\ Len(c.delta) + Len(c.bytes) <= Len(c.delta) + (Len(c.bytes) + Len(r))
    BY <2>1, <2>3, Zenon
  <2>5. QED
    BY <1>12, <2>2, <2>4, Zenon
<1>14. DropFirst(commands, Taken) = r
  <2> DEFINE d == c.delta
             b == c.bytes
  <2>1. d \in Seq(Byte) /\ b \in Seq(Byte) /\ commands = d \o (b \o r)
    BY <1>5, <1>6
  <2> HIDE DEF d, b
  <2>2. d \o b \in Seq(Byte) /\ Len(d \o b) = Len(d) + Len(b)
    BY <2>1, ConcatProperties
  <2>3. (d \o b) \o r = d \o (b \o r)
    BY <2>1, SMTT(30)
  <2>4. DropFirst((d \o b) \o r, Len(d \o b)) = r
    BY <2>2, TakenApart
  <2>5. QED
    BY <1>12, <2>1, <2>2, <2>3, <2>4 DEF d, b
<1>15. QED
  BY <1>3, <1>5, <1>11, <1>13, <1>14 DEF NextIs

(* A well-formed list is being gone through, k of its commands so far.     *)
LEMMA WhereInList ==
  ASSUME ParseInv, pc = "commands", WellFormed(list)
  PROVE  /\ list \in Seq(Entry) /\ Len(list) \in Nat
         /\ \E e, m : /\ Joins(e, Pieces(list), Byte) /\ Joins(m, Meanings(list), Byte)
                      /\ \E k \in 0..Len(list) : UpTo(e, m, k)
<1>1. list \in Seq(Entry)
  BY ListAssumption, EmptySeq DEF ParseInv
<1>2. QED
  BY <1>1, EntryTypes DEF ParseInv

(* The end of a well-formed list is not run past. *)
LEMMA EndNotPassed ==
  ASSUME ParseInv, PassEnd PROVE ~WellFormed(list)
<1>1. pc = "commands" /\ commands # <<>> /\ Taken > Len(commands)
  BY DEF PassEnd
<1>2. SUFFICES ASSUME WellFormed(list) PROVE FALSE
  OBVIOUS
<1>3. list \in Seq(Entry)
  BY <1>1, <1>2, WhereInList
<1>4. PICK e, m : /\ Joins(e, Pieces(list), Byte)
                  /\ \E k \in 0..Len(list) : UpTo(e, m, k)
  BY <1>1, <1>2, WhereInList
<1>5. PICK k \in 0..Len(list) : UpTo(e, m, k)
  BY <1>4
<1>6. \E r \in Seq(Byte) : NextIs(e, k, r)
  BY <1>1, <1>2, <1>3, <1>4, <1>5, NextCommandFound
<1>7. Len(commands) \in Nat
  BY <1>5, LenProperties DEF UpTo
<1>8. QED
  BY <1>1, <1>6, <1>7 DEF NextIs

(* A turn goes through the next command, and hands on what it stands for.  *)
LEMMA CommandTurnKeeps ==
  ASSUME ParseInv, CommandTurn PROVE ParseInv'
<1>1. /\ pc = "commands" /\ pc' = pc /\ list' = list /\ commands # <<>> /\ delta' = TRUE
      /\ list \in Lists \cup {<<>>}
  BY DEF CommandTurn, ParseInv
<1>2. SUFFICES ASSUME WellFormed(list)
               PROVE  \E e, m : /\ Joins(e, Pieces(list), Byte)
                                /\ Joins(m, Meanings(list), Byte)
                                /\ \E k \in 0..Len(list) : UpTo(e, m, k)'
  BY <1>1 DEF ParseInv, CommandsDelivered
<1>3. list \in Seq(Entry) /\ Len(list) \in Nat
  BY <1>1, <1>2, WhereInList
<1>4. PICK e, m : /\ Joins(e, Pieces(list), Byte) /\ Joins(m, Meanings(list), Byte)
                  /\ \E k \in 0..Len(list) : UpTo(e, m, k)
  BY <1>1, <1>2, WhereInList
<1>5. PICK k \in 0..Len(list) : UpTo(e, m, k)
  BY <1>4
<1>6. /\ delivered = m[k]
      /\ nRunningStatus \in {0} \cup 128..239
      /\ nRunningStatus = RunningBefore(list, k + 1)
  BY <1>5 DEF UpTo
<1>7. Len(Meanings(list)) = Len(list)
  BY <1>3, EntryTypes
<1>8. k < Len(list)
  BY <1>1, <1>2, <1>3, <1>4, <1>5, NextCommandFound
<1>9. k + 1 \in 1..Len(list) /\ k + 1 \in 0..Len(list) /\ (k + 1) - 1 = k
  BY <1>3, <1>8
<1>10. PICK r \in Seq(Byte) : NextIs(e, k, r)
  BY <1>1, <1>2, <1>3, <1>4, <1>5, NextCommandFound
<1> DEFINE c == list[k + 1]
<1>11. c.bytes[1] \in Byte
  BY <1>2, <1>3, <1>9, WellFormedFacts
<1>12. /\ commands' = DropFirst(commands, Taken)
       /\ delivered' = delivered \o NextCommand.bytes
       /\ nRunningStatus' = NextCommand.nRunningStatus
  BY DEF CommandTurn
<1>13. /\ e[Len(list)] = e[k + 1] \o r /\ commands' = r
       /\ delivered' = delivered \o c.midi
       /\ nRunningStatus' = Running(c.bytes[1], nRunningStatus)
  BY <1>10, <1>12 DEF NextIs
<1>14. delivered' = m[k + 1]
  <2>1. Meanings(list)[k + 1] = c.midi
    BY <1>3, <1>9, EntryTypes DEF Meanings
  <2>2. m[k + 1] = m[k] \o Meanings(list)[k + 1]
    BY <1>4, <1>7, <1>9 DEF Joins
  <2>3. QED
    BY <1>6, <1>13, <2>1, <2>2
<1>15. nRunningStatus' = RunningBefore(list, (k + 1) + 1)
  <2>1. \A j \in 1..(k + 1) : list[j].bytes[1] \in Byte
    <3>1. \A j \in 1..(k + 1) : j \in 1..Len(list)
      BY <1>3, <1>8
    <3>2. QED
      BY <1>2, <1>3, <3>1, WellFormedFacts
  <2>2. RunningBefore(list, (k + 1) + 1)
          = Running(list[k + 1].bytes[1], RunningBefore(list, k + 1))
    BY <2>1, RunningIs
  <2>3. QED
    BY <1>6, <1>13, <2>2
<1>16. nRunningStatus' \in {0} \cup 128..239
  <2>1. ASSUME NEW b \in Byte, NEW status \in {0} \cup 128..239
        PROVE  Running(b, status) \in {0} \cup 128..239
    BY DEF Running, RunningStatus, Byte
  <2>2. QED
    BY <1>6, <1>11, <1>13, <2>1
<1>17. k + 1 < Len(list) => list[(k + 1) + 1].delta # <<>>
  <2>1. SUFFICES ASSUME k + 1 < Len(list) PROVE list[(k + 1) + 1].delta # <<>>
    OBVIOUS
  <2>2. (k + 1) + 1 \in 1..Len(list) /\ (k + 1) + 1 # 1
    BY <1>3, <2>1
  <2>3. IsDelta(list[(k + 1) + 1].delta)
    BY <1>2, <1>3, <2>2, WellFormedFacts
  <2>4. Len(list[(k + 1) + 1].delta) # 0
    BY <2>3 DEF IsDelta
  <2>5. QED
    BY <2>4, EmptySeq
<1>18. UpTo(e, m, k + 1)'
  BY <1>1, <1>13, <1>14, <1>15, <1>16, <1>17 DEF UpTo
<1>19. QED
  BY <1>4, <1>9, <1>18

(* Before its first command nothing of a list has been gone through. *)
LEMMA ListBegun ==
  ASSUME ParseInv, ParseMIDIPacket PROVE ParseInv'
<1>1. /\ pc' = "commands" /\ list' \in Lists /\ commands' = Encoded(list')
      /\ delta' = (list' # <<>> /\ list'[1].delta # <<>>) /\ nRunningStatus' = 0 /\ delivered' = <<>>
  BY DEF ParseMIDIPacket, Goes
<1>2. list' \in Seq(Entry)
  BY <1>1, ListAssumption
<1> DEFINE l == list'
<1>3. /\ Pieces(l) \in Seq(Seq(Byte)) /\ Meanings(l) \in Seq(Seq(Byte))
      /\ Len(Pieces(l)) = Len(l) /\ Len(Meanings(l)) = Len(l) /\ Len(l) \in Nat
  <2> HIDE DEF l
  <2>1. l \in Seq(Entry)
    BY <1>2 DEF l
  <2>2. QED
    BY <2>1, EntryTypes
<1> HIDE DEF l
<1>4. PICK e : Joins(e, Pieces(l), Byte)
  BY <1>3, FlattenSeqJoins
<1>5. PICK m : Joins(m, Meanings(l), Byte)
  BY <1>3, FlattenSeqJoins
<1>6. e[0] = <<>> /\ m[0] = <<>> /\ e[Len(l)] \in Seq(Byte)
  <2>1. e[0] = <<>> /\ m[0] = <<>>
    BY <1>4, <1>5 DEF Joins
  <2>2. Len(l) \in 0..Len(Pieces(l)) /\ e \in [0..Len(Pieces(l)) -> Seq(Byte)]
    BY <1>3, <1>4 DEF Joins
  <2>3. QED
    BY <2>1, <2>2
<1>7. e[Len(l)] = Encoded(l)
  BY <1>3, <1>4 DEF Joins, Encoded, Pieces
<1>8. e[Len(l)] = e[0] \o Encoded(l)
  BY <1>6, <1>7, ConcatEmptySeq
<1>9. RunningBefore(l, 0 + 1) = 0
  BY DEF RunningBefore
<1>10. UpTo(e, m, 0)'
  <2>1. 0 < Len(l) => l # <<>>
    BY EmptySeq
  <2>2. 0 < Len(l) => delta' = (l[0 + 1].delta # <<>>)
    BY <1>1, <2>1 DEF l
  <2>3. QED
    BY <1>1, <1>6, <1>7, <1>8, <1>9, <2>2 DEF UpTo, l
<1>11. 0 \in 0..Len(l)
  BY <1>3
<1>12. (\E x, y : /\ Joins(x, Pieces(list), Byte) /\ Joins(y, Meanings(list), Byte)
                  /\ \E k \in 0..Len(list) : UpTo(x, y, k))'
  BY <1>4, <1>5, <1>10, <1>11 DEF l
<1>13. QED
  BY <1>1, <1>12 DEF ParseInv, CommandsDelivered

(* When no byte is left all commands have been gone through. *)
LEMMA ListParsed ==
  ASSUME ParseInv, PacketParsed PROVE ParseInv'
<1>1. /\ pc = "commands" /\ commands = <<>> /\ pc' = "rest"
      /\ list' = list /\ delivered' = delivered /\ list \in Lists \cup {<<>>}
  BY DEF PacketParsed, ParseInv
<1>2. SUFFICES ASSUME WellFormed(list) PROVE delivered = Meant(list)
  BY <1>1 DEF ParseInv, CommandsDelivered
<1>3. list \in Seq(Entry) /\ Len(list) \in Nat
  BY <1>1, <1>2, WhereInList
<1>4. PICK e, m : /\ Joins(e, Pieces(list), Byte) /\ Joins(m, Meanings(list), Byte)
                  /\ \E k \in 0..Len(list) : UpTo(e, m, k)
  BY <1>1, <1>2, WhereInList
<1>5. PICK k \in 0..Len(list) : UpTo(e, m, k)
  BY <1>4
<1>6. commands \in Seq(Byte) /\ e[Len(list)] = e[k] \o commands /\ delivered = m[k]
  BY <1>5 DEF UpTo
<1>7. CASE k < Len(list)
  <2> DEFINE c == list[k + 1]
  <2>1. PICK r \in Seq(Byte) : commands = c.delta \o (c.bytes \o r)
    BY <1>3, <1>4, <1>6, <1>7, NextPiece
  <2>2. k + 1 \in 1..Len(list)
    BY <1>3, <1>7
  <2>3. c.delta \in Seq(Byte) /\ c.bytes \in Seq(Byte) /\ c.bytes # <<>>
    BY <1>2, <1>3, <2>2, EntryTypes, WellFormedFacts
  <2> DEFINE d == c.delta
             b == c.bytes
  <2> HIDE DEF d, b
  <2>4. d \in Seq(Byte) /\ b \in Seq(Byte) /\ b # <<>> /\ d \o (b \o r) = <<>>
    BY <1>1, <2>1, <2>3 DEF d, b
  <2>5. b \o r \in Seq(Byte)
    BY <2>4, ConcatProperties
  <2>6. b \o r = <<>>
    BY <2>4, <2>5, ConcatEqualIffEmpty
  <2>7. QED
    BY <2>4, <2>6, ConcatEqualIffEmpty
<1>8. CASE k = Len(list)
  <2>1. Len(Meanings(list)) = Len(list)
    BY <1>3, EntryTypes
  <2>2. m[Len(list)] = FlattenSeq(Meanings(list))
    BY <1>4, <2>1 DEF Joins
  <2>3. QED
    BY <1>6, <1>8, <2>2 DEF Meant, Meanings
<1>9. QED
  BY <1>3, <1>7, <1>8

(* Every turn of the task, and of the clock, keeps the invariant. *)
LEMMA ParseStep == ParseInv /\ [Next]_vars => ParseInv'
<1> SUFFICES ASSUME ParseInv, [Next]_vars PROVE ParseInv'
  OBVIOUS
<1> USE DEF parsing
<1>1. ASSUME list' = list, delivered' = delivered, pc' = "yield" PROVE ParseInv'
  BY <1>1 DEF ParseInv, CommandsDelivered
<1>2. CASE Receive \/ Tick \/ UNCHANGED vars
  <2>1. UNCHANGED parsing /\ (pc' = pc \/ (pc = "receive" /\ pc' = "handle"))
    BY <1>2 DEF Receive, Tick, vars
  <2>2. CASE pc' = pc
    <3>1. \A e, m, k : UpTo(e, m, k) => UpTo(e, m, k)'
      BY <2>1 DEF UpTo
    <3>2. CommandsDelivered'
      BY <2>1, <2>2 DEF ParseInv, CommandsDelivered
    <3>3. list' = list /\ delivered' = delivered
      BY <2>1
    <3>4. QED
      BY <2>2, <3>1, <3>2, <3>3 DEF ParseInv
  <2>3. CASE pc = "receive" /\ pc' = "handle"
    BY <2>1, <2>3 DEF ParseInv, CommandsDelivered
  <2>4. QED
    BY <2>1, <2>2, <2>3
<1>3. CASE StayIdle
  BY <1>1, <1>3 DEF StayIdle
<1>4. CASE AcceptControl
  BY <1>1, <1>4 DEF AcceptControl
<1>5. CASE MIDIInvitationUnexpected
  BY <1>1, <1>5 DEF MIDIInvitationUnexpected
<1>6. CASE AcceptMIDI
  BY <1>1, <1>6 DEF AcceptMIDI
<1>7. CASE CannotAcceptMIDI
  BY <1>1, <1>7 DEF CannotAcceptMIDI
<1>8. CASE MIDIInvitationTimeout
  BY <1>1, <1>8 DEF MIDIInvitationTimeout
<1>9. CASE AwaitMIDIInvitation
  BY <1>1, <1>9 DEF AwaitMIDIInvitation
<1>10. CASE SessionEnded
  BY <1>1, <1>10 DEF SessionEnded
<1>11. CASE NothingToParse \/ SyncReceived
  <2>1. pc = "handle" /\ pc' = "rest" /\ UNCHANGED parsing
    BY <1>11 DEF NothingToParse, SyncReceived, Goes, In
  <2>2. list' = <<>> /\ delivered' = <<>>
    BY <2>1 DEF ParseInv
  <2>3. Meant(<<>>) = <<>>
    <3>1. <<>> \in Seq(Entry) /\ Len(<<>>) = 0
      BY EmptySeq
    <3>2. Meanings(<<>>) \in Seq(Seq(Byte)) /\ Len(Meanings(<<>>)) = 0
      BY <3>1, EntryTypes
    <3>3. Meanings(<<>>) = <<>>
      BY <3>2, EmptySeq
    <3>4. FlattenSeq(<<>>) = <<>>
      BY <3>1, FlattenSeqIs
    <3>5. QED
      BY <3>3, <3>4 DEF Meant, Meanings
  <2>4. delivered' = Meant(list')
    BY <2>2, <2>3, Zenon
  <2>5. list' \in Lists \cup {<<>>}
    BY <2>2, Zenon
  <2>6. CommandsDelivered'
    BY <2>1, <2>4 DEF CommandsDelivered
  <2>7. pc' \notin {"receive", "handle", "commands", "behind"}
    BY <2>1
  <2>8. QED
    BY <2>5, <2>6, <2>7, Zenon DEF ParseInv
<1>12. CASE ParseMIDIPacket
  BY <1>12, ListBegun
<1>13. CASE CommandTurn
  BY <1>13, CommandTurnKeeps
<1>14. CASE PassEnd
  <2>1. pc' = "behind" /\ list' = list
    BY <1>14 DEF PassEnd
  <2>2. ~WellFormed(list)
    BY <1>14, EndNotPassed
  <2>3. QED
    BY <2>1, <2>2 DEF ParseInv, CommandsDelivered
<1>15. CASE ReadBehind
  BY <1>15 DEF ReadBehind, ParseInv, CommandsDelivered
<1>16. CASE PacketParsed
  BY <1>16, ListParsed
<1>17. CASE Rest
  BY <1>1, <1>17 DEF Rest
<1>18. CASE Yield
  BY <1>18 DEF Yield, ParseInv, CommandsDelivered
<1>19. QED
  BY <1>2, <1>3, <1>4, <1>5, <1>6, <1>7, <1>8, <1>9, <1>10, <1>11, <1>12, <1>13,
     <1>14, <1>15, <1>16, <1>17, <1>18 DEF Next, Turn

(* Whatever a well-formed command list stands for is handed on in full. *)
THEOREM EveryCommandDelivered == Spec => []CommandsDelivered
<1>1. ParseInv => CommandsDelivered
  BY DEF ParseInv
<1>2. QED
  BY <1>1, ParseInit, ParseStep, PTL DEF Spec
=============================================================================
