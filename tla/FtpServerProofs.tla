-------------------------- MODULE FtpServerProofs --------------------------
(***************************************************************************)
(* Proofs about the FTP worker, for any card, any commands a client sends, *)
(* and whatever connects, breaks or fails in whatever order: a command has *)
(* one final reply, a completed upload is the file, and the server does    *)
(* what FileService says of it, for any volumes, names and paths.  Up to   *)
(* the second result paths are opaque; the third needs to know what they   *)
(* name, which the lemmas about FlattenSeq and NamesOf in its part say.    *)
(***************************************************************************)
EXTENDS FtpServer, FiniteSetTheorems, SequenceTheorems, WellFoundedInduction, TLAPS

Places == {"none", "start", "ready", "begin", "open", "send", "receive", "done", "ended"}

(* The worker is there as long as the daemon counts it.                    *)
CountInv == /\ pc \in Places
            /\ s_nInstanceCount \in 0..MaxConnections
            /\ s_nInstanceCount = 0 <=> pc = "none"

(* A command starts without replies and failures.  Once the preliminary    *)
(* reply has gone out, what is final among the replies are the failures.   *)
Silent == replies = <<>> /\ failures = 0

ReplyInv ==
  /\ replies \in Seq(Nat) /\ failures \in Nat
  /\ pc \in {"none", "start", "ready", "begin"} => Silent
  /\ pc \in {"open", "send", "receive"} => Cardinality(Finals(replies)) = failures
  /\ OneFinalReply

(* What has been received and is not harmed is in the file. *)
Kept == Stored \in DOMAIN tree /\ tree[Stored] = chunks

Received == upload = "harmed" \/ (upload = "open" /\ Kept)

UploadInv ==
  /\ pc \in {"none", "start", "ready"} => chunks = 0 /\ upload = "open"
  /\ pc = "receive" => command.verb = "STOR"
  /\ pc = "send" => command.verb # "STOR"
  /\ pc \in {"begin", "open", "receive"} /\ command.verb = "STOR" => Received
  /\ StoreComplete

IInv == CountInv /\ ReplyInv /\ UploadInv

----------------------------------------------------------------------------
(* Replies. *)

(* There are finitely many final replies among the codes sent. *)
LEMMA FinalsFinite ==
  ASSUME NEW codes \in Seq(Nat)
  PROVE  IsFiniteSet(Finals(codes)) /\ Cardinality(Finals(codes)) \in Nat
<1>1. IsFiniteSet(1..Len(codes))
  BY FS_Interval
<1>2. Finals(codes) \subseteq 1..Len(codes)
  BY DEF Finals
<1>3. QED
  BY <1>1, <1>2, FS_Subset, FS_CardinalityType

(* Before any reply there is none. *)
LEMMA NoFinals == <<>> \in Seq(Nat) /\ Cardinality(Finals(<<>>)) = 0
<1>1. Finals(<<>>) = {}
  BY DEF Finals
<1>2. QED
  BY <1>1, FS_EmptySet

(* One more reply is the last one, and counts if it is final. *)
LEMMA FinalsAppended ==
  ASSUME NEW codes \in Seq(Nat), NEW code \in Nat
  PROVE  /\ Append(codes, code) \in Seq(Nat)
         /\ Last(Append(codes, code)) = code
         /\ Append(codes, code) # <<>>
         /\ Cardinality(Finals(Append(codes, code)))
              = Cardinality(Finals(codes)) + (IF Final(code) THEN 1 ELSE 0)
<1> DEFINE more == Append(codes, code)
           n == Len(codes) + 1
<1>1. more \in Seq(Nat) /\ Len(more) = n /\ more[n] = code /\ n \in Nat \ {0}
  OBVIOUS
<1>2. \A k \in 1..Len(codes) : more[k] = codes[k]
  OBVIOUS
<1>3. n \notin Finals(codes)
  BY DEF Finals
<1>4. CASE Final(code)
  <2>1. Finals(more) = Finals(codes) \cup {n}
    BY <1>1, <1>2, <1>4 DEF Finals
  <2>2. Cardinality(Finals(more)) = Cardinality(Finals(codes)) + 1
    BY <2>1, <1>3, FinalsFinite, FS_AddElement
  <2>3. QED
    BY <1>1, <1>4, <2>2 DEF Last
<1>5. CASE ~Final(code)
  <2>1. Finals(more) = Finals(codes)
    BY <1>1, <1>2, <1>5 DEF Finals
  <2>2. Cardinality(Finals(codes)) \in Nat
    BY FinalsFinite
  <2>3. QED
    BY <1>1, <1>5, <2>1, <2>2 DEF Last
<1>6. QED
  BY <1>4, <1>5

----------------------------------------------------------------------------
(* The daemon, the client's connection and the turns of the loop. *)

(* The server starts without a connection. *)
LEMMA ServerStarts == Init => IInv
<1>1. Init => CountInv
  BY DEF Init, CountInv, Places, MaxConnections
<1>2. Init => ReplyInv
  BY NoFinals DEF Init, ReplyInv, Silent, OneFinalReply
<1>3. Init => UploadInv
  BY DEF Init, UploadInv, StoreComplete
<1>4. QED
  BY <1>1, <1>2, <1>3 DEF IInv

(* Stored stays where it was, and the invariant with it, when nothing of   *)
(* the session changes.                                                    *)
LEMMA StoredStays ==
  UNCHANGED <<command, m_CurrentPath>> => Stored' = Stored
  BY DEF Stored, RealPath, Resolved

(* A connection that comes, breaks or is lost leaves the worker as it is.   *)
LEMMA SessionStays ==
  /\ IInv /\ CountInv'
  /\ UNCHANGED <<pc, command, place, transfer, tree, replies>>
  /\ lost => lost'
  => IInv'
<1> SUFFICES ASSUME IInv, CountInv', lost => lost',
                    UNCHANGED <<pc, command, place, transfer, tree, replies>>
             PROVE  IInv'
  OBVIOUS
<1>1. Stored' = Stored
  BY StoredStays DEF place
<1>2. ReplyInv'
  BY DEF IInv, ReplyInv, Silent, OneFinalReply, transfer
<1>3. Kept' = Kept
  BY <1>1 DEF Kept, transfer
<1>4. UploadInv'
  BY <1>1, <1>3 DEF IInv, UploadInv, Received, StoreComplete, transfer
<1>5. QED
  BY <1>2, <1>4 DEF IInv

(* The worker begins, waits for a command or ends with a clean slate; what *)
(* it said and received before it ended is history.                        *)
LEMMA CleanSlate ==
  /\ CountInv'
  /\ \/ /\ pc' \in {"none", "start", "ready"}
        /\ replies' = <<>> /\ failures' = 0 /\ chunks' = 0 /\ upload' = "open"
     \/ pc' = "ended" /\ replies' \in Seq(Nat) /\ failures' \in Nat
  => IInv'
<1> SUFFICES ASSUME CountInv',
                    \/ /\ pc' \in {"none", "start", "ready"}
                       /\ replies' = <<>> /\ failures' = 0 /\ chunks' = 0 /\ upload' = "open"
                    \/ pc' = "ended" /\ replies' \in Seq(Nat) /\ failures' \in Nat
             PROVE  IInv'
  OBVIOUS
<1>1. ReplyInv'
  <2>1. replies' \in Seq(Nat) /\ failures' \in Nat
    <3>1. CASE replies' = <<>> /\ failures' = 0
      BY <3>1, NoFinals
    <3>2. CASE replies' \in Seq(Nat) /\ failures' \in Nat
      BY <3>2
    <3>3. QED
      BY <3>1, <3>2
  <2>2. pc' \in {"none", "start", "ready"} => replies' = <<>> /\ failures' = 0
    OBVIOUS
  <2>3. pc' \in {"none", "start", "ready", "ended"}
    OBVIOUS
  <2>4. QED
    BY <2>1, <2>2, <2>3 DEF ReplyInv, Silent, OneFinalReply
<1>2. UploadInv'
  BY DEF UploadInv, StoreComplete
<1>3. QED
  BY <1>1, <1>2 DEF IInv

(* The steps outside of commands and transfers keep the invariant. *)
LEMMA LoopSteps ==
  ASSUME IInv,
         \/ ClientConnects \/ DaemonAccepts \/ ClientLeaves \/ Welcome
         \/ NextCommand \/ ControlEnds \/ WorkerDeleted
  PROVE  IInv'
<1> USE DEF MaxConnections, Places
<1>1. CASE ClientConnects
  <2>1. CountInv'
    BY <1>1 DEF IInv, CountInv, ClientConnects
  <2>2. QED
    BY <1>1, <2>1, SessionStays DEF ClientConnects
<1>2. CASE DaemonAccepts
  <2>1. CountInv'
    BY <1>2 DEF IInv, CountInv, DaemonAccepts
  <2>2. CASE s_nInstanceCount >= 1
    BY <1>2, <2>1, <2>2, SessionStays DEF DaemonAccepts
  <2>3. CASE ~(s_nInstanceCount >= 1)
    <3>1. pc = "none"
      BY <2>3 DEF IInv, CountInv
    <3>2. QED
      BY <1>2, <2>1, <2>3, <3>1, CleanSlate
      DEF IInv, ReplyInv, Silent, UploadInv, DaemonAccepts, transfer
  <2>4. QED
    BY <2>2, <2>3
<1>3. CASE ClientLeaves
  <2>1. CountInv'
    BY <1>3 DEF IInv, CountInv, ClientLeaves, daemon
  <2>2. QED
    BY <1>3, <2>1, SessionStays DEF ClientLeaves
<1>4. CASE Welcome
  <2>1. CountInv'
    BY <1>4 DEF IInv, CountInv, Welcome, daemon
  <2>2. QED
    BY <1>4, <2>1, CleanSlate
    DEF IInv, ReplyInv, Silent, UploadInv, Welcome, transfer
<1>5. CASE NextCommand
  <2>1. CountInv'
    BY <1>5 DEF IInv, CountInv, NextCommand, daemon
  <2>2. QED
    BY <1>5, <2>1, CleanSlate DEF NextCommand, Idle, NoTransfer
<1>6. CASE ControlEnds
  <2>1. CountInv'
    BY <1>6 DEF IInv, CountInv, ControlEnds, daemon
  <2>2. QED
    BY <1>6, <2>1, CleanSlate DEF IInv, ReplyInv, ControlEnds, transfer
<1>7. CASE WorkerDeleted
  <2>1. CountInv'
    BY <1>7 DEF IInv, CountInv, WorkerDeleted
  <2>2. QED
    BY <1>7, <2>1, CleanSlate DEF WorkerDeleted, Idle, NoTransfer
<1>8. QED
  BY <1>1, <1>2, <1>3, <1>4, <1>5, <1>6, <1>7

----------------------------------------------------------------------------
(* Commands. *)

(* The command is answered at once, with a reply that does not claim an    *)
(* upload.                                                                 *)
Answers ==
  /\ pc = "ready" /\ pc' = "done"
  /\ \E code \in Nat : /\ Final(code) /\ replies' = Append(replies, code)
                       /\ command'.verb = "STOR" => code # 226
  /\ UNCHANGED <<daemon, failures>>

(* A command that is answered at once has one final reply. *)
LEMMA AnswersKeep == ASSUME IInv, Answers PROVE IInv'
<1>1. CountInv'
  BY DEF IInv, CountInv, Answers, Places, daemon, MaxConnections
<1>2. PICK code \in Nat : /\ Final(code) /\ replies' = Append(replies, code)
                          /\ command'.verb = "STOR" => code # 226
  BY DEF Answers
<1>3. replies = <<>> /\ failures' = 0 /\ pc' = "done"
  BY DEF IInv, ReplyInv, Silent, Answers
<1>4. /\ replies' \in Seq(Nat) /\ Last(replies') = code
      /\ Cardinality(Finals(replies')) = 1
  <2>1. replies \in Seq(Nat) /\ Cardinality(Finals(replies)) = 0
    BY <1>3, NoFinals, Zenon
  <2>2. /\ Append(replies, code) \in Seq(Nat)
        /\ Last(Append(replies, code)) = code
        /\ Cardinality(Finals(Append(replies, code))) = 0 + 1
    BY <2>1, <1>2, FinalsAppended
  <2>3. QED
    BY <2>2, <1>2
<1>5. ReplyInv'
  BY <1>2, <1>3, <1>4 DEF ReplyInv, OneFinalReply
<1>6. UploadInv'
  BY <1>2, <1>3, <1>4 DEF UploadInv, StoreComplete
<1>7. QED
  BY <1>1, <1>5, <1>6 DEF IInv

(* The handlers that start no transfer answer at once. *)
LEMMA HandlersAnswer ==
  ASSUME \/ NotLoggedIn \/ Simple \/ Username \/ Password \/ Port \/ Passive
         \/ Delete \/ MakeDirectory \/ ChangeWorkingDirectory \/ ChangeToParentDirectory
         \/ PrintWorkingDirectory \/ RenameFrom \/ RenameTo
  PROVE  Answers
<1> USE DEF Answers, Says, Takes, Receives, Final, transfer
<1>1. CASE NotLoggedIn
  BY <1>1 DEF NotLoggedIn
<1>2. CASE Simple
  BY <1>2 DEF Simple
<1>3. CASE Username
  BY <1>3 DEF Username
<1>4. CASE Password
  BY <1>4 DEF Password
<1>5. CASE Port
  BY <1>5 DEF Port
<1>6. CASE Passive
  BY <1>6 DEF Passive
<1>7. CASE Delete
  BY <1>7 DEF Delete
<1>8. CASE MakeDirectory
  BY <1>8 DEF MakeDirectory
<1>9. CASE ChangeWorkingDirectory
  BY <1>9 DEF ChangeWorkingDirectory, GoesTo, Unavailable
<1>10. CASE ChangeToParentDirectory
  BY <1>10 DEF ChangeToParentDirectory, GoesTo, Unavailable
<1>11. CASE PrintWorkingDirectory
  BY <1>11 DEF PrintWorkingDirectory
<1>12. CASE RenameFrom
  BY <1>12 DEF RenameFrom
<1>13. CASE RenameTo
  BY <1>13 DEF RenameTo
<1>14. QED
  BY <1>1, <1>2, <1>3, <1>4, <1>5, <1>6, <1>7, <1>8, <1>9, <1>10, <1>11,
     <1>12, <1>13

(* A transfer is about to begin: nothing has been said, and for an upload  *)
(* the file is empty.                                                      *)
Prepares ==
  /\ pc = "ready" /\ pc' = "begin"
  /\ command'.verb = "STOR" =>
       UNCHANGED <<chunks, upload>> /\ Stored' \in DOMAIN tree' /\ tree'[Stored'] = 0
  /\ UNCHANGED <<daemon, replies, failures>>

(* A transfer that is about to begin keeps the invariant. *)
LEMMA PreparesKeep == ASSUME IInv, Prepares PROVE IInv'
<1>1. CountInv'
  BY DEF IInv, CountInv, Prepares, Places, daemon, MaxConnections
<1>2. ReplyInv'
  BY DEF IInv, ReplyInv, Silent, OneFinalReply, Prepares
<1>3. pc = "ready" /\ chunks = 0 /\ upload = "open"
  BY DEF IInv, UploadInv, Prepares
<1>4. command'.verb = "STOR" => Received'
  BY <1>3 DEF Prepares, Received, Kept
<1>5. UploadInv'
  BY <1>4 DEF UploadInv, StoreComplete, Prepares
<1>6. QED
  BY <1>1, <1>2, <1>5 DEF IInv

(* STOR has made the file empty; the other transfers change no file. *)
LEMMA StorePrepares ==
  ASSUME Takes("STOR"), tree' = Put(Resolved(RealPath(Arg)), 0), pc' = "begin",
         UNCHANGED <<replies, m_CurrentPath, transfer>>
  PROVE  Prepares
<1>1. Stored' = Resolved(RealPath(Arg))
  BY DEF Arg, Stored, RealPath, Resolved
<1>2. Stored' \in DOMAIN tree' /\ tree'[Stored'] = 0
  BY <1>1 DEF Put
<1>3. QED
  BY <1>2 DEF Prepares, Takes, Receives, transfer

(* The commands keep the invariant. *)
LEMMA CommandSteps == ASSUME IInv, Command PROVE IInv'
<1>1. CASE Bye
  <2>1. CountInv'
    BY <1>1 DEF IInv, CountInv, Bye, Takes, Receives, Places, daemon, MaxConnections
  <2>2. <<>> \in Seq(Nat) /\ <<221>> \in Seq(Nat)
    BY NoFinals
  <2>3. pc' = "ended" /\ replies' \in Seq(Nat) /\ failures' \in Nat
    BY <1>1, <2>2 DEF IInv, ReplyInv, Bye, transfer
  <2>4. QED
    BY <2>1, <2>3, CleanSlate
<1>2. CASE Retrieve
  <2>1. Prepares \/ Answers
    BY <1>2 DEF Retrieve, Prepares, Answers, Says, Takes, Receives, Final
  <2>2. QED
    BY <2>1, PreparesKeep, AnswersKeep
<1>3. CASE Store
  <2>1. CASE tree' = Put(Resolved(RealPath(Arg)), 0) /\ pc' = "begin" /\ UNCHANGED replies
    BY <1>3, <2>1, StorePrepares, PreparesKeep DEF Store, place
  <2>2. CASE Says(450, Nowhere)
    <3>1. Answers
      BY <1>3, <2>2 DEF Store, Answers, Says, Takes, Receives, Final, transfer
    <3>2. QED
      BY <3>1, AnswersKeep
  <2>3. QED
    BY <1>3, <2>1, <2>2 DEF Store
<1>4. CASE List \/ ListFileNames
  <2>1. Prepares
    BY <1>4 DEF List, ListFileNames, Lists, Prepares, Takes, Receives, transfer
  <2>2. QED
    BY <2>1, PreparesKeep
<1>5. CASE Answers
  BY <1>5, AnswersKeep
<1>6. QED
  BY <1>1, <1>2, <1>3, <1>4, <1>5, HandlersAnswer DEF Command

----------------------------------------------------------------------------
(* Data connections and transfers. *)

(* A transfer goes on: the replies so far are failures and not final, and  *)
(* what has been received is in the file.                                  *)
LEMMA TransferGoesOn ==
  ASSUME IInv, Still, pc \notin {"none", "done"}, pc' \in {"open", "send", "receive"},
         pc' = "receive" => command.verb = "STOR",
         pc' = "send" => command.verb # "STOR",
         replies' \in Seq(Nat), failures' \in Nat,
         Cardinality(Finals(replies')) = failures',
         command.verb = "STOR" => Received'
  PROVE  IInv'
<1>1. CountInv'
  BY DEF IInv, CountInv, Still, Places, daemon, MaxConnections
<1>2. ReplyInv'
  BY DEF ReplyInv, OneFinalReply
<1>3. UploadInv'
  BY DEF UploadInv, StoreComplete, Still
<1>4. QED
  BY <1>1, <1>2, <1>3 DEF IInv

(* A transfer is over with one more final reply than failures, and if this *)
(* says that an upload is complete, it is.                                 *)
LEMMA TransferEnds ==
  ASSUME IInv, Still, pc \notin {"none", "done"}, pc' = "done",
         replies' \in Seq(Nat), failures' \in Nat,
         Cardinality(Finals(replies')) = 1 + failures', Final(Last(replies')),
         command.verb = "STOR" /\ Last(replies') = 226 =>
           \/ upload' = "harmed"
           \/ upload' = "closed" /\ Kept'
  PROVE  IInv'
<1>1. CountInv'
  BY DEF IInv, CountInv, Still, Places, daemon, MaxConnections
<1>2. ReplyInv'
  BY DEF ReplyInv, OneFinalReply
<1>3. UploadInv'
  BY DEF UploadInv, StoreComplete, Still, Kept
<1>4. QED
  BY <1>1, <1>2, <1>3 DEF IInv

(* What is known of a transfer that is under way. *)
LEMMA UnderWay ==
  ASSUME IInv, pc \in {"open", "send", "receive"}
  PROVE  /\ pc \notin {"none", "done"}
         /\ replies \in Seq(Nat) /\ failures \in Nat
         /\ Cardinality(Finals(replies)) = failures
         /\ pc \in {"open", "receive"} /\ command.verb = "STOR" => Received
         /\ pc = "receive" => command.verb = "STOR"
         /\ pc = "send" => command.verb # "STOR"
  BY DEF IInv, ReplyInv, UploadInv

(* What has been received stays received while nothing is. *)
LEMMA ReceivedStays ==
  ASSUME Still, UNCHANGED <<chunks, upload, tree>>
  PROVE  Received' = Received /\ Kept' = Kept
<1>1. Stored' = Stored
  BY StoredStays DEF Still, place
<1>2. QED
  BY <1>1 DEF Received, Kept

(* Begin, with or without the preliminary reply. *)
LEMMA BeginStep == ASSUME IInv, Begin PROVE IInv'
<1>1. /\ pc = "begin" /\ replies = <<>> /\ failures = 0 /\ failures' = 0
      /\ command.verb = "STOR" => Received
  BY DEF IInv, ReplyInv, Silent, UploadInv, Begin
<1>2. Received' = Received
  BY ReceivedStays DEF Begin
<1>3. replies \in Seq(Nat) /\ Cardinality(Finals(replies)) = 0
  BY <1>1, NoFinals, Zenon
<1>4. CASE lost
  <2>1. pc' = "done" /\ replies' = replies /\ lost'
    BY <1>4 DEF Begin, Still
  <2>2. CountInv'
    BY <1>1, <2>1 DEF IInv, CountInv, Begin, Still, Places, daemon, MaxConnections
  <2>3. ReplyInv'
    BY <1>1, <1>3, <2>1 DEF ReplyInv, OneFinalReply
  <2>4. UploadInv'
    BY <1>1, <2>1 DEF UploadInv, StoreComplete
  <2>5. QED
    BY <2>2, <2>3, <2>4 DEF IInv
<1>5. CASE ~lost
  <2>1. pc' = "open" /\ replies' = Append(replies, 150) /\ Still
    BY <1>5 DEF Begin
  <2>2. replies' \in Seq(Nat) /\ Cardinality(Finals(replies')) = 0
    <3>1. ~Final(150)
      BY DEF Final
    <3>2. QED
      BY <1>3, <2>1, <3>1, FinalsAppended
  <2>3. QED
    BY <1>1, <1>2, <2>1, <2>2, TransferGoesOn
<1>6. QED
  BY <1>4, <1>5

(* A data connection is there. *)
LEMMA OpenedStep == ASSUME IInv, Connects \/ Accepts PROVE IInv'
<1>1. pc = "open" /\ Still /\ UNCHANGED <<failures, replies, upload, tree>>
  BY DEF Connects, Accepts, Opened
<1>2. pc' = IF command.verb = "STOR" THEN "receive" ELSE "send"
  BY DEF Connects, Accepts, Opened
<1>3. /\ replies \in Seq(Nat) /\ failures \in Nat
      /\ Cardinality(Finals(replies)) = failures
      /\ command.verb = "STOR" => Received
  BY <1>1, UnderWay
<1>4. command.verb = "STOR" => UNCHANGED chunks
  BY DEF Connects, Accepts, Opened
<1>5. command.verb = "STOR" => Received'
  BY <1>1, <1>3, <1>4, ReceivedStays
<1>6. QED
  BY <1>1, <1>2, <1>3, <1>5, TransferGoesOn

(* One more final reply ends a transfer that had only failures. *)
LEMMA EndsWith ==
  ASSUME IInv, Still, NEW code \in Nat, Final(code),
         pc \in {"open", "send", "receive"},
         pc' = "done", replies' = Append(replies, code), failures' = failures,
         command.verb = "STOR" /\ code = 226 =>
           \/ upload' = "harmed"
           \/ upload' = "closed" /\ Kept'
  PROVE  IInv'
<1>1. /\ pc \notin {"none", "done"} /\ replies \in Seq(Nat) /\ failures \in Nat
      /\ Cardinality(Finals(replies)) = failures
  BY UnderWay
<1>2. /\ replies' \in Seq(Nat) /\ Last(replies') = code
      /\ Cardinality(Finals(replies')) = failures + 1
  BY <1>1, FinalsAppended
<1>3. failures' \in Nat /\ Cardinality(Finals(replies')) = 1 + failures'
  BY <1>1, <1>2
<1>4. QED
  BY <1>1, <1>2, <1>3, TransferEnds

(* One reply more, and two. *)
LEMMA OneMore ==
  ASSUME NEW codes \in Seq(Nat)
  PROVE  codes \o <<425>> = Append(codes, 425)
  OBVIOUS

(* Two replies at once are one after the other.                             *)
LEMMA TwoMore ==
  ASSUME NEW codes \in Seq(Nat)
  PROVE  codes \o <<425, 425>> = Append(Append(codes, 425), 425)
  OBVIOUS

(* Attempts to connect that fail. *)
LEMMA ConnectFailsStep == ASSUME IInv, ConnectFails PROVE IInv'
<1>1. /\ pc = "open" /\ Still /\ failures' = failures + 1
      /\ UNCHANGED <<chunks, upload, tree>>
  BY DEF ConnectFails
<1>2. /\ pc \notin {"none", "done"} /\ replies \in Seq(Nat) /\ failures \in Nat
      /\ Cardinality(Finals(replies)) = failures
      /\ command.verb = "STOR" => Received
  BY <1>1, UnderWay
<1>3. Final(425)
  BY DEF Final
<1> DEFINE once == replies \o <<425>>
           twice == replies \o <<425, 425>>
<1>4. once = Append(replies, 425) /\ twice = Append(once, 425)
  BY <1>2, OneMore, TwoMore
<1>5. replies' = IF nRetries' = 0 THEN twice ELSE once
  BY DEF ConnectFails
<1> HIDE DEF once, twice
<1>6. once \in Seq(Nat) /\ Cardinality(Finals(once)) = failures + 1
  BY <1>2, <1>3, <1>4, FinalsAppended
<1>7. /\ twice \in Seq(Nat) /\ Last(twice) = 425
      /\ Cardinality(Finals(twice)) = (failures + 1) + 1
  <2>1. /\ Append(once, 425) \in Seq(Nat) /\ Last(Append(once, 425)) = 425
        /\ Cardinality(Finals(Append(once, 425))) = Cardinality(Finals(once)) + 1
    BY <1>3, <1>6, FinalsAppended
  <2>2. QED
    BY <1>4, <1>6, <2>1
<1>8. CASE nRetries' = 0
  <2>1. replies' = twice /\ pc' = "done"
    BY <1>5, <1>8 DEF ConnectFails
  <2>2. QED
    BY <1>1, <1>2, <1>3, <1>7, <2>1, TransferEnds
<1>9. CASE nRetries' # 0
  <2>1. replies' = once /\ pc' = "open"
    BY <1>5, <1>9 DEF ConnectFails
  <2>2. command.verb = "STOR" => Received'
    BY <1>1, <1>2, ReceivedStays
  <2>3. QED
    BY <1>1, <1>2, <1>6, <2>1, <2>2, TransferGoesOn
<1>10. QED
  BY <1>8, <1>9

(* Attempts to accept that fail. *)
LEMMA AcceptFailsStep == ASSUME IInv, AcceptFails PROVE IInv'
<1>1. pc = "open" /\ Still /\ UNCHANGED <<chunks, upload, failures, tree>>
  BY DEF AcceptFails
<1>2. /\ pc \notin {"none", "done"} /\ replies \in Seq(Nat) /\ failures \in Nat
      /\ Cardinality(Finals(replies)) = failures
      /\ command.verb = "STOR" => Received
  BY <1>1, UnderWay
<1>3. CASE nRetries' = 0
  <2>1. replies' = Append(replies, 425) /\ pc' = "done"
    <3>1. replies \o <<425>> = Append(replies, 425)
      BY <1>2, OneMore
    <3>2. QED
      BY <1>3, <3>1 DEF AcceptFails
  <2>2. Final(425)
    BY DEF Final
  <2>3. QED
    BY <1>1, <2>1, <2>2, EndsWith
<1>4. CASE nRetries' # 0
  <2>1. replies' = replies /\ pc' = "open"
    BY <1>2, <1>4 DEF AcceptFails
  <2>2. command.verb = "STOR" => Received'
    BY <1>1, <1>2, ReceivedStays
  <2>3. QED
    BY <1>1, <1>2, <2>1, <2>2, TransferGoesOn
<1>5. QED
  BY <1>3, <1>4

(* Sending. *)
LEMMA SendSteps ==
  ASSUME IInv, SendChunk \/ SendFails \/ SendEnds
  PROVE  IInv'
<1> USE DEF SaysFinally
<1>1. pc = "send" /\ Still
  BY DEF SendChunk, SendFails, SendEnds
<1>2. /\ replies \in Seq(Nat) /\ failures \in Nat
      /\ Cardinality(Finals(replies)) = failures
      /\ command.verb # "STOR"
  BY <1>1, UnderWay
<1>3. CASE SendChunk
  <2>1. UNCHANGED <<pc, failures, replies>>
    BY <1>3 DEF SendChunk
  <2>2. QED
    BY <1>1, <1>2, <2>1, TransferGoesOn
<1>4. CASE SendFails \/ SendEnds
  <2>1. PICK code \in {451, 425, 226} : pc' = "done" /\ replies' = Append(replies, code)
    BY <1>4 DEF SendFails, SendEnds
  <2>2. failures' = failures
    BY <1>4 DEF SendFails, SendEnds, transfer
  <2>3. code \in Nat /\ Final(code)
    BY DEF Final
  <2>4. QED
    BY <1>1, <1>2, <2>1, <2>2, <2>3, EndsWith
<1>5. QED
  BY <1>3, <1>4

(* A chunk received is in the file, or the upload is harmed. *)
LEMMA ReceiveChunkStep == ASSUME IInv, ReceiveChunk PROVE IInv'
<1>1. /\ pc = "receive" /\ Still /\ UNCHANGED <<pc, failures, replies>>
      /\ chunks' = chunks + 1
  BY DEF ReceiveChunk
<1>2. /\ replies \in Seq(Nat) /\ failures \in Nat
      /\ Cardinality(Finals(replies)) = failures
      /\ command.verb = "STOR" /\ Received
  BY <1>1, UnderWay
<1>3. Stored' = Stored
  BY <1>1, StoredStays DEF Still, place
<1>4. Received'
  <2>1. CASE upload' = "harmed"
    BY <2>1 DEF Received
  <2>2. CASE tree' = [tree EXCEPT ![Stored] = @ + 1] /\ upload' = upload
    BY <1>1, <1>2, <1>3, <2>2 DEF Received, Kept
  <2>3. QED
    BY <2>1, <2>2 DEF ReceiveChunk
<1>5. QED
  BY <1>1, <1>2, <1>4, TransferGoesOn

(* The end of an upload. *)
LEMMA ReceiveEndsSteps ==
  ASSUME IInv, WriteFails \/ ReceiveEnds \/ StoreTimesOut
  PROVE  IInv'
<1>1. pc = "receive" /\ Still /\ UNCHANGED failures
  BY DEF WriteFails, ReceiveEnds, StoreTimesOut, transfer
<1>2. Final(226) /\ Final(451)
  BY DEF Final
<1>3. CASE WriteFails \/ StoreTimesOut
  <2>1. pc' = "done" /\ replies' = Append(replies, 451)
    BY <1>3 DEF WriteFails, StoreTimesOut, SaysFinally
  <2>2. QED
    BY <1>1, <1>2, <2>1, EndsWith
<1>4. CASE ReceiveEnds
  <2>1. /\ pc' = "done" /\ replies' = Append(replies, 226) /\ UNCHANGED <<chunks, tree>>
        /\ upload' = "harmed" \/ (upload = "open" /\ upload' = "closed")
    BY <1>4 DEF ReceiveEnds, SaysFinally
  <2>2. Received
    BY <1>1, UnderWay
  <2>3. Stored' = Stored
    BY <1>1, StoredStays DEF Still, place
  <2>4. upload' = "harmed" \/ (upload' = "closed" /\ Kept')
    BY <2>1, <2>2, <2>3 DEF Received, Kept
  <2>5. QED
    BY <1>1, <1>2, <2>1, <2>4, EndsWith
<1>5. QED
  BY <1>3, <1>4

----------------------------------------------------------------------------
(* Every step keeps the invariant. *)
LEMMA ServerSteps == IInv /\ [Next]_vars => IInv'
<1> SUFFICES ASSUME IInv, [Next]_vars PROVE IInv'
  OBVIOUS
<1>1. CASE Command
  BY <1>1, CommandSteps
<1>2. CASE NothingToAcceptOn
  <2>1. /\ pc = "open" /\ Still /\ UNCHANGED failures
        /\ pc' = "done" /\ replies' = Append(replies, 425)
    BY <1>2 DEF NothingToAcceptOn, SaysFinally
  <2>2. Final(425)
    BY DEF Final
  <2>3. QED
    BY <2>1, <2>2, EndsWith
<1>3. CASE UNCHANGED vars
  <2>1. CountInv'
    BY <1>3 DEF IInv, CountInv, vars, daemon
  <2>2. QED
    BY <1>3, <2>1, SessionStays DEF vars
<1>4. QED
  BY <1>1, <1>2, <1>3, LoopSteps, BeginStep, OpenedStep, ConnectFailsStep,
     AcceptFailsStep, SendSteps, ReceiveChunkStep, ReceiveEndsSteps
  DEF Next, Work, Client

(* For any card, commands and client: what a worker has said and received  *)
(* is as its place in the command requires.                                *)
THEOREM ServerInvariant == Spec => []IInv
  BY ServerStarts, ServerSteps, PTL DEF Spec

(* A command gets one final reply, the last one, and one more for every    *)
(* attempt to connect that failed, as long as the client is there.         *)
THEOREM RepliesInStep == Spec => []OneFinalReply
<1>1. IInv => OneFinalReply
  BY DEF IInv, ReplyInv
<1>2. QED
  BY <1>1, ServerInvariant, PTL

(* "Transfer complete" after an upload means that the file has all that    *)
(* the client sent, unless the connection broke or a write was cut short.  *)
THEOREM UploadsComplete == Spec => []StoreComplete
<1>1. IInv => StoreComplete
  BY DEF IInv, UploadInv
<1>2. QED
  BY <1>1, ServerInvariant, PTL
(* A set of numbers with 0 and every successor in it has all of them. *)
LEMMA NatInSet ==
  ASSUME NEW T, 0 \in T, \A n \in Nat : n \in T => n + 1 \in T
  PROVE  Nat \subseteq T
<1> SUFFICES ASSUME NEW n \in Nat, n \notin T PROVE FALSE
  OBVIOUS
<1> DEFINE Left == Nat \ T
<1>1. IsWellFoundedOn(OpToRel(<, Nat), Nat)
  BY NatLessThanWellFounded
<1>2. \A x, y \in Nat : y < x => <<y, x>> \in OpToRel(<, Nat)
  BY DEF OpToRel
<1>3. PICK x \in Left : \A y \in Left : <<y, x>> \notin OpToRel(<, Nat)
  <2>1. Left \subseteq Nat /\ Left # {}
    OBVIOUS
  <2> HIDE DEF Left
  <2>2. QED
    BY <1>1, <2>1, WFMin
<1>4. x # 0 /\ x \in Nat
  OBVIOUS
<1>5. x - 1 \in Nat /\ x - 1 < x /\ (x - 1) + 1 = x
  BY <1>4
<1>6. x - 1 \notin Left
  BY <1>2, <1>3, <1>4, <1>5
<1>7. QED
  BY <1>5, <1>6

(* f joins the first m sequences of ss, one after the other. *)
Flattens(f, ss, m) ==
  f = [i \in 1..m |-> IF i = 1 THEN ss[i] ELSE f[i - 1] \o ss[i]]

Flattening(ss) == CHOOSE f : Flattens(f, ss, Len(ss))

(* FlattenSeq is the last of what such a function has. *)
LEMMA FlattenSeqIs ==
  ASSUME NEW ss
  PROVE  FlattenSeq(ss) = IF Len(ss) = 0 THEN ss ELSE Flattening(ss)[Len(ss)]
BY Zenon DEF FlattenSeq, Flattening, Flattens

(* There is such a function for any m: the recursion is well founded. *)
LEMMA FlatteningExists ==
  ASSUME NEW ss, NEW n \in Nat
  PROVE  \E f : Flattens(f, ss, n)
<1> DEFINE T == {m \in Nat : \E f : Flattens(f, ss, m)}
<1>1. 0 \in T
  <2>1. [i \in 1..0 |-> 0]
          = [i \in 1..0 |-> IF i = 1 THEN ss[i] ELSE [j \in 1..0 |-> 0][i - 1] \o ss[i]]
    OBVIOUS
  <2>2. QED
    BY <2>1 DEF Flattens
<1>2. ASSUME NEW m \in Nat, m \in T PROVE m + 1 \in T
  <2>1. PICK f : Flattens(f, ss, m)
    BY <1>2
  <2> DEFINE g == [i \in 1..(m + 1) |-> IF i <= m THEN f[i]
                     ELSE IF i = 1 THEN ss[i] ELSE f[i - 1] \o ss[i]]
  <2>2. f = [i \in 1..m |-> IF i = 1 THEN ss[i] ELSE f[i - 1] \o ss[i]]
    BY <2>1 DEF Flattens
  <2>3. ASSUME NEW i \in 1..(m + 1)
        PROVE  g[i] = IF i = 1 THEN ss[i] ELSE g[i - 1] \o ss[i]
    <3>1. CASE i = 1
      <4>1. i \in 1..m => f[i] = ss[i]
        BY <2>2, <3>1
      <4>2. QED
        BY <3>1, <4>1
    <3>2. CASE i # 1
      <4>1. i - 1 \in 1..(m + 1) /\ i - 1 <= m
        BY <3>2
      <4>2. g[i - 1] = f[i - 1]
        BY <4>1
      <4>3. i <= m => i \in 1..m
        OBVIOUS
      <4>4. i <= m => f[i] = f[i - 1] \o ss[i]
        BY <2>2, <3>2, <4>3
      <4>5. g[i] = f[i - 1] \o ss[i]
        BY <3>2, <4>4
      <4>6. QED
        BY <3>2, <4>2, <4>5
    <3>3. QED
      BY <3>1, <3>2
  <2>4. Flattens(g, ss, m + 1)
    <3>1. g = [i \in 1..(m + 1) |-> g[i]]
      OBVIOUS
    <3> HIDE DEF g
    <3>2. QED
      BY <2>3, <3>1, Zenon DEF Flattens
  <2> HIDE DEF g
  <2>5. QED
    BY <2>4
<1>3. Nat \subseteq T
  <2> HIDE DEF T
  <2>1. QED
    BY <1>1, <1>2, NatInSet
<1>4. QED
  BY <1>3

(* What is longer than n is something of length n with one more at its end. *)
LEMMA LastPeeled ==
  ASSUME NEW S, NEW n \in Nat, NEW b \in Seq(S), Len(b) = n + 1
  PROVE  \E a \in Seq(S), t \in S : b = Append(a, t) /\ Len(a) = n
<1> DEFINE a == SubSeq(b, 1, n)
<1>1. a \in Seq(S) /\ Len(a) = n /\ b[n + 1] \in S
  OBVIOUS
<1>2. b = Append(a, b[n + 1])
  OBVIOUS
<1>3. QED
  BY <1>1, <1>2

(* One more sequence to join comes behind the others.  The functions that  *)
(* join them agree up to there, by induction.                              *)
LEMMA FlattenAppend ==
  ASSUME NEW S, NEW ss \in Seq(Seq(S)), NEW s \in Seq(S)
  PROVE  FlattenSeq(Append(ss, s)) = IF ss = <<>> THEN s ELSE FlattenSeq(ss) \o s
<1> DEFINE n == Len(ss)
           more == Append(ss, s)
           f == Flattening(ss)
           g == Flattening(more)
<1>1. n \in Nat /\ Len(more) = n + 1 /\ more[n + 1] = s
  OBVIOUS
<1>2. \A k \in 1..n : more[k] = ss[k]
  OBVIOUS
<1>3. f = [i \in 1..n |-> IF i = 1 THEN ss[i] ELSE f[i - 1] \o ss[i]]
  <2>1. Flattens(f, ss, n)
    BY <1>1, FlatteningExists, Zenon DEF Flattening
  <2> HIDE DEF f
  <2>2. QED
    BY <2>1 DEF Flattens
<1>4. g = [i \in 1..(n + 1) |-> IF i = 1 THEN more[i] ELSE g[i - 1] \o more[i]]
  <2>1. n + 1 \in Nat /\ Len(more) = n + 1
    BY <1>1
  <2> HIDE DEF more, n
  <2>2. Flattens(g, more, n + 1)
    BY <2>1, FlatteningExists, Zenon DEF Flattening
  <2> HIDE DEF g
  <2>3. QED
    BY <2>2 DEF Flattens
<1> HIDE DEF f, g, more, n
<1>5. \A k \in 1..n : g[k] = f[k]
  <2> DEFINE T == {m \in Nat : m \in 1..n => g[m] = f[m]}
  <2>1. 0 \in T
    OBVIOUS
  <2>2. ASSUME NEW m \in Nat, m \in T PROVE m + 1 \in T
    <3>1. SUFFICES ASSUME m + 1 \in 1..n PROVE g[m + 1] = f[m + 1]
      OBVIOUS
    <3>2. m + 1 \in 1..(n + 1) /\ (m + 1) - 1 = m /\ more[m + 1] = ss[m + 1]
      BY <1>1, <1>2, <3>1
    <3>3. CASE m = 0
      BY <1>3, <1>4, <3>1, <3>2, <3>3
    <3>4. CASE m # 0
      <4>1. g[m] = f[m] /\ m + 1 # 1
        BY <1>1, <2>2, <3>1, <3>4
      <4>2. f[m + 1] = f[m] \o ss[m + 1]
        BY <1>3, <3>1, <3>2, <4>1
      <4>3. g[m + 1] = g[m] \o more[m + 1]
        BY <1>4, <3>2, <4>1
      <4>4. QED
        BY <3>2, <4>1, <4>2, <4>3
    <3>5. QED
      BY <3>3, <3>4
  <2> HIDE DEF T
  <2>3. Nat \subseteq T
    BY <2>1, <2>2, NatInSet
  <2>4. QED
    BY <2>3 DEF T
<1>6. FlattenSeq(more) = g[n + 1]
  BY <1>1, FlattenSeqIs DEF g
<1>7. CASE ss = <<>>
  <2>1. n = 0
    BY <1>7 DEF n
  <2>2. g[1] = more[1]
    BY <1>4, <2>1
  <2>3. QED
    BY <1>1, <1>6, <1>7, <2>1, <2>2 DEF more
<1>8. CASE ss # <<>>
  <2>1. n # 0
    BY <1>8, EmptySeq DEF n
  <2>2. FlattenSeq(ss) = f[n]
    BY <2>1, FlattenSeqIs DEF f, n
  <2>3. (n + 1) - 1 = n /\ n \in 1..n /\ n + 1 \in 1..(n + 1) /\ n + 1 # 1
    BY <1>1, <2>1
  <2>4. g[n + 1] = g[n] \o more[n + 1]
    BY <1>4, <2>3
  <2>5. g[n] = f[n]
    BY <1>5, <2>3
  <2>6. FlattenSeq(more) = FlattenSeq(ss) \o s
    BY <1>1, <1>6, <2>2, <2>4, <2>5
  <2>7. QED
    BY <1>8, <2>6 DEF more
<1>9. QED
  BY <1>7, <1>8

(* Nothing joined is nothing, and one more comes behind. *)
LEMMA Flattened ==
  ASSUME NEW S
  PROVE  /\ FlattenSeq(<<>>) = <<>>
         /\ \A ss \in Seq(Seq(S)) : FlattenSeq(ss) \in Seq(S)
         /\ \A ss \in Seq(Seq(S)), s \in Seq(S) :
              FlattenSeq(Append(ss, s)) = FlattenSeq(ss) \o s
<1>1. FlattenSeq(<<>>) = <<>>
  BY FlattenSeqIs
<1>2. ASSUME NEW ss \in Seq(Seq(S)), NEW s \in Seq(S)
      PROVE  FlattenSeq(Append(ss, s)) = FlattenSeq(ss) \o s
  <2>1. <<>> \o s = s
    OBVIOUS
  <2>2. QED
    BY <1>1, <2>1, FlattenAppend
<1> DEFINE T == {m \in Nat : \A ss \in Seq(Seq(S)) : Len(ss) = m => FlattenSeq(ss) \in Seq(S)}
<1>3. 0 \in T
  <2>1. \A ss \in Seq(Seq(S)) : Len(ss) = 0 => ss = <<>>
    OBVIOUS
  <2>2. <<>> \in Seq(S)
    OBVIOUS
  <2>3. QED
    BY <1>1, <2>1, <2>2
<1>4. ASSUME NEW m \in Nat, m \in T PROVE m + 1 \in T
  <2>1. SUFFICES ASSUME NEW ss \in Seq(Seq(S)), Len(ss) = m + 1
                 PROVE  FlattenSeq(ss) \in Seq(S)
    OBVIOUS
  <2>2. PICK a \in Seq(Seq(S)), t \in Seq(S) : ss = Append(a, t) /\ Len(a) = m
    BY <2>1, LastPeeled
  <2>3. FlattenSeq(a) \in Seq(S)
    BY <1>4, <2>2
  <2>4. FlattenSeq(ss) = FlattenSeq(a) \o t
    BY <1>2, <2>2
  <2>5. QED
    BY <2>2, <2>3, <2>4, ConcatProperties
<1> HIDE DEF T
<1>5. Nat \subseteq T
  BY <1>3, <1>4, NatInSet
<1>6. ASSUME NEW ss \in Seq(Seq(S)) PROVE FlattenSeq(ss) \in Seq(S)
  <2>1. Len(ss) \in Nat
    OBVIOUS
  <2>2. QED
    BY <1>5, <2>1 DEF T
<1>7. QED
  BY <1>1, <1>2, <1>6

----------------------------------------------------------------------------
(* The names of a path, one token at a time. *)
Tokens == Names \cup Separators

Piece(t) == IF t \in Separators THEN <<>> ELSE <<t>>

Pieces(path) == [k \in DOMAIN path |-> IF path[k] \in Separators THEN <<>> ELSE <<path[k]>>]

(* Their names are joined of the pieces that the tokens are. *)
LEMMA PiecesAppend ==
  ASSUME NEW path \in Seq(Tokens), NEW t \in Tokens
  PROVE  /\ Pieces(path) \in Seq(Seq(Names)) /\ Piece(t) \in Seq(Names)
         /\ Pieces(Append(path, t)) = Append(Pieces(path), Piece(t))
<1>1. \A x \in Tokens : Piece(x) \in Seq(Names)
  BY DEF Piece, Tokens
<1>2. ASSUME NEW p \in Seq(Tokens)
      PROVE  Pieces(p) = [k \in 1..Len(p) |-> Piece(p[k])]
  <2>1. DOMAIN p = 1..Len(p)
    OBVIOUS
  <2>2. QED
    BY <2>1, Zenon DEF Pieces, Piece
<1> HIDE DEF Piece
<1>3. \A p \in Seq(Tokens), k \in Nat : k \in 1..Len(p) => Piece(p[k]) \in Seq(Names)
  BY <1>1
<1>4. Pieces(path) \in Seq(Seq(Names))
  <2>1. \A k \in 1..Len(path) : Piece(path[k]) \in Seq(Names)
    BY <1>1
  <2>2. Len(path) \in Nat
    OBVIOUS
  <2>3. QED
    BY <1>2, <2>1, <2>2, IsASeq
<1>5. Pieces(Append(path, t)) = Append(Pieces(path), Piece(t))
  <2> DEFINE more == Append(path, t)
             a == [k \in 1..Len(path) |-> Piece(path[k])]
  <2>1. more \in Seq(Tokens) /\ Len(more) = Len(path) + 1 /\ more[Len(path) + 1] = t
    OBVIOUS
  <2>2. \A k \in 1..Len(path) : more[k] = path[k]
    OBVIOUS
  <2>3. a \in Seq(Seq(Names)) /\ Len(a) = Len(path) /\ Pieces(path) = a
    BY <1>2, <1>4
  <2>4. Append(a, Piece(t)) = [k \in 1..(Len(path) + 1) |->
                                 IF k = Len(path) + 1 THEN Piece(t) ELSE a[k]]
    BY <2>3
  <2>5. \A k \in 1..(Len(path) + 1) :
          Piece(more[k]) = IF k = Len(path) + 1 THEN Piece(t) ELSE a[k]
    BY <2>1, <2>2
  <2>6. Pieces(more) = [k \in 1..(Len(path) + 1) |-> Piece(more[k])]
    BY <1>2, <2>1
  <2>7. QED
    BY <2>3, <2>4, <2>5, <2>6
<1>6. QED
  BY <1>1, <1>4, <1>5

(* A path of one more token has the name more that this is, if it is one. *)
LEMMA NamesAppend ==
  /\ NamesOf(<<>>) = <<>>
  /\ \A path \in Seq(Tokens) : NamesOf(path) \in Seq(Names)
  /\ \A path \in Seq(Tokens), t \in Tokens :
       NamesOf(Append(path, t)) = NamesOf(path) \o Piece(t)
<1>1. \A p : NamesOf(p) = FlattenSeq(Pieces(p))
  BY DEF NamesOf, Pieces
<1>2. NamesOf(<<>>) = <<>>
  <2>1. Pieces(<<>>) = <<>>
    BY DEF Pieces
  <2>2. QED
    BY <1>1, <2>1, Flattened
<1>3. ASSUME NEW path \in Seq(Tokens)
      PROVE  NamesOf(path) \in Seq(Names)
  <2>1. CASE path = <<>>
    <3>1. <<>> \in Seq(Names)
      OBVIOUS
    <3>2. QED
      BY <1>2, <2>1, <3>1
  <2>2. CASE path # <<>>
    <3>1. path[1] \in Tokens
      BY <2>2
    <3>2. Pieces(path) \in Seq(Seq(Names))
      BY <3>1, PiecesAppend
    <3>3. QED
      BY <1>1, <3>2, Flattened
  <2>3. QED
    BY <2>1, <2>2
<1>4. ASSUME NEW path \in Seq(Tokens), NEW t \in Tokens
      PROVE  NamesOf(Append(path, t)) = NamesOf(path) \o Piece(t)
  <2>1. /\ Pieces(path) \in Seq(Seq(Names)) /\ Piece(t) \in Seq(Names)
        /\ Pieces(Append(path, t)) = Append(Pieces(path), Piece(t))
    BY PiecesAppend
  <2>2. FlattenSeq(Append(Pieces(path), Piece(t))) = FlattenSeq(Pieces(path)) \o Piece(t)
    BY <2>1, Flattened
  <2>3. QED
    BY <1>1, <2>1, <2>2
<1>5. QED
  BY <1>2, <1>3, <1>4

(* The names of two paths are those of the one, then those of the other. *)
LEMMA NamesConcat ==
  ASSUME NEW a \in Seq(Tokens), NEW b \in Seq(Tokens)
  PROVE  NamesOf(a \o b) = NamesOf(a) \o NamesOf(b)
<1> DEFINE T == {n \in Nat : \A c \in Seq(Tokens) :
                   Len(c) = n => NamesOf(a \o c) = NamesOf(a) \o NamesOf(c)}
<1>1. 0 \in T
  <2>1. \A c \in Seq(Tokens) : Len(c) = 0 => c = <<>>
    OBVIOUS
  <2>2. a \o <<>> = a
    OBVIOUS
  <2>3. NamesOf(a) \o <<>> = NamesOf(a)
    <3>1. NamesOf(a) \in Seq(Names)
      BY NamesAppend
    <3>2. QED
      BY <3>1
  <2>4. QED
    BY <2>1, <2>2, <2>3, NamesAppend
<1>2. ASSUME NEW n \in Nat, n \in T PROVE n + 1 \in T
  <2>1. SUFFICES ASSUME NEW c \in Seq(Tokens), Len(c) = n + 1
                 PROVE  NamesOf(a \o c) = NamesOf(a) \o NamesOf(c)
    OBVIOUS
  <2>2. PICK d \in Seq(Tokens), t \in Tokens : c = Append(d, t) /\ Len(d) = n
    BY <2>1, LastPeeled
  <2>3. a \o c = Append(a \o d, t) /\ a \o d \in Seq(Tokens)
    BY <2>2
  <2>4. NamesOf(a \o d) = NamesOf(a) \o NamesOf(d)
    BY <1>2, <2>2
  <2>5. NamesOf(a \o c) = NamesOf(a \o d) \o Piece(t)
    BY <2>3, NamesAppend
  <2>6. NamesOf(c) = NamesOf(d) \o Piece(t)
    BY <2>2, NamesAppend
  <2>7. /\ NamesOf(a) \in Seq(Names) /\ NamesOf(d) \in Seq(Names)
        /\ Piece(t) \in Seq(Names)
    BY NamesAppend, PiecesAppend
  <2>8. (NamesOf(a) \o NamesOf(d)) \o Piece(t) = NamesOf(a) \o (NamesOf(d) \o Piece(t))
    <3>1. ASSUME NEW u \in Seq(Names), NEW v \in Seq(Names), NEW w \in Seq(Names)
          PROVE  (u \o v) \o w = u \o (v \o w)
      BY SMTT(30)
    <3>2. QED
      BY <2>7, <3>1
  <2>9. QED
    BY <2>4, <2>5, <2>6, <2>8
<1> HIDE DEF T
<1>3. Nat \subseteq T
  BY <1>1, <1>2, NatInSet
<1>4. Len(b) \in Nat
  OBVIOUS
<1>5. QED
  BY <1>3, <1>4 DEF T

(* A token alone. *)
LEMMA NameAlone == \A t \in Tokens : NamesOf(<<t>>) = Piece(t)
<1> SUFFICES ASSUME NEW t \in Tokens PROVE NamesOf(<<t>>) = Piece(t)
  OBVIOUS
<1>1. <<t>> = Append(<<>>, t) /\ <<>> \in Seq(Tokens)
  OBVIOUS
<1>2. NamesOf(<<t>>) = <<>> \o Piece(t)
  BY <1>1, NamesAppend
<1>3. Piece(t) \in Seq(Names)
  BY <1>1, PiecesAppend
<1>4. QED
  BY <1>2, <1>3

(* A path of slashes and colons names nothing. *)
LEMMA NamesNothing ==
  ASSUME NEW b \in Seq(Tokens), \A k \in 1..Len(b) : b[k] \in Separators
  PROVE  NamesOf(b) = <<>>
<1> DEFINE T == {n \in Nat : \A c \in Seq(Tokens) :
                   Len(c) = n /\ (\A k \in 1..n : c[k] \in Separators) => NamesOf(c) = <<>>}
<1>1. 0 \in T
  <2>1. \A c \in Seq(Tokens) : Len(c) = 0 => c = <<>>
    OBVIOUS
  <2>2. QED
    BY <2>1, NamesAppend
<1>2. ASSUME NEW n \in Nat, n \in T PROVE n + 1 \in T
  <2>1. SUFFICES ASSUME NEW c \in Seq(Tokens), Len(c) = n + 1,
                        \A k \in 1..(n + 1) : c[k] \in Separators
                 PROVE  NamesOf(c) = <<>>
    OBVIOUS
  <2>2. PICK d \in Seq(Tokens), t \in Tokens : c = Append(d, t) /\ Len(d) = n
    BY <2>1, LastPeeled
  <2>3. t \in Separators /\ \A k \in 1..n : d[k] \in Separators
    BY <2>1, <2>2
  <2>4. NamesOf(d) = <<>>
    BY <1>2, <2>2, <2>3
  <2>5. NamesOf(c) = NamesOf(d) \o Piece(t)
    BY <2>2, NamesAppend
  <2>6. QED
    BY <2>3, <2>4, <2>5 DEF Piece
<1> HIDE DEF T
<1>3. Nat \subseteq T
  BY <1>1, <1>2, NatInSet
<1>4. Len(b) \in Nat
  OBVIOUS
<1>5. QED
  BY <1>3, <1>4 DEF T

(* A path with a name in it names something. *)
LEMMA NamedSomething ==
  ASSUME NEW b \in Seq(Tokens), NEW k \in 1..Len(b), b[k] \in Names
  PROVE  NamesOf(b) # <<>>
<1> DEFINE x == SubSeq(b, 1, k - 1)
           y == SubSeq(b, k + 1, Len(b))
           t == b[k]
<1>1. x \in Seq(Tokens) /\ y \in Seq(Tokens) /\ t \in Tokens
  BY DEF Tokens
<1>2. b = Append(x, t) \o y /\ Append(x, t) \in Seq(Tokens)
  <2>1. Append(x, t) \in Seq(Tokens) /\ Append(x, t) = SubSeq(b, 1, k)
    BY <1>1
  <2>2. b = SubSeq(b, 1, k) \o y
    OBVIOUS
  <2>3. QED
    BY <2>1, <2>2
<1>3. Piece(t) = <<t>>
  BY NameAssumption DEF Piece
<1> HIDE DEF x, y, t
<1>4. NamesOf(b) = (NamesOf(x) \o <<t>>) \o NamesOf(y)
  <2>1. NamesOf(b) = NamesOf(Append(x, t)) \o NamesOf(y)
    BY <1>1, <1>2, NamesConcat
  <2>2. NamesOf(Append(x, t)) = NamesOf(x) \o <<t>>
    BY <1>1, <1>3, NamesAppend
  <2>3. QED
    BY <2>1, <2>2
<1>5. NamesOf(x) \in Seq(Names) /\ NamesOf(y) \in Seq(Names) /\ <<t>> \in Seq(Names)
  BY <1>1, NamesAppend DEF t
<1>6. Len((NamesOf(x) \o <<t>>) \o NamesOf(y)) >= 1
  <2>1. ASSUME NEW c \in Seq(Names), NEW d \in Seq(Names)
        PROVE  c \o d \in Seq(Names) /\ Len(c \o d) = Len(c) + Len(d) /\ Len(c) \in Nat
    OBVIOUS
  <2>2. Len(<<t>>) = 1
    OBVIOUS
  <2> DEFINE c == NamesOf(x) \o <<t>>
  <2>3. c \in Seq(Names) /\ Len(c) >= 1
    BY <1>5, <2>1, <2>2
  <2> HIDE DEF c
  <2>4. Len(c \o NamesOf(y)) = Len(c) + Len(NamesOf(y)) /\ Len(NamesOf(y)) \in Nat
    BY <1>5, <2>1, <2>3
  <2>5. QED
    BY <2>3, <2>4 DEF c
<1>7. QED
  BY <1>4, <1>6

----------------------------------------------------------------------------
(* Paths in the notation of FatFs. *)

Spaced(path) ==
  \A k \in 1..(Len(path) - 1) : path[k] \in Separators \/ path[k + 1] \in Separators

NoColon(path) == \A k \in 1..Len(path) : path[k] # ":"

Slashes(names) == [k \in DOMAIN names |-> <<"/", names[k]>>]

(* What names become with a slash before each. *)
SlashedShape(names, path) ==
  /\ path \in Seq(Tokens) /\ NamesOf(path) = names
  /\ NoColon(path) /\ Spaced(path)
  /\ names # <<>> => Len(path) >= 2 /\ path[1] = "/"

(* A slash and a name more. *)
LEMMA SlashedMore ==
  ASSUME NEW names \in Seq(Names), NEW t \in Names, NEW path, SlashedShape(names, path),
         names = <<>> => path = <<>>
  PROVE  SlashedShape(Append(names, t), path \o <<"/", t>>)
<1> DEFINE more == path \o <<"/", t>>
           n == Len(path)
<1>1. path \in Seq(Tokens) /\ n \in Nat /\ <<"/", t>> \in Seq(Tokens) /\ t \notin Separators
  BY NameAssumption DEF SlashedShape, Tokens, Separators
<1>2. /\ more \in Seq(Tokens) /\ Len(more) = n + 2
      /\ more[n + 1] = "/" /\ more[n + 2] = t
  BY <1>1
<1>3. \A k \in 1..n : more[k] = path[k]
  BY <1>1
<1>4. NamesOf(more) = Append(names, t)
  <2>1. NamesOf(<<"/", t>>) = <<t>>
    <3>1. <<"/">> \in Seq(Tokens) /\ "/" \in Tokens /\ t \in Tokens
          /\ <<"/", t>> = Append(<<"/">>, t) /\ "/" \in Separators
      BY DEF Tokens, Separators
    <3>2. NamesOf(<<"/", t>>) = NamesOf(<<"/">>) \o Piece(t)
      BY <3>1, NamesAppend
    <3>3. NamesOf(<<"/">>) = <<>>
      BY <3>1, NameAlone DEF Piece
    <3>4. Piece(t) = <<t>> /\ <<>> \o <<t>> = <<t>>
      BY <1>1 DEF Piece
    <3>5. QED
      BY <3>2, <3>3, <3>4
  <2>2. NamesOf(more) = NamesOf(path) \o NamesOf(<<"/", t>>)
    BY <1>1, NamesConcat
  <2>3. names \o <<t>> = Append(names, t)
    OBVIOUS
  <2>4. QED
    BY <2>1, <2>2, <2>3 DEF SlashedShape
<1> HIDE DEF more, n
<1>5. NoColon(more)
  <2>1. \A k \in 1..(n + 2) : k \in 1..n \/ k = n + 1 \/ k = n + 2
    BY <1>1
  <2>2. \A k \in 1..n : path[k] # ":"
    BY DEF SlashedShape, NoColon, n
  <2>3. QED
    BY <1>1, <1>2, <1>3, <2>1, <2>2 DEF NoColon, Separators
<1>6. Spaced(more)
  <2>1. SUFFICES ASSUME NEW k \in 1..(n + 1)
                 PROVE  more[k] \in Separators \/ more[k + 1] \in Separators
    BY <1>1, <1>2 DEF Spaced
  <2>2. CASE k \in 1..(n - 1)
    <3>1. path[k] \in Separators \/ path[k + 1] \in Separators
      BY <2>2 DEF SlashedShape, Spaced, n
    <3>2. k \in 1..n /\ k + 1 \in 1..n
      BY <1>1, <2>2
    <3>3. QED
      BY <1>3, <3>1, <3>2
  <2>3. CASE k = n \/ k = n + 1
    BY <1>1, <1>2, <2>3 DEF Separators
  <2>4. QED
    BY <1>1, <2>2, <2>3
<1>7. Len(more) >= 2 /\ more[1] = "/"
  <2>1. CASE names = <<>>
    <3>1. n = 0
      BY <2>1 DEF n
    <3>2. QED
      BY <1>2, <3>1
  <2>2. CASE names # <<>>
    BY <1>1, <1>2, <1>3, <2>2 DEF SlashedShape, n
  <2>3. QED
    BY <2>1, <2>2
<1>8. QED
  BY <1>2, <1>4, <1>5, <1>6, <1>7 DEF SlashedShape, more

(* All of them, by induction. *)
LEMMA SlashedAll ==
  ASSUME NEW names \in Seq(Names)
  PROVE  /\ SlashedShape(names, FlattenSeq(Slashes(names)))
         /\ names = <<>> => FlattenSeq(Slashes(names)) = <<>>
<1> DEFINE J(s) == FlattenSeq(Slashes(s))
           Good(s) == SlashedShape(s, J(s)) /\ (s = <<>> => J(s) = <<>>)
           T == {n \in Nat : \A s \in Seq(Names) : Len(s) = n => Good(s)}
<1>1. Good(<<>>)
  <2>1. Slashes(<<>>) = <<>>
    BY DEF Slashes
  <2>2. J(<<>>) = <<>>
    BY <2>1, Flattened
  <2>3. SlashedShape(<<>>, <<>>)
    BY NamesAppend DEF SlashedShape, NoColon, Spaced
  <2> HIDE DEF J
  <2>4. QED
    BY <2>2, <2>3
<1>2. ASSUME NEW s \in Seq(Names), NEW t \in Names, Good(s)
      PROVE  Good(Append(s, t))
  <2>1. Slashes(s) \in Seq(Seq(Tokens)) /\ <<"/", t>> \in Seq(Tokens)
    <3>1. \A x \in Names : <<"/", x>> \in Seq(Tokens)
      BY DEF Tokens, Separators
    <3>2. Slashes(s) = [k \in 1..Len(s) |-> <<"/", s[k]>>] /\ Len(s) \in Nat
      BY DEF Slashes
    <3>3. \A k \in 1..Len(s) : <<"/", s[k]>> \in Seq(Tokens)
      BY <3>1
    <3>4. Slashes(s) \in Seq(Seq(Tokens))
      BY <3>2, <3>3, IsASeq
    <3>5. QED
      BY <3>1, <3>4
  <2>2. Slashes(Append(s, t)) = Append(Slashes(s), <<"/", t>>)
    <3> DEFINE a == [k \in 1..Len(s) |-> <<"/", s[k]>>]
               x == <<"/", t>>
    <3>1. \A p \in Seq(Names) : Slashes(p) = [k \in 1..Len(p) |-> <<"/", p[k]>>]
      BY DEF Slashes
    <3>2. /\ Append(s, t) \in Seq(Names) /\ Len(Append(s, t)) = Len(s) + 1
          /\ Append(s, t)[Len(s) + 1] = t /\ \A k \in 1..Len(s) : Append(s, t)[k] = s[k]
      OBVIOUS
    <3>3. a \in Seq(Seq(Tokens)) /\ Len(a) = Len(s) /\ Slashes(s) = a
      <4>1. Slashes(s) = a
        BY <3>1
      <4>2. a \in Seq(Seq(Tokens)) /\ Len(s) \in Nat
        BY <2>1, <4>1
      <4>3. Len(a) = Len(s)
        BY <4>2
      <4>4. QED
        BY <4>1, <4>2, <4>3
    <3>4. Append(a, x) = [k \in 1..(Len(s) + 1) |-> IF k = Len(s) + 1 THEN x ELSE a[k]]
      BY <3>3
    <3>5. \A k \in 1..(Len(s) + 1) :
            <<"/", Append(s, t)[k]>> = IF k = Len(s) + 1 THEN x ELSE a[k]
      BY <3>2
    <3>6. Slashes(Append(s, t)) = [k \in 1..(Len(s) + 1) |-> <<"/", Append(s, t)[k]>>]
      BY <3>1, <3>2
    <3>7. QED
      BY <3>3, <3>4, <3>5, <3>6
  <2>3. J(Append(s, t)) = J(s) \o <<"/", t>>
    BY <2>1, <2>2, Flattened
  <2> HIDE DEF J
  <2>4. SlashedShape(Append(s, t), J(s) \o <<"/", t>>)
    BY <1>2, SlashedMore
  <2>5. Append(s, t) # <<>>
    OBVIOUS
  <2>6. QED
    BY <2>3, <2>4, <2>5
<1> HIDE DEF Good
<1>3. 0 \in T
  <2>1. \A s \in Seq(Names) : Len(s) = 0 => s = <<>>
    OBVIOUS
  <2>2. QED
    BY <1>1, <2>1
<1>4. ASSUME NEW n \in Nat, n \in T PROVE n + 1 \in T
  <2>1. SUFFICES ASSUME NEW s \in Seq(Names), Len(s) = n + 1 PROVE Good(s)
    OBVIOUS
  <2>2. PICK d \in Seq(Names), t \in Names : s = Append(d, t) /\ Len(d) = n
    BY <2>1, LastPeeled
  <2>3. QED
    BY <1>2, <1>4, <2>2
<1> HIDE DEF T
<1>5. Nat \subseteq T
  BY <1>3, <1>4, NatInSet
<1>6. Len(names) \in Nat
  OBVIOUS
<1>7. Good(names)
  BY <1>5, <1>6 DEF T
<1>8. QED
  BY <1>7 DEF Good, J

----------------------------------------------------------------------------
(* Where a worker can be: a volume and its colon, and names behind it that *)
(* slashes part.                                                           *)
WorkingPaths ==
  {p \in Seq(Tokens) :
     /\ Len(p) >= 2 /\ p[1] \in Names /\ p[2] = ":"
     /\ \A k \in 3..Len(p) : p[k] # ":"
     /\ Spaced(p)
     /\ Len(p) > 2 => \E k \in 3..Len(p) : p[k] # "/"}

(* Below a volume there is the first name and what is named behind it. *)
LEMMA BelowVolume ==
  ASSUME NEW v \in Names, NEW rest \in Seq(Tokens)
  PROVE  NamesOf(<<v, ":">> \o rest) = <<v>> \o NamesOf(rest)
<1>1. /\ <<v>> \in Seq(Tokens) /\ ":" \in Tokens /\ v \in Tokens
      /\ <<v, ":">> = Append(<<v>>, ":") /\ <<v, ":">> \in Seq(Tokens)
  BY DEF Tokens, Separators
<1>2. NamesOf(<<v, ":">>) = NamesOf(<<v>>) \o Piece(":")
  BY <1>1, NamesAppend
<1>3. NamesOf(<<v>>) = <<v>> /\ Piece(":") = <<>>
  <2>1. v \notin Separators /\ ":" \in Separators
    BY NameAssumption DEF Separators
  <2>2. QED
    BY <1>1, <2>1, NameAlone DEF Piece
<1>4. NamesOf(<<v, ":">>) = <<v>>
  <2>1. <<v>> \o <<>> = <<v>>
    OBVIOUS
  <2>2. QED
    BY <1>2, <1>3, <2>1
<1>5. QED
  BY <1>1, <1>4, NamesConcat

(* A volume and what is behind it is a place, if that names something. *)
LEMMA PlaceBelow ==
  ASSUME NEW v \in Names, NEW rest \in Seq(Tokens), NoColon(rest), Spaced(rest),
         rest = <<>> \/ NamesOf(rest) # <<>>
  PROVE  <<v, ":">> \o rest \in WorkingPaths
<1> DEFINE p == <<v, ":">> \o rest
           n == Len(rest)
<1> SUFFICES p \in WorkingPaths
  OBVIOUS
<1>1. <<v, ":">> \in Seq(Tokens) /\ n \in Nat
  BY DEF Tokens, Separators
<1>2. p \in Seq(Tokens) /\ Len(p) = n + 2 /\ p[1] = v /\ p[2] = ":"
  BY <1>1
<1>3. \A k \in 1..n : p[k + 2] = rest[k]
  BY <1>1
<1> HIDE DEF p, n
<1>4. ASSUME NEW k \in 3..Len(p) PROVE k - 2 \in 1..n /\ p[k] = rest[k - 2]
  <2>1. k - 2 \in 1..n /\ (k - 2) + 2 = k
    BY <1>1, <1>2
  <2>2. QED
    BY <1>3, <2>1
<1>5. \A k \in 3..Len(p) : p[k] # ":"
  BY <1>4 DEF NoColon, n
<1>6. Spaced(p)
  <2>1. SUFFICES ASSUME NEW k \in 1..(n + 1)
                 PROVE  p[k] \in Separators \/ p[k + 1] \in Separators
    BY <1>1, <1>2 DEF Spaced
  <2>2. CASE k \in {1, 2}
    BY <1>2, <2>2 DEF Separators
  <2>3. CASE k \notin {1, 2}
    <3>1. k \in 3..Len(p) /\ k + 1 \in 3..Len(p) /\ k - 2 \in 1..(n - 1)
      BY <1>1, <1>2, <2>3
    <3>2. p[k] = rest[k - 2] /\ p[k + 1] = rest[(k - 2) + 1]
      <4>1. (k + 1) - 2 = (k - 2) + 1
        BY <3>1
      <4>2. QED
        BY <1>4, <3>1, <4>1
    <3>3. QED
      BY <3>1, <3>2 DEF Spaced, n
  <2>4. QED
    BY <2>2, <2>3
<1>7. ASSUME Len(p) > 2 PROVE \E k \in 3..Len(p) : p[k] # "/"
  <2>1. PICK j \in 1..n : rest[j] \notin Separators
    <3>1. rest # <<>>
      BY <1>2, <1>7 DEF n
    <3>2. QED
      BY <3>1, NamesNothing DEF n
  <2>2. j + 2 \in 3..Len(p) /\ p[j + 2] = rest[j]
    BY <1>1, <1>2, <1>3, <2>1
  <2>3. QED
    BY <2>1, <2>2 DEF Separators
<1>8. QED
  <2>1. Len(p) >= 2 /\ p[1] \in Names
    BY <1>1, <1>2
  <2>2. QED
    BY <1>2, <1>5, <1>6, <1>7, <2>1 DEF WorkingPaths

(* A place is a volume with something behind. *)
LEMMA PlaceHasVolume ==
  ASSUME NEW p \in WorkingPaths
  PROVE  \E v \in Names, rest \in Seq(Tokens) :
           /\ p = <<v, ":">> \o rest /\ NoColon(rest) /\ Spaced(rest)
           /\ rest = <<>> \/ NamesOf(rest) # <<>>
<1> DEFINE n == Len(p) - 2
           rest == SubSeq(p, 3, Len(p))
<1>1. p \in Seq(Tokens) /\ Len(p) >= 2 /\ p[1] \in Names /\ p[2] = ":"
  BY DEF WorkingPaths
<1>2. n \in Nat /\ rest \in Seq(Tokens) /\ Len(rest) = n /\ Len(p) = n + 2
  <2>1. Len(p) \in Nat
    BY <1>1
  <2>2. n \in Nat /\ Len(p) = n + 2 /\ 3 \in 1..(Len(p) + 1) /\ Len(p) \in (3 - 1)..Len(p)
        /\ Len(p) - 3 + 1 = n
    BY <1>1, <2>1
  <2>3. rest \in Seq(Tokens) /\ Len(rest) = Len(p) - 3 + 1
    BY <1>1, <2>2, SubSeqProperties
  <2>4. QED
    BY <2>2, <2>3
<1>3. \A k \in 1..n : rest[k] = p[k + 2]
  BY <1>1
<1>4. p = <<p[1], ":">> \o rest
  BY <1>1
<1> HIDE DEF rest, n
<1>5. NoColon(rest)
  <2>1. \A k \in 1..n : k + 2 \in 3..Len(p)
    BY <1>2
  <2>2. QED
    BY <1>2, <1>3, <2>1 DEF WorkingPaths, NoColon
<1>6. Spaced(rest)
  <2>1. SUFFICES ASSUME NEW k \in 1..(n - 1)
                 PROVE  rest[k] \in Separators \/ rest[k + 1] \in Separators
    BY <1>2 DEF Spaced
  <2>2. /\ k + 2 \in 1..(Len(p) - 1) /\ (k + 2) + 1 = (k + 1) + 2
        /\ k \in 1..n /\ k + 1 \in 1..n
    BY <1>2
  <2>3. p[k + 2] \in Separators \/ p[(k + 2) + 1] \in Separators
    BY <2>2 DEF WorkingPaths, Spaced
  <2>4. QED
    BY <1>3, <2>2, <2>3
<1>7. ASSUME rest # <<>> PROVE NamesOf(rest) # <<>>
  <2>1. Len(p) > 2
    BY <1>2, <1>7
  <2>2. PICK k \in 3..Len(p) : p[k] # "/"
    BY <2>1 DEF WorkingPaths
  <2>3. p[k] # ":" /\ k \in 1..Len(p) /\ p[k] \in Tokens
    BY <1>1 DEF WorkingPaths
  <2>4. k - 2 \in 1..n /\ rest[k - 2] = p[k]
    <3>1. k - 2 \in 1..n /\ (k - 2) + 2 = k
      BY <1>2
    <3>2. QED
      BY <1>3, <3>1
  <2>5. rest[k - 2] \in Names
    BY <2>2, <2>3, <2>4 DEF Tokens, Separators
  <2>6. QED
    BY <1>2, <2>4, <2>5, NamedSomething
<1>8. QED
  BY <1>1, <1>2, <1>4, <1>5, <1>6, <1>7

----------------------------------------------------------------------------
(* From one notation to the other. *)

(* What is slashed and without its first slash names the same. *)
LEMMA SlashedNames ==
  ASSUME NEW names \in Seq(Names)
  PROVE  /\ Slashed(names) \in Seq(Tokens) /\ NoColon(Slashed(names))
         /\ Spaced(Slashed(names)) /\ NamesOf(Slashed(names)) = names
<1> DEFINE j == FlattenSeq(Slashes(names))
<1>1. SlashedShape(names, j)
  BY SlashedAll
<1>2. Slashed(names) = IF names = <<>> THEN <<>> ELSE Tail(j)
  BY Zenon DEF Slashed, Slashes
<1> HIDE DEF j
<1>3. CASE names = <<>>
  <2>1. <<>> \in Seq(Tokens) /\ NoColon(<<>>) /\ Spaced(<<>>)
    BY DEF NoColon, Spaced
  <2>2. QED
    BY <1>2, <1>3, <2>1, NamesAppend
<1>4. CASE names # <<>>
  <2> DEFINE t == Tail(j)
  <2>1. /\ j \in Seq(Tokens) /\ NamesOf(j) = names /\ NoColon(j) /\ Spaced(j)
        /\ Len(j) >= 2 /\ j[1] = "/" /\ j # <<>>
    BY <1>1, <1>4 DEF SlashedShape
  <2>2. t \in Seq(Tokens) /\ Len(t) = Len(j) - 1 /\ Len(j) \in Nat
    BY <2>1, HeadTailProperties
  <2>3. \A k \in 1..Len(t) : t[k] = j[k + 1]
    BY <2>1, HeadTailProperties
  <2>4. j = <<"/">> \o t
    <3>1. j = <<Head(j)>> \o Tail(j)
      BY <2>1
    <3>2. QED
      BY <2>1, <3>1
  <2> HIDE DEF t
  <2>5. NamesOf(t) = names
    <3>1. "/" \in Tokens /\ "/" \in Separators /\ <<"/">> \in Seq(Tokens)
      BY DEF Tokens, Separators
    <3>2. NamesOf(<<"/">>) = <<>>
      BY <3>1, NameAlone DEF Piece
    <3>3. NamesOf(j) = NamesOf(<<"/">>) \o NamesOf(t)
      BY <2>2, <2>4, <3>1, NamesConcat
    <3>4. NamesOf(t) \in Seq(Names)
      BY <2>2, NamesAppend
    <3>5. <<>> \o NamesOf(t) = NamesOf(t)
      BY <3>4
    <3>6. QED
      BY <2>1, <3>2, <3>3, <3>5
  <2>6. NoColon(t)
    <3>1. \A k \in 1..Len(t) : k + 1 \in 1..Len(j)
      BY <2>2
    <3>2. QED
      BY <2>1, <2>3, <3>1 DEF NoColon
  <2>7. Spaced(t)
    <3>1. SUFFICES ASSUME NEW k \in 1..(Len(t) - 1)
                   PROVE  t[k] \in Separators \/ t[k + 1] \in Separators
      BY DEF Spaced
    <3>2. k \in 1..Len(t) /\ k + 1 \in 1..Len(t) /\ k + 1 \in 1..(Len(j) - 1)
      BY <2>2
    <3>3. j[k + 1] \in Separators \/ j[(k + 1) + 1] \in Separators
      BY <2>1, <3>2 DEF Spaced
    <3>4. QED
      BY <2>3, <3>2, <3>3
  <2>8. QED
    BY <1>2, <1>4, <2>2, <2>5, <2>6, <2>7 DEF t
<1>5. QED
  BY <1>3, <1>4

(* An absolute path that names something is a place with those names. *)
LEMMA AbsolutePlace ==
  ASSUME NEW path \in Seq(Tokens)
  PROVE  /\ NamesOf(FTPPathToFatFsPath(path)) = NamesOf(path)
         /\ NamesOf(path) = <<>> => FTPPathToFatFsPath(path) = <<":">>
         /\ NamesOf(path) # <<>> => FTPPathToFatFsPath(path) \in WorkingPaths
<1> DEFINE names == NamesOf(path)
           rest == Slashed(Tail(names))
<1>1. names \in Seq(Names)
  BY NamesAppend
<1>2. FTPPathToFatFsPath(path) =
        IF names = <<>> THEN <<":">> ELSE <<Head(names), ":">> \o rest
  BY DEF FTPPathToFatFsPath
<1> HIDE DEF names, rest
<1>3. CASE names = <<>>
  <2>1. ":" \in Tokens /\ ":" \in Separators
    BY DEF Tokens, Separators
  <2>2. NamesOf(<<":">>) = <<>>
    BY <2>1, NameAlone DEF Piece
  <2>3. QED
    BY <1>2, <1>3, <2>2 DEF names
<1>4. CASE names # <<>>
  <2>1. Head(names) \in Names /\ Tail(names) \in Seq(Names)
        /\ names = <<Head(names)>> \o Tail(names)
    BY <1>1, <1>4
  <2>2. /\ rest \in Seq(Tokens) /\ NoColon(rest) /\ Spaced(rest)
        /\ NamesOf(rest) = Tail(names)
    BY <2>1, SlashedNames DEF rest
  <2>3. NamesOf(<<Head(names), ":">> \o rest) = <<Head(names)>> \o NamesOf(rest)
    BY <2>1, <2>2, BelowVolume
  <2>4. rest = <<>> \/ NamesOf(rest) # <<>>
    <3>1. CASE Tail(names) = <<>>
      BY <3>1 DEF rest, Slashed
    <3>2. CASE Tail(names) # <<>>
      BY <2>2, <3>2
    <3>3. QED
      BY <3>1, <3>2
  <2>5. <<Head(names), ":">> \o rest \in WorkingPaths
    BY <2>1, <2>2, <2>4, PlaceBelow
  <2>6. QED
    BY <1>2, <1>4, <2>1, <2>2, <2>3, <2>5 DEF names
<1>5. QED
  BY <1>3, <1>4

(* What arguments are. *)
LEMMA ArgumentShape ==
  ASSUME NEW a \in Arguments
  PROVE  a \in Seq(Tokens) /\ NoColon(a) /\ Spaced(a)
<1>1. a \in Seq(Names \cup {"/"}) /\ ":" \notin Names
  BY NameAssumption DEF Arguments, Separators
<1>2. a \in Seq(Tokens)
  <2>1. Names \cup {"/"} \subseteq Tokens
    BY DEF Tokens, Separators
  <2>2. QED
    BY <1>1, <2>1
<1>3. NoColon(a)
  BY <1>1 DEF NoColon
<1>4. Spaced(a)
  BY DEF Arguments, Spaced, Separators
<1>5. QED
  BY <1>2, <1>3, <1>4

(* A slash and an argument behind what is below a volume. *)
LEMMA SpacedBelow ==
  ASSUME NEW rest \in Seq(Tokens), NoColon(rest), Spaced(rest),
         NEW a \in Seq(Tokens), NoColon(a), Spaced(a)
  PROVE  LET more == (rest \o <<"/">>) \o a
         IN  more \in Seq(Tokens) /\ NoColon(more) /\ Spaced(more)
<1> DEFINE more == (rest \o <<"/">>) \o a
           m == Len(rest)
           n == Len(a)
<1>1. m \in Nat /\ n \in Nat /\ <<"/">> \in Seq(Tokens)
  BY DEF Tokens, Separators
<1>2. /\ more \in Seq(Tokens) /\ Len(more) = m + 1 + n
      /\ more[m + 1] = "/"
  BY <1>1
<1>3. \A k \in 1..m : more[k] = rest[k]
  BY <1>1
<1>4. \A k \in 1..n : more[m + 1 + k] = a[k]
  BY <1>1
<1> HIDE DEF more, m, n
<1>5. ASSUME NEW k \in (m + 2)..(m + 1 + n)
      PROVE  k - (m + 1) \in 1..n /\ more[k] = a[k - (m + 1)]
  <2>1. k - (m + 1) \in 1..n /\ m + 1 + (k - (m + 1)) = k
    BY <1>1
  <2>2. QED
    BY <1>4, <2>1
<1>6. NoColon(more)
  <2>1. SUFFICES ASSUME NEW k \in 1..(m + 1 + n) PROVE more[k] # ":"
    BY <1>2 DEF NoColon
  <2>2. k \in 1..m \/ k = m + 1 \/ k \in (m + 2)..(m + 1 + n)
    BY <1>1
  <2>3. (\A j \in 1..m : rest[j] # ":") /\ (\A j \in 1..n : a[j] # ":")
    BY DEF NoColon, m, n
  <2>4. QED
    BY <1>2, <1>3, <1>5, <2>2, <2>3
<1>7. Spaced(more)
  <2>1. SUFFICES ASSUME NEW k \in 1..(m + n)
                 PROVE  more[k] \in Separators \/ more[k + 1] \in Separators
    BY <1>1, <1>2 DEF Spaced
  <2>2. CASE k \in 1..(m - 1)
    <3>1. k \in 1..m /\ k + 1 \in 1..m
      BY <1>1, <2>2
    <3>2. rest[k] \in Separators \/ rest[k + 1] \in Separators
      BY <2>2 DEF Spaced, m
    <3>3. QED
      BY <1>3, <3>1, <3>2
  <2>3. CASE k \in {m, m + 1}
    BY <1>1, <1>2, <2>3 DEF Separators
  <2>4. CASE k \in (m + 2)..(m + n)
    <3>1. /\ k \in (m + 2)..(m + 1 + n) /\ k + 1 \in (m + 2)..(m + 1 + n)
          /\ k - (m + 1) \in 1..(n - 1) /\ (k + 1) - (m + 1) = (k - (m + 1)) + 1
      BY <1>1, <2>4
    <3>2. a[k - (m + 1)] \in Separators \/ a[(k - (m + 1)) + 1] \in Separators
      BY <3>1 DEF Spaced, n
    <3>3. more[k] = a[k - (m + 1)] /\ more[k + 1] = a[(k - (m + 1)) + 1]
      BY <1>5, <3>1
    <3>4. QED
      BY <3>2, <3>3
  <2>5. QED
    BY <1>1, <2>2, <2>3, <2>4
<1>8. QED
  BY <1>2, <1>6, <1>7 DEF more

(* A relative path goes down from where the worker is. *)
LEMMA Downward ==
  ASSUME NEW cur \in WorkingPaths, NEW a \in Arguments
  PROVE  LET down == (cur \o <<"/">>) \o a
         IN  /\ down \in Seq(Tokens) /\ NamesOf(down) = NamesOf(cur) \o NamesOf(a)
             /\ Len(NamesOf(down)) # 1 => down \in WorkingPaths
<1> DEFINE down == (cur \o <<"/">>) \o a
<1>1. a \in Seq(Tokens) /\ NoColon(a) /\ Spaced(a)
  BY ArgumentShape
<1>2. PICK v \in Names, rest \in Seq(Tokens) :
        /\ cur = <<v, ":">> \o rest /\ NoColon(rest) /\ Spaced(rest)
        /\ rest = <<>> \/ NamesOf(rest) # <<>>
  BY PlaceHasVolume
<1> DEFINE more == (rest \o <<"/">>) \o a
<1>3. more \in Seq(Tokens) /\ NoColon(more) /\ Spaced(more)
  BY <1>1, <1>2, SpacedBelow
<1>4. <<"/">> \in Seq(Tokens) /\ <<v, ":">> \in Seq(Tokens) /\ cur \in Seq(Tokens)
  BY DEF Tokens, Separators, WorkingPaths
<1>5. down = <<v, ":">> \o more
  <2>1. ASSUME NEW w \in Seq(Tokens), NEW x \in Seq(Tokens), NEW y \in Seq(Tokens)
        PROVE  (w \o x) \o y = w \o (x \o y) /\ x \o y \in Seq(Tokens)
    OBVIOUS
  <2>2. cur \o <<"/">> = <<v, ":">> \o (rest \o <<"/">>) /\ rest \o <<"/">> \in Seq(Tokens)
    BY <1>2, <1>4, <2>1
  <2>3. (<<v, ":">> \o (rest \o <<"/">>)) \o a = <<v, ":">> \o more
    <3> DEFINE r == rest \o <<"/">>
    <3>1. r \in Seq(Tokens)
      BY <2>2
    <3> HIDE DEF r
    <3>2. (<<v, ":">> \o r) \o a = <<v, ":">> \o (r \o a)
      BY <1>1, <1>4, <2>1, <3>1
    <3>3. QED
      BY <3>2 DEF r
  <2>4. QED
    BY <2>2, <2>3
<1>6. NamesOf(down) = NamesOf(cur) \o NamesOf(a) /\ down \in Seq(Tokens)
  <2>1. cur \o <<"/">> = Append(cur, "/") /\ cur \o <<"/">> \in Seq(Tokens)
    BY <1>4
  <2>2. "/" \in Tokens /\ Piece("/") = <<>>
    BY DEF Tokens, Separators, Piece
  <2>3. NamesOf(cur \o <<"/">>) = NamesOf(cur) \o <<>>
    BY <1>4, <2>1, <2>2, NamesAppend
  <2>4. NamesOf(cur) \in Seq(Names)
    BY <1>4, NamesAppend
  <2>5. NamesOf(cur \o <<"/">>) = NamesOf(cur)
    BY <2>3, <2>4
  <2>6. NamesOf(down) = NamesOf(cur \o <<"/">>) \o NamesOf(a)
    BY <1>1, <2>1, NamesConcat
  <2>7. QED
    BY <1>1, <2>1, <2>5, <2>6
<1>7. ASSUME Len(NamesOf(down)) # 1 PROVE down \in WorkingPaths
  <2> HIDE DEF more, down
  <2>1. NamesOf(down) = <<v>> \o NamesOf(more)
    BY <1>3, <1>5, BelowVolume
  <2>2. NamesOf(more) # <<>>
    <3>1. Len(<<v>> \o <<>>) = 1
      OBVIOUS
    <3>2. QED
      BY <1>7, <2>1, <3>1
  <2>3. QED
    BY <1>3, <1>5, <2>2, PlaceBelow
<1>8. QED
  BY <1>6, <1>7

(* Among finitely many numbers there is a last one. *)
LEMMA LastOne ==
  ASSUME NEW n \in Nat, NEW I, I \subseteq 1..n, I # {}
  PROVE  \E i \in I : \A j \in I : j <= i
<1> DEFINE T == {m \in Nat : \A J : J \subseteq 1..m /\ J # {} => \E i \in J : \A j \in J : j <= i}
<1>1. 0 \in T
  OBVIOUS
<1>2. ASSUME NEW m \in Nat, m \in T PROVE m + 1 \in T
  <2>1. SUFFICES ASSUME NEW J, J \subseteq 1..(m + 1), J # {}
                 PROVE  \E i \in J : \A j \in J : j <= i
    OBVIOUS
  <2>2. CASE m + 1 \in J
    <3>1. \A j \in J : j <= m + 1
      BY <2>1
    <3>2. QED
      BY <2>2, <3>1
  <2>3. CASE m + 1 \notin J
    <3>1. J \subseteq 1..m
      BY <2>1, <2>3
    <3>2. QED
      BY <1>2, <2>1, <3>1
  <2>4. QED
    BY <2>2, <2>3
<1> HIDE DEF T
<1>3. Nat \subseteq T
  BY <1>1, <1>2, NatInSet
<1>4. QED
  BY <1>3 DEF T

(* Where Back stops. *)
LEMMA BackStops ==
  ASSUME NEW path, NEW k \in Nat, NEW tokens, NEW i \in 1..k, path[i] \in tokens,
         \A j \in (i + 1)..k : path[j] \notin tokens
  PROVE  Back(path, k, tokens) = i
<1> DEFINE I == {j \in 1..k : path[j] \in tokens} \cup {1}
<1>1. i \in I /\ I \subseteq Nat
  OBVIOUS
<1>2. ASSUME NEW j \in I PROVE j <= i
  <2>1. j \in 1..k /\ (j = 1 \/ path[j] \in tokens)
    OBVIOUS
  <2>2. QED
    BY <2>1
<1> HIDE DEF I
<1>3. \A x \in I : (\A j \in I : j <= x) => x = i
  BY <1>1, <1>2
<1>4. (CHOOSE x \in I : \A j \in I : j <= x) = i
  BY <1>1, <1>2, <1>3
<1>5. QED
  BY <1>4 DEF Back, I

(* A place other than a volume: what is above, slashes, the last name, and *)
(* slashes it may end with.                                                *)
Apart(p, m, n) ==
  /\ n \in 3..Len(p) /\ m \in 2..(n - 1)
  /\ p[n] \in Names /\ p[n - 1] \in Separators /\ p[m] # "/"
  /\ \A j \in (m + 1)..(n - 1) : p[j] = "/"
  /\ \A j \in (n + 1)..Len(p) : p[j] = "/"

(* Every working path below its volume has a last name to take off.         *)
LEMMA PlaceApart ==
  ASSUME NEW p \in WorkingPaths, Len(p) > 2
  PROVE  \E m, n \in Nat : Apart(p, m, n)
<1> DEFINE L == {k \in 3..Len(p) : p[k] # "/"}
<1>1. /\ p \in Seq(Tokens) /\ Len(p) \in Nat /\ p[2] = ":" /\ Spaced(p) /\ L # {}
      /\ \A k \in 3..Len(p) : p[k] # ":"
  BY DEF WorkingPaths
<1>2. L \subseteq 1..Len(p)
  OBVIOUS
<1>3. PICK n \in L : \A j \in L : j <= n
  <2> HIDE DEF L
  <2>1. QED
    BY <1>1, <1>2, LastOne
<1>4. n \in 3..Len(p) /\ n \in Nat /\ p[n] # "/" /\ \A j \in (n + 1)..Len(p) : p[j] = "/"
  <2>1. n \in 3..Len(p) /\ p[n] # "/"
    OBVIOUS
  <2>2. ASSUME NEW j \in (n + 1)..Len(p), p[j] # "/" PROVE FALSE
    <3>1. j \in L /\ ~(j <= n)
      BY <2>1, <2>2
    <3>2. QED
      BY <1>3, <3>1
  <2>3. QED
    BY <1>1, <2>1, <2>2
<1> HIDE DEF L
<1>5. p[n] \in Names
  <2>1. p[n] \in Tokens /\ p[n] # ":" /\ p[n] # "/"
    BY <1>1, <1>4
  <2>2. QED
    BY <2>1 DEF Tokens, Separators
<1>6. p[n - 1] \in Separators
  <2>1. n - 1 \in 1..(Len(p) - 1) /\ (n - 1) + 1 = n
    BY <1>1, <1>4
  <2>2. p[n - 1] \in Separators \/ p[n] \in Separators
    BY <1>1, <2>1 DEF Spaced
  <2>3. QED
    BY <1>5, <2>2, NameAssumption
<1> DEFINE M == {k \in 2..(n - 1) : p[k] # "/"}
<1>7. M \subseteq 1..(n - 1) /\ 2 \in M /\ n - 1 \in Nat
  BY <1>1, <1>4
<1>8. PICK m \in M : \A j \in M : j <= m
  <2> HIDE DEF M
  <2>1. QED
    BY <1>7, LastOne
<1>9. m \in 2..(n - 1) /\ p[m] # "/" /\ \A j \in (m + 1)..(n - 1) : p[j] = "/"
  <2>1. m \in 2..(n - 1) /\ p[m] # "/"
    OBVIOUS
  <2>2. ASSUME NEW j \in (m + 1)..(n - 1), p[j] # "/" PROVE FALSE
    <3>1. j \in M /\ ~(j <= m)
      BY <1>4, <2>1, <2>2
    <3>2. QED
      BY <1>8, <3>1
  <2>3. QED
    BY <1>4, <2>1, <2>2
<1> HIDE DEF M
<1>10. Apart(p, m, n) /\ m \in Nat
  <2>1. m \in Nat
    BY <1>4, <1>9
  <2>2. QED
    BY <1>4, <1>5, <1>6, <1>9, <2>1 DEF Apart
<1>11. QED
  BY <1>4, <1>10

(* FatFsParentPath keeps what is above, *)
LEMMA ParentOfPlace ==
  ASSUME NEW p \in Seq(Tokens), NEW m \in Nat, NEW n \in Nat, Apart(p, m, n)
  PROVE  FatFsParentPath(p) = SubSeq(p, 1, m)
<1> DEFINE NotSlash == ToSet(p) \ {"/"}
<1>1. /\ Len(p) \in Nat /\ n \in 3..Len(p) /\ m \in 2..(n - 1)
      /\ p[n] \in Names /\ p[n - 1] \in Separators /\ p[m] # "/"
      /\ \A j \in (m + 1)..(n - 1) : p[j] = "/"
      /\ \A j \in (n + 1)..Len(p) : p[j] = "/"
  BY DEF Apart
<1>2. \A j \in 1..Len(p) : p[j] \in NotSlash <=> p[j] # "/"
  BY DEF ToSet
<1> HIDE DEF NotSlash
<1>3. Back(p, Len(p), NotSlash) = n
  <2>1. n \in 1..Len(p) /\ p[n] # "/"
    BY <1>1, NameAssumption DEF Separators
  <2>2. p[n] \in NotSlash
    BY <1>2, <2>1
  <2>3. \A j \in (n + 1)..Len(p) : p[j] \notin NotSlash
    <3>1. \A j \in (n + 1)..Len(p) : j \in 1..Len(p)
      BY <1>1
    <3>2. QED
      BY <1>1, <1>2, <3>1
  <2>4. QED
    BY <1>1, <2>1, <2>2, <2>3, BackStops
<1>4. Back(p, n, {"/", ":"}) = n - 1
  <2>1. n - 1 \in 1..n /\ p[n - 1] \in {"/", ":"}
    BY <1>1 DEF Separators
  <2>2. \A j \in ((n - 1) + 1)..n : p[j] \notin {"/", ":"}
    <3>1. \A j \in ((n - 1) + 1)..n : j = n
      BY <1>1
    <3>2. QED
      BY <1>1, <3>1, NameAssumption DEF Separators
  <2>3. QED
    BY <2>1, <2>2, BackStops
<1>5. Back(p, n - 1, NotSlash) = m
  <2>1. m \in 1..(n - 1) /\ n - 1 \in Nat /\ m \in 1..Len(p)
    BY <1>1
  <2>2. p[m] \in NotSlash
    BY <1>1, <1>2, <2>1
  <2>3. \A j \in (m + 1)..(n - 1) : p[j] \notin NotSlash
    <3>1. \A j \in (m + 1)..(n - 1) : j \in 1..Len(p)
      BY <1>1
    <3>2. QED
      BY <1>1, <1>2, <3>1
  <2>4. QED
    BY <2>1, <2>2, <2>3, BackStops
<1>6. m \notin {1, Len(p)}
  BY <1>1
<1>7. FatFsParentPath(p) =
        LET before == Back(p, Back(p, Back(p, Len(p), NotSlash), {"/", ":"}), NotSlash)
        IN  IF before \in {1, Len(p)} THEN <<>> ELSE SubSeq(p, 1, before)
  BY Zenon DEF FatFsParentPath, NotSlash
<1>8. QED
  BY <1>3, <1>4, <1>5, <1>6, <1>7

(* and what is above has all names but the last. *)
LEMMA AboveNames ==
  ASSUME NEW p \in Seq(Tokens), NEW m \in Nat, NEW n \in Nat, Apart(p, m, n)
  PROVE  NamesOf(p) = Append(NamesOf(SubSeq(p, 1, m)), p[n])
<1> DEFINE up == SubSeq(p, 1, m)
           mid == SubSeq(p, m + 1, n - 1)
           end == SubSeq(p, n + 1, Len(p))
           t == p[n]
<1>1. /\ Len(p) \in Nat /\ n \in 3..Len(p) /\ m \in 2..(n - 1) /\ t \in Names
      /\ \A j \in (m + 1)..(n - 1) : p[j] = "/"
      /\ \A j \in (n + 1)..Len(p) : p[j] = "/"
  BY DEF Apart
<1>2. up \in Seq(Tokens) /\ mid \in Seq(Tokens) /\ end \in Seq(Tokens) /\ t \in Tokens
  BY <1>1
<1>3. NamesOf(mid) = <<>>
  <2>1. \A k \in 1..Len(mid) : mid[k] = "/"
    BY <1>1
  <2>2. "/" \in Separators
    BY DEF Separators
  <2> HIDE DEF mid
  <2>3. QED
    BY <1>2, <2>1, <2>2, NamesNothing
<1>4. NamesOf(end) = <<>>
  <2>1. \A k \in 1..Len(end) : end[k] = "/"
    BY <1>1
  <2>2. "/" \in Separators
    BY DEF Separators
  <2> HIDE DEF end
  <2>3. QED
    BY <1>2, <2>1, <2>2, NamesNothing
<1>5. Append(up \o mid, t) = SubSeq(p, 1, n)
  <2>1. up \o mid = SubSeq(p, 1, n - 1)
    BY <1>1
  <2>2. Append(SubSeq(p, 1, n - 1), p[n]) = SubSeq(p, 1, n)
    BY <1>1
  <2>3. QED
    BY <2>1, <2>2
<1>6. p = SubSeq(p, 1, n) \o end
  <2>1. ASSUME NEW k \in 1..Len(p)
        PROVE  p = SubSeq(p, 1, k) \o SubSeq(p, k + 1, Len(p))
    OBVIOUS
  <2>2. n \in 1..Len(p)
    BY <1>1
  <2>3. QED
    BY <2>1, <2>2
<1> HIDE DEF up, mid, end, t
<1>7. /\ up \o mid \in Seq(Tokens) /\ Append(up \o mid, t) \in Seq(Tokens)
      /\ NamesOf(up) \in Seq(Names)
  BY <1>2, NamesAppend
<1>8. NamesOf(up \o mid) = NamesOf(up)
  <2>1. NamesOf(up \o mid) = NamesOf(up) \o <<>>
    BY <1>2, <1>3, NamesConcat
  <2>2. QED
    BY <1>7, <2>1
<1>9. NamesOf(Append(up \o mid, t)) = Append(NamesOf(up), t)
  <2>1. Piece(t) = <<t>>
    BY <1>1, NameAssumption DEF Piece
  <2>2. NamesOf(Append(up \o mid, t)) = NamesOf(up) \o <<t>>
    BY <1>2, <1>7, <1>8, <2>1, NamesAppend
  <2>3. QED
    BY <1>1, <1>7, <2>2, AppendIsConcat
<1>10. NamesOf(p) = NamesOf(Append(up \o mid, t)) \o <<>>
  <2>1. NamesOf(Append(up \o mid, t) \o end) = NamesOf(Append(up \o mid, t)) \o NamesOf(end)
    BY <1>2, <1>7, NamesConcat
  <2>2. QED
    BY <1>4, <1>5, <1>6, <2>1
<1>11. QED
  <2>1. Append(NamesOf(up), t) \in Seq(Names)
    BY <1>1, <1>7
  <2>2. Append(NamesOf(up), t) \o <<>> = Append(NamesOf(up), t)
    BY <2>1
  <2>3. QED
    BY <1>9, <1>10, <2>2 DEF up, t

(* From a place one gets to the place above, or out of the volume. *)
LEMMA ParentPlace ==
  ASSUME NEW p \in WorkingPaths
  PROVE  LET up == FatFsParentPath(p)
         IN  /\ up \in WorkingPaths \cup {<<>>}
             /\ NamesOf(up) = SubSeq(NamesOf(p), 1, Len(NamesOf(p)) - 1)
<1>1. p \in Seq(Tokens) /\ Len(p) \in Nat /\ Len(p) >= 2 /\ p[1] \in Names /\ p[2] = ":"
  BY DEF WorkingPaths
<1>2. CASE Len(p) = 2
  <2>1. FatFsParentPath(p) = <<>>
    <3> DEFINE NotSlash == ToSet(p) \ {"/"}
    <3>1. p[2] \in NotSlash
      BY <1>1, <1>2 DEF ToSet
    <3> HIDE DEF NotSlash
    <3>2. 2 \in Nat /\ 2 \in 1..2 /\ \A j \in (2 + 1)..2 : FALSE
      OBVIOUS
    <3>3. Back(p, 2, NotSlash) = 2
      BY <3>1, <3>2, BackStops
    <3>4. Back(p, 2, {"/", ":"}) = 2
      <4>1. p[2] \in {"/", ":"}
        BY <1>1
      <4>2. QED
        BY <3>2, <4>1, BackStops
    <3>5. FatFsParentPath(p) =
            LET before == Back(p, Back(p, Back(p, Len(p), NotSlash), {"/", ":"}), NotSlash)
            IN  IF before \in {1, Len(p)} THEN <<>> ELSE SubSeq(p, 1, before)
      BY Zenon DEF FatFsParentPath, NotSlash
    <3>6. QED
      BY <1>2, <3>3, <3>4, <3>5
  <2>2. NamesOf(p) = <<p[1]>>
    <3>1. p = <<p[1], ":">> \o <<>> /\ <<>> \in Seq(Tokens)
      BY <1>1, <1>2
    <3>2. NamesOf(p) = <<p[1]>> \o NamesOf(<<>>)
      BY <1>1, <3>1, BelowVolume
    <3>3. <<p[1]>> \o <<>> = <<p[1]>>
      OBVIOUS
    <3>4. QED
      BY <3>2, <3>3, NamesAppend
  <2>3. SubSeq(<<p[1]>>, 1, Len(<<p[1]>>) - 1) = <<>>
    OBVIOUS
  <2>4. QED
    BY <2>1, <2>2, <2>3, NamesAppend
<1>3. CASE Len(p) > 2
  <2>1. PICK m, n \in Nat : Apart(p, m, n)
    BY <1>3, PlaceApart
  <2> DEFINE up == SubSeq(p, 1, m)
  <2>2. FatFsParentPath(p) = up
    BY <1>1, <2>1, ParentOfPlace
  <2>3. NamesOf(p) = Append(NamesOf(up), p[n])
    BY <1>1, <2>1, AboveNames
  <2>4. m \in 2..Len(p) /\ p[m] # "/" /\ p[n] \in Names
    BY <1>1, <2>1 DEF Apart
  <2>5. up \in Seq(Tokens) /\ Len(up) = m /\ \A k \in 1..m : up[k] = p[k]
    BY <1>1, <2>4
  <2> HIDE DEF up
  <2>6. up \in WorkingPaths
    <3>1. Len(up) >= 2 /\ up[1] \in Names /\ up[2] = ":"
      BY <1>1, <2>4, <2>5
    <3>2. \A k \in 3..Len(up) : up[k] # ":"
      <4>1. \A k \in 3..m : k \in 3..Len(p) /\ k \in 1..m
        BY <1>1, <2>4
      <4>2. QED
        BY <2>5, <4>1 DEF WorkingPaths
    <3>3. Spaced(up)
      <4>1. \A k \in 1..(m - 1) : k \in 1..(Len(p) - 1) /\ k \in 1..m /\ k + 1 \in 1..m
        BY <1>1, <2>4
      <4>2. QED
        BY <2>5, <4>1 DEF WorkingPaths, Spaced
    <3>4. Len(up) > 2 => \E k \in 3..Len(up) : up[k] # "/"
      <4>1. m > 2 => m \in 3..m /\ m \in 1..m
        BY <2>4
      <4>2. QED
        BY <2>4, <2>5, <4>1
    <3>5. QED
      BY <2>5, <3>1, <3>2, <3>3, <3>4 DEF WorkingPaths
  <2>7. SubSeq(Append(NamesOf(up), p[n]), 1, Len(Append(NamesOf(up), p[n])) - 1) = NamesOf(up)
    <3>1. ASSUME NEW s \in Seq(Names), NEW t \in Names
          PROVE  SubSeq(Append(s, t), 1, Len(Append(s, t)) - 1) = s
      OBVIOUS
    <3>2. NamesOf(up) \in Seq(Names)
      BY <2>5, NamesAppend
    <3>3. QED
      BY <2>4, <3>1, <3>2
  <2>8. QED
    BY <2>2, <2>3, <2>6, <2>7
<1>4. Len(p) = 2 \/ Len(p) > 2
  <2>1. \A k \in Nat : k >= 2 => k = 2 \/ k > 2
    OBVIOUS
  <2>2. QED
    BY <1>1, <2>1, Zenon
<1>5. QED
  BY <1>2, <1>3, <1>4, Zenon

----------------------------------------------------------------------------
(* What the service rests on. *)

PlacesToBe == WorkingPaths \cup {<<>>}

Transfers == {"begin", "open", "send", "receive"}
Uploads == {"begin", "open", "receive"}

StoredThere == Stored \in DOMAIN tree /\ tree[Stored] \in Nat

(* The worker is at a place, paths are what there is room for, a path is   *)
(* told with a reply, and a transfer is for somebody who has logged in,    *)
(* an upload to a file.                                                    *)
PlaceInv ==
  /\ command.arg \in Arguments /\ m_RenameFrom \in Arguments
  /\ m_CurrentPath \in PlacesToBe
  /\ DOMAIN tree \subseteq Paths
  /\ pc \notin {"done", "ended"} => told = Nowhere
  /\ pc \in Transfers => LoggedIn(m_User, m_Password)
  /\ pc \in Uploads /\ command.verb = "STOR" => StoredThere

(* No argument is an argument. *)
LEMMA NoArgument == <<>> \in Arguments
  BY DEF Arguments

(* The first name of a place is its volume's; out of volumes there is none. *)
LEMMA WhereIs ==
  ASSUME NEW cur \in PlacesToBe
  PROVE  /\ Resolved(cur) = NamesOf(cur) /\ NamesOf(cur) \in Seq(Names)
         /\ cur # <<>> => NamesOf(cur) # <<>> /\ ~IsAbsolute(cur)
         /\ cur = <<>> => NamesOf(cur) = <<>>
<1>1. CASE cur = <<>>
  <2>1. <<>> \in Seq(Names)
    OBVIOUS
  <2>2. QED
    BY <1>1, <2>1, NamesAppend DEF Resolved
<1>2. CASE cur # <<>>
  <2>1. cur \in WorkingPaths /\ cur \in Seq(Tokens) /\ cur[1] \in Names /\ Len(cur) >= 2
    BY <1>2 DEF PlacesToBe, WorkingPaths
  <2>2. ~IsAbsolute(cur)
    BY <2>1, NameAssumption DEF IsAbsolute, Separators
  <2>3. NamesOf(cur) # <<>>
    <3>1. 1 \in 1..Len(cur)
      BY <2>1
    <3>2. QED
      BY <2>1, <3>1, NamedSomething
  <2>4. QED
    BY <1>2, <2>1, <2>2, <2>3, NamesAppend DEF Resolved
<1>3. QED
  BY <1>1, <1>2

(* A path that is built of where the worker is and an argument is where    *)
(* the client means it, and so are its names if it is told.                *)
LEMMA TargetIs ==
  ASSUME m_CurrentPath \in PlacesToBe, NEW a \in Arguments,
         NEW r, r.absolute = IsAbsolute(a), r.names = NamesOf(a)
  PROVE  /\ Service!Target(r) = Resolved(RealPath(a))
         /\ NamesOf(RealPath(a)) = IF m_CurrentPath = <<>> /\ ~IsAbsolute(a)
                                   THEN NamesOf(a) ELSE Service!Target(r)
<1>1. a \in Seq(Tokens) /\ NamesOf(a) \in Seq(Names)
  BY ArgumentShape, NamesAppend
<1>2. Service!Target(r) = IF IsAbsolute(a) THEN NamesOf(a)
                          ELSE IF Resolved(m_CurrentPath) = <<>> THEN <<Default>> \o NamesOf(a)
                          ELSE Resolved(m_CurrentPath) \o NamesOf(a)
  BY DEF Service!Target
<1>3. CASE IsAbsolute(a)
  <2>1. RealPath(a) = FTPPathToFatFsPath(a)
    BY <1>3 DEF RealPath
  <2>2. NamesOf(RealPath(a)) = NamesOf(a)
    BY <1>1, <2>1, AbsolutePlace
  <2>3. RealPath(a) # <<>> /\ ~IsAbsolute(RealPath(a))
    <3>1. CASE NamesOf(a) = <<>>
      <4>1. RealPath(a) = <<":">>
        BY <1>1, <2>1, <3>1, AbsolutePlace
      <4>2. QED
        BY <4>1 DEF IsAbsolute
    <3>2. CASE NamesOf(a) # <<>>
      <4>1. RealPath(a) \in WorkingPaths
        BY <1>1, <2>1, <3>2, AbsolutePlace
      <4>2. RealPath(a) # <<>>
        BY <4>1 DEF WorkingPaths
      <4>3. QED
        BY <4>1, <4>2, WhereIs DEF PlacesToBe
    <3>3. QED
      BY <3>1, <3>2
  <2>4. Resolved(RealPath(a)) = NamesOf(RealPath(a))
    BY <2>3 DEF Resolved
  <2>5. QED
    BY <1>2, <1>3, <2>2, <2>4
<1>4. CASE ~IsAbsolute(a) /\ m_CurrentPath = <<>>
  <2>1. RealPath(a) = <<"/">> \o a
    <3>1. <<>> \o <<"/">> = <<"/">>
      OBVIOUS
    <3>2. QED
      BY <1>4, <3>1 DEF RealPath
  <2>2. "/" \in Tokens /\ Piece("/") = <<>> /\ <<"/">> \in Seq(Tokens)
    BY DEF Tokens, Separators, Piece
  <2>3. IsAbsolute(<<"/">> \o a) /\ <<"/">> \o a # <<>>
    BY <1>1, <2>2 DEF IsAbsolute
  <2>4. NamesOf(<<"/">> \o a) = NamesOf(a)
    <3>1. NamesOf(<<"/">> \o a) = <<>> \o NamesOf(a)
      BY <1>1, <2>2, NameAlone, NamesConcat
    <3>2. QED
      BY <1>1, <3>1
  <2>5. Resolved(RealPath(a)) = <<Default>> \o NamesOf(a)
    BY <2>1, <2>3, <2>4 DEF Resolved
  <2>6. Resolved(m_CurrentPath) = <<>>
    BY <1>4 DEF Resolved
  <2>7. QED
    BY <1>2, <1>4, <2>1, <2>4, <2>5, <2>6
<1>5. CASE ~IsAbsolute(a) /\ m_CurrentPath # <<>>
  <2> DEFINE down == (m_CurrentPath \o <<"/">>) \o a
  <2>1. RealPath(a) = down
    BY <1>5 DEF RealPath
  <2>2. m_CurrentPath \in WorkingPaths
    BY <1>5 DEF PlacesToBe
  <2>3. NamesOf(down) = NamesOf(m_CurrentPath) \o NamesOf(a)
    BY <2>2, Downward
  <2>4. down # <<>> /\ ~IsAbsolute(down)
    <3>1. /\ m_CurrentPath \in Seq(Tokens) /\ Len(m_CurrentPath) >= 2 /\ m_CurrentPath[1] \in Names
          /\ <<"/">> \in Seq(Tokens)
      BY <2>2 DEF WorkingPaths, Tokens, Separators
    <3>2. Len(down) >= 2 /\ down[1] = m_CurrentPath[1]
      BY <1>1, <3>1
    <3> HIDE DEF down
    <3>3. down # <<>> /\ down[1] # "/"
      <4>1. down[1] # "/"
        BY <3>1, <3>2, NameAssumption DEF Separators
      <4>2. Len(<<>>) = 0
        OBVIOUS
      <4>3. QED
        BY <3>2, <4>1, <4>2
    <3>4. QED
      BY <3>3 DEF IsAbsolute
  <2>5. Resolved(m_CurrentPath) = NamesOf(m_CurrentPath) /\ NamesOf(m_CurrentPath) # <<>>
    BY <1>5, WhereIs
  <2> HIDE DEF down
  <2>6. Resolved(down) = NamesOf(down)
    BY <2>4 DEF Resolved
  <2>7. QED
    BY <1>2, <1>5, <2>1, <2>3, <2>5, <2>6
<1>6. QED
  BY <1>3, <1>4, <1>5

----------------------------------------------------------------------------
(* The invariant of the service. *)

(* The worker starts at no place, with no argument and no path told.        *)
LEMMA PlaceInit == Init => PlaceInv
<1> SUFFICES ASSUME Init PROVE PlaceInv
  OBVIOUS
<1>1. DOMAIN tree \subseteq Paths
  BY TreeAssumption DEF Init
<1>2. QED
  BY <1>1, NoArgument DEF Init, PlaceInv, PlacesToBe, Transfers, Uploads, NoCommand

Walk == <<command, m_User, m_Password, m_CurrentPath, m_RenameFrom, told>>

(* As long as the worker is about the same command at the same place. *)
LEMMA WalkStays ==
  ASSUME PlaceInv, UNCHANGED Walk, DOMAIN tree' = DOMAIN tree,
         pc' \in Transfers => pc \in Transfers, pc' \in Uploads => pc \in Uploads,
         told = Nowhere \/ pc' \in {"done", "ended"},
         StoredThere => StoredThere'
  PROVE  PlaceInv'
<1>1. /\ command.arg \in Arguments /\ m_RenameFrom \in Arguments
      /\ m_CurrentPath \in PlacesToBe /\ DOMAIN tree \subseteq Paths
      /\ pc \in Transfers => LoggedIn(m_User, m_Password)
      /\ pc \in Uploads /\ command.verb = "STOR" => StoredThere
  BY DEF PlaceInv
<1>2. command' = command /\ m_User' = m_User /\ m_Password' = m_Password
      /\ m_CurrentPath' = m_CurrentPath /\ m_RenameFrom' = m_RenameFrom /\ told' = told
  BY DEF Walk
<1>3. (pc \in Transfers => LoggedIn(m_User, m_Password))'
  BY <1>1, <1>2 DEF LoggedIn
<1>4. (pc \in Uploads /\ command.verb = "STOR" => StoredThere)'
  BY <1>1, <1>2
<1>5. (pc \notin {"done", "ended"} => told = Nowhere)'
  BY <1>2
<1>6. QED
  BY <1>1, <1>2, <1>3, <1>4, <1>5 DEF PlaceInv

(* When a command is taken or done with. *)
LEMMA WalkGoesOn ==
  ASSUME command'.arg \in Arguments, m_RenameFrom' \in Arguments,
         m_CurrentPath' \in PlacesToBe, DOMAIN tree' \subseteq Paths,
         \/ pc' \in {"done", "ended"}
         \/ pc' \in {"none", "ready"} /\ told' = Nowhere
         \/ /\ pc' = "begin" /\ told' = Nowhere /\ LoggedIn(m_User', m_Password')
            /\ command'.verb = "STOR" => StoredThere'
  PROVE  PlaceInv'
<1>1. (pc \in Transfers => LoggedIn(m_User, m_Password))'
  BY DEF Transfers, LoggedIn
<1>2. (pc \in Uploads /\ command.verb = "STOR" => StoredThere)'
  BY DEF Uploads
<1>3. (pc \notin {"done", "ended"} => told = Nowhere)'
  OBVIOUS
<1>4. QED
  BY <1>1, <1>2, <1>3 DEF PlaceInv

(* Stored is the same file as long as the session is the same. *)
LEMMA ThereStays ==
  ASSUME UNCHANGED Walk, UNCHANGED tree
  PROVE  StoredThere => StoredThere'
<1>1. Stored' = Stored
  BY StoredStays DEF Walk
<1>2. QED
  BY <1>1 DEF StoredThere

(* The steps that are no commands. *)
LEMMA PlaceWork ==
  ASSUME IInv, PlaceInv,
         \/ ClientConnects \/ DaemonAccepts \/ ClientLeaves \/ Welcome \/ NextCommand
         \/ ControlEnds \/ WorkerDeleted \/ Begin \/ Connects \/ Accepts
         \/ ConnectFails \/ AcceptFails \/ NothingToAcceptOn \/ SendChunk \/ SendFails
         \/ SendEnds \/ WriteFails \/ ReceiveEnds \/ StoreTimesOut
  PROVE  PlaceInv'
<1> USE DEF Transfers, Uploads
<1>1. CASE NextCommand \/ WorkerDeleted
  <2>1. command'.arg \in Arguments /\ told' = Nowhere /\ pc' \in {"none", "ready"}
    <3>1. NoCommand.arg \in Arguments
      BY NoArgument DEF NoCommand
    <3>2. QED
      BY <1>1, <3>1 DEF NextCommand, WorkerDeleted, Idle
  <2>2. m_RenameFrom' \in Arguments /\ m_CurrentPath' \in PlacesToBe /\ UNCHANGED tree
    BY <1>1, NoArgument DEF NextCommand, WorkerDeleted, place, PlaceInv, PlacesToBe
  <2>3. DOMAIN tree' \subseteq Paths
    BY <2>2 DEF PlaceInv
  <2>4. QED
    BY <2>1, <2>2, <2>3, WalkGoesOn
<1>2. CASE \/ ClientConnects \/ DaemonAccepts \/ ClientLeaves \/ Welcome \/ ControlEnds
  <2>1. UNCHANGED Walk /\ UNCHANGED tree
    BY <1>2 DEF ClientConnects, DaemonAccepts, ClientLeaves, Welcome, ControlEnds,
                login, place, Walk
  <2>2. pc' = pc \/ (pc \in {"none", "start", "ready"} /\ pc' \in {"start", "ready", "ended"})
    <3>1. CASE DaemonAccepts
      <4>1. s_nInstanceCount = 0 => pc = "none"
        BY DEF IInv, CountInv
      <4>2. s_nInstanceCount \in 0..1
        BY DEF IInv, CountInv, MaxConnections
      <4>3. QED
        BY <3>1, <4>1, <4>2 DEF DaemonAccepts, MaxConnections
    <3>2. QED
      BY <1>2, <3>1 DEF ClientConnects, ClientLeaves, Welcome, ControlEnds
  <2>3. told = Nowhere \/ pc' \in {"done", "ended"}
    BY <2>2 DEF PlaceInv
  <2>4. QED
    BY <2>1, <2>2, <2>3, ThereStays, WalkStays
<1>3. CASE \/ Begin \/ Connects \/ Accepts \/ ConnectFails \/ AcceptFails
           \/ NothingToAcceptOn \/ SendChunk \/ SendFails \/ SendEnds
           \/ WriteFails \/ ReceiveEnds \/ StoreTimesOut
  <2>1. Still /\ UNCHANGED tree /\ pc \in Transfers
    BY <1>3 DEF Begin, Connects, Accepts, ConnectFails, AcceptFails,
                NothingToAcceptOn, SendChunk, SendFails, SendEnds,
                WriteFails, ReceiveEnds, StoreTimesOut, Opened
  <2>2. pc' \in Uploads => pc \in Uploads
    BY <1>3 DEF Begin, Connects, Accepts, ConnectFails, AcceptFails,
                NothingToAcceptOn, SendChunk, SendFails, SendEnds,
                WriteFails, ReceiveEnds, StoreTimesOut, Opened, SaysFinally
  <2>3. UNCHANGED Walk
    BY <2>1 DEF Still, login, place, Walk
  <2>4. told = Nowhere
    BY <2>1 DEF PlaceInv
  <2>5. QED
    BY <2>1, <2>2, <2>3, <2>4, ThereStays, WalkStays
<1>4. QED
  BY <1>1, <1>2, <1>3

(* A chunk received, in the file or not. *)
LEMMA PlaceReceive == ASSUME PlaceInv, ReceiveChunk PROVE PlaceInv'
<1>1. pc = "receive" /\ UNCHANGED pc /\ Still /\ told = Nowhere
  BY DEF ReceiveChunk, PlaceInv
<1>2. UNCHANGED Walk
  BY <1>1 DEF Still, login, place, Walk
<1>3. Stored' = Stored
  BY <1>2, StoredStays DEF Walk
<1>4. DOMAIN tree' = DOMAIN tree /\ (StoredThere => StoredThere')
  <2>1. CASE tree' = [tree EXCEPT ![Stored] = @ + 1]
    BY <1>3, <2>1 DEF StoredThere
  <2>2. CASE tree' = tree
    BY <1>3, <2>2 DEF StoredThere
  <2>3. QED
    BY <2>1, <2>2 DEF ReceiveChunk
<1>5. QED
  BY <1>1, <1>2, <1>4, WalkStays

(* Room for what is made. *)
LEMMA RoomForPut ==
  ASSUME DOMAIN tree \subseteq Paths, NEW p, NEW content,
         MayMake(p) \/ MayWrite(p), tree' = Put(p, content)
  PROVE  DOMAIN tree' \subseteq Paths
<1>1. p \in Paths
  BY DEF MayMake, MayWrite, IsFile, Exists
<1>2. QED
  BY <1>1 DEF Put

(* The commands.  The worker goes only where the paths lead. *)
LEMMA WorkerGoes ==
  ASSUME PlaceInv, ChangeWorkingDirectory
  PROVE  m_CurrentPath' \in PlacesToBe
<1>1. /\ Arg \in Arguments /\ m_CurrentPath \in PlacesToBe /\ DOMAIN tree \subseteq Paths
      /\ <<>> \notin DOMAIN tree
  BY CommandAssumption, PathAssumption
  DEF ChangeWorkingDirectory, Takes, Receives, Arg, PlaceInv
<1> DEFINE down == (m_CurrentPath \o <<"/">>) \o Arg
<1>2. CASE UNCHANGED m_CurrentPath
  BY <1>1, <1>2
<1>3. CASE m_CurrentPath' = <<>>
  BY <1>3 DEF PlacesToBe
<1>4. CASE /\ IsAbsolute(Arg) /\ IsDir(Resolved(RealPath(Arg)))
           /\ m_CurrentPath' = RealPath(Arg)
  <2>1. RealPath(Arg) = FTPPathToFatFsPath(Arg) /\ Arg \in Seq(Tokens)
    BY <1>1, <1>4, ArgumentShape DEF RealPath
  <2>2. NamesOf(Arg) # <<>>
    <3>1. SUFFICES ASSUME NamesOf(Arg) = <<>> PROVE FALSE
      OBVIOUS
    <3>2. RealPath(Arg) = <<":">>
      BY <2>1, <3>1, AbsolutePlace
    <3>3. Resolved(<<":">>) = NamesOf(<<":">>)
      BY DEF Resolved, IsAbsolute
    <3>4. NamesOf(<<":">>) = <<>>
      BY <2>1, <3>1, <3>2, AbsolutePlace
    <3>5. QED
      BY <1>1, <1>4, <3>2, <3>3, <3>4 DEF IsDir, Exists
  <2>3. QED
    BY <1>4, <2>1, <2>2, AbsolutePlace DEF PlacesToBe
<1>5. CASE \E v \in Volumes : m_CurrentPath' = <<v, ":">>
  <2>1. PICK v \in Volumes : m_CurrentPath' = <<v, ":">>
    BY <1>5
  <2>2. v \in Names /\ <<>> \in Seq(Tokens) /\ NoColon(<<>>) /\ Spaced(<<>>)
    BY VolumeAssumption DEF NoColon, Spaced
  <2>3. <<v, ":">> \o <<>> \in WorkingPaths
    BY <2>2, PlaceBelow
  <2>4. <<v, ":">> \o <<>> = <<v, ":">>
    OBVIOUS
  <2>5. QED
    BY <2>1, <2>3, <2>4 DEF PlacesToBe
<1>6. CASE /\ m_CurrentPath # <<>> /\ ~IsVolume(Resolved(down)) /\ m_CurrentPath' = down
  <2>1. m_CurrentPath \in WorkingPaths
    BY <1>1, <1>6 DEF PlacesToBe
  <2>2. Len(NamesOf(down)) # 1 => down \in WorkingPaths
    BY <1>1, <2>1, Downward
  <2>3. Resolved(down) = NamesOf(down)
    <3>1. /\ m_CurrentPath \in Seq(Tokens) /\ Len(m_CurrentPath) >= 2
          /\ m_CurrentPath[1] \in Names /\ <<"/">> \in Seq(Tokens) /\ Arg \in Seq(Tokens)
      BY <1>1, <2>1, ArgumentShape DEF WorkingPaths, Tokens, Separators
    <3>2. Len(down) >= 2 /\ down[1] = m_CurrentPath[1]
      BY <3>1
    <3>3. "/" \notin Names /\ Len(<<>>) = 0
      BY NameAssumption DEF Separators
    <3> HIDE DEF down
    <3>4. down # <<>> /\ down[1] # "/"
      BY <3>1, <3>2, <3>3
    <3>5. QED
      BY <3>4 DEF Resolved, IsAbsolute
  <2> HIDE DEF down
  <2>4. QED
    BY <1>6, <2>2, <2>3 DEF PlacesToBe, IsVolume
<1>7. QED
  BY <1>2, <1>3, <1>4, <1>5, <1>6 DEF ChangeWorkingDirectory, GoesTo, Unavailable

(* Whatever a command does, the worker is at a place after it.              *)
LEMMA PlaceCommand == ASSUME PlaceInv, Command PROVE PlaceInv'
<1>1. command'.arg \in Arguments /\ command' \in Commands
  BY CommandAssumption
  DEF Command, NotLoggedIn, Simple, Username, Password, Port, Passive, Delete,
      MakeDirectory, ChangeWorkingDirectory, ChangeToParentDirectory,
      PrintWorkingDirectory, RenameFrom, RenameTo, Bye, Retrieve, Store, List,
      ListFileNames, Lists, Takes, Receives
<1>2. /\ m_CurrentPath \in PlacesToBe /\ m_RenameFrom \in Arguments
      /\ DOMAIN tree \subseteq Paths /\ (pc = "ready" => told = Nowhere)
  BY DEF PlaceInv
<1>3. CASE \/ NotLoggedIn \/ Simple \/ Username \/ Password \/ Port \/ Passive
           \/ PrintWorkingDirectory \/ Bye
  <2>1. UNCHANGED <<place, tree>> /\ pc' \in {"done", "ended"}
    BY <1>3 DEF NotLoggedIn, Simple, Username, Password, Port, Passive,
                PrintWorkingDirectory, Bye, Says
  <2>2. QED
    BY <1>1, <1>2, <2>1, WalkGoesOn DEF place
<1>4. CASE Delete
  <2>1. UNCHANGED place /\ pc' = "done"
    BY <1>4 DEF Delete, Says
  <2>2. DOMAIN tree' \subseteq DOMAIN tree
    BY <1>4 DEF Delete, Without
  <2>3. QED
    BY <1>1, <1>2, <2>1, <2>2, WalkGoesOn DEF place
<1>5. CASE MakeDirectory
  <2>1. UNCHANGED place /\ pc' = "done"
    BY <1>5 DEF MakeDirectory, Says
  <2>2. DOMAIN tree' \subseteq Paths
    BY <1>2, <1>5, RoomForPut DEF MakeDirectory
  <2>3. QED
    BY <1>1, <1>2, <2>1, <2>2, WalkGoesOn DEF place
<1>6. CASE ChangeWorkingDirectory
  <2>1. UNCHANGED <<m_RenameFrom, tree>> /\ pc' = "done"
    BY <1>6 DEF ChangeWorkingDirectory, GoesTo, Unavailable, Says
  <2>2. QED
    BY <1>1, <1>2, <1>6, <2>1, WorkerGoes, WalkGoesOn
<1>7. CASE ChangeToParentDirectory
  <2>1. UNCHANGED <<m_RenameFrom, tree>> /\ pc' = "done"
    BY <1>7 DEF ChangeToParentDirectory, GoesTo, Unavailable, Says
  <2>2. m_CurrentPath' \in PlacesToBe
    <3>1. CASE UNCHANGED m_CurrentPath
      BY <1>2, <3>1
    <3>2. CASE m_CurrentPath # <<>> /\ m_CurrentPath' = FatFsParentPath(m_CurrentPath)
      BY <1>2, <3>2, ParentPlace DEF PlacesToBe
    <3>3. QED
      BY <1>7, <3>1, <3>2 DEF ChangeToParentDirectory, GoesTo, Unavailable
  <2>3. QED
    BY <1>1, <1>2, <2>1, <2>2, WalkGoesOn
<1>8. CASE RenameFrom
  <2>1. UNCHANGED <<m_CurrentPath, tree>> /\ pc' = "done" /\ m_RenameFrom' = command'.arg
    BY <1>8 DEF RenameFrom, Says, Arg
  <2>2. QED
    BY <1>1, <1>2, <2>1, WalkGoesOn
<1>9. CASE RenameTo
  <2>1. UNCHANGED m_CurrentPath /\ pc' = "done" /\ m_RenameFrom' \in Arguments
    BY <1>9, NoArgument DEF RenameTo, Says
  <2>2. DOMAIN tree' \subseteq Paths
    <3>1. CASE UNCHANGED tree
      BY <1>2, <3>1
    <3>2. ASSUME NEW p, NEW q, MayRename(p, q), tree' = Renamed(p, q)
          PROVE  DOMAIN tree' \subseteq Paths
      <4>1. MovedTo(p, q, p) \in Paths
        <5>1. q \in Paths /\ q \in Seq(Names) /\ p \in Seq(Names)
          BY <1>2, <3>2, PathAssumption DEF MayRename, MayMake, Exists
        <5>2. MovedTo(p, q, p) = q
          BY <5>1 DEF MovedTo
        <5>3. QED
          BY <5>1, <5>2
      <4>2. \A r \in Below(p) : MovedTo(p, q, r) \in Paths
        BY <3>2 DEF MayRename
      <4>3. QED
        BY <1>2, <3>2, <4>1, <4>2 DEF Renamed
    <3>3. QED
      BY <1>9, <3>1, <3>2 DEF RenameTo
  <2>3. QED
    BY <1>1, <1>2, <2>1, <2>2, WalkGoesOn
<1>10. CASE Retrieve \/ List \/ ListFileNames
  <2>1. UNCHANGED <<place, tree>> /\ pc = "ready" /\ command'.verb # "STOR"
    BY <1>10 DEF Retrieve, List, ListFileNames, Lists, Takes, Receives
  <2>2. \/ pc' = "done"
        \/ pc' = "begin" /\ UNCHANGED told /\ LoggedIn(m_User', m_Password')
    BY <1>10 DEF Retrieve, List, ListFileNames, Lists, Takes, Receives, Says,
                 NeedsLogin, LoggedIn, login
  <2>3. QED
    BY <1>1, <1>2, <2>1, <2>2, WalkGoesOn DEF place
<1>11. CASE Store
  <2> DEFINE p == Resolved(RealPath(Arg))
  <2>1. UNCHANGED place /\ pc = "ready" /\ LoggedIn(m_User', m_Password')
    BY <1>11 DEF Store, Takes, Receives, NeedsLogin, LoggedIn, login
  <2>2. CASE MayWrite(p) /\ tree' = Put(p, 0) /\ pc' = "begin" /\ UNCHANGED told
    <3>1. DOMAIN tree' \subseteq Paths
      BY <1>2, <2>2, RoomForPut
    <3>2. Stored' = p
      BY <2>1 DEF place, Arg, Stored, RealPath, Resolved
    <3>3. StoredThere'
      BY <2>2, <3>2 DEF StoredThere, Put
    <3>4. QED
      BY <1>1, <1>2, <2>1, <2>2, <3>1, <3>3, WalkGoesOn DEF place
  <2>3. CASE UNCHANGED tree /\ pc' = "done"
    BY <1>1, <1>2, <2>1, <2>3, WalkGoesOn DEF place
  <2>4. QED
    BY <1>11, <2>2, <2>3 DEF Store, Says
<1>12. QED
  BY <1>3, <1>4, <1>5, <1>6, <1>7, <1>8, <1>9, <1>10, <1>11 DEF Command

(* So it is after every step: no other step moves the worker.               *)
LEMMA PlaceStep == IInv /\ PlaceInv /\ [Next]_vars => PlaceInv'
<1> SUFFICES ASSUME IInv, PlaceInv, [Next]_vars PROVE PlaceInv'
  OBVIOUS
<1>1. CASE UNCHANGED vars
  <2>1. UNCHANGED Walk /\ UNCHANGED <<tree, pc>>
    BY <1>1 DEF vars, Walk, login, place
  <2>2. told = Nowhere \/ pc' \in {"done", "ended"}
    BY <2>1 DEF PlaceInv
  <2>3. QED
    BY <2>1, <2>2, ThereStays, WalkStays
<1>2. QED
  BY <1>1, PlaceWork, PlaceReceive, PlaceCommand DEF Next, Work, Client

----------------------------------------------------------------------------
(* The server implements the service. *)

(* The client's request, as the service sees it. *)
Request == [verb |-> command.verb, absolute |-> IsAbsolute(command.arg),
            names |-> NamesOf(command.arg)]

(* The service starts with nobody logged in, at no place.                   *)
LEMMA ServiceInit == Init => Service!Init
  BY DEF Init, Service!Init, LoggedIn, Resolved, Nowhere, Unset

(* What of the server the service does not see. *)
LEMMA Unseen ==
  ASSUME UNCHANGED Walk, UNCHANGED tree
  PROVE  UNCHANGED Service!vars
  BY DEF Walk, Service!vars, LoggedIn, Resolved, Asked

(* Who may ask is told by the login, which most handlers leave as it is.   *)
LEMMA MayAsk ==
  ASSUME NEW verb, Takes(verb), NeedsLogin(verb), UNCHANGED login
  PROVE  Service!Asks(verb)
<1>1. command'.verb = verb /\ LoggedIn(m_User, m_Password)
  BY DEF Takes, Receives
<1>2. LoggedIn(m_User, m_Password)' = LoggedIn(m_User, m_Password)
  BY DEF login, LoggedIn
<1>3. QED
  BY <1>1, <1>2 DEF Service!Asks

(* Target, for the argument that a handler is given. *)
LEMMA RequestTarget ==
  ASSUME PlaceInv, command'.arg \in Arguments
  PROVE  /\ Service!Target(Request') = Resolved(RealPath(Arg))
         /\ NamesOf(RealPath(Arg)) = IF m_CurrentPath = <<>> /\ ~Request'.absolute
                                     THEN Request'.names ELSE Service!Target(Request')
<1>1. m_CurrentPath \in PlacesToBe /\ Arg \in Arguments
  BY DEF PlaceInv, Arg
<1>2. Request'.absolute = IsAbsolute(Arg) /\ Request'.names = NamesOf(Arg)
  BY DEF Request, Arg
<1>3. QED
  BY <1>1, <1>2, TargetIs

(* What is refused, or of no matter to the service. *)
LEMMA NothingChanged ==
  ASSUME told' = Nowhere, UNCHANGED <<login, m_CurrentPath, tree>>,
         UNCHANGED m_RenameFrom \/ m_RenameFrom' = <<>>
  PROVE  Service!ChangesNothing
<1>1. LoggedIn(m_User, m_Password)' = LoggedIn(m_User, m_Password)
  BY DEF login, LoggedIn
<1>2. Resolved(m_CurrentPath)' = Resolved(m_CurrentPath)
  BY DEF Resolved
<1>3. Asked(m_RenameFrom)' = Asked(m_RenameFrom) \/ Asked(m_RenameFrom)'.names = <<>>
  BY NamesAppend DEF Asked
<1>4. QED
  BY <1>1, <1>2, <1>3 DEF Service!ChangesNothing

(* USER and PASS.                                                           *)
LEMMA SaysWhoStep == ASSUME Username \/ Password PROVE Service!SaysWho
<1>1. command'.verb \in {"USER", "PASS"} /\ told' = Nowhere /\ UNCHANGED <<place, tree>>
  BY DEF Username, Password, Takes, Receives, Says
<1>2. QED
  BY <1>1 DEF Service!SaysWho, place, Resolved, Asked

(* DELE removes what the client means, or nothing.                          *)
LEMMA DeleteStep == ASSUME PlaceInv, Delete, Arg \in Arguments PROVE Service!Next
<1> DEFINE p == Resolved(RealPath(Arg))
<1>1. Takes("DELE") /\ UNCHANGED <<login, place>> /\ told' = Nowhere
  BY DEF Delete, Says
<1>2. CASE tree' = Without(p)
  <2>1. Service!Asks("DELE")
    BY <1>1, MayAsk DEF NeedsLogin
  <2>2. Service!Target(Request') = p
    BY RequestTarget DEF Arg
  <2>3. tree' = Service!Removed(Service!Target(Request'))
    BY <1>2, <2>2 DEF Without, Service!Removed
  <2>4. Service!Deletes
    BY <1>1, <2>1, <2>3 DEF Service!Deletes, Request, place, Resolved, Asked
  <2>5. QED
    BY <2>4 DEF Service!Next
<1>3. CASE UNCHANGED tree
  BY <1>1, <1>3, NothingChanged DEF place, Service!Next
<1>4. QED
  BY <1>2, <1>3 DEF Delete

(* MKD makes the directory the client means and tells its path, or nothing. *)
LEMMA MakeStep == ASSUME PlaceInv, MakeDirectory, Arg \in Arguments PROVE Service!Next
<1> DEFINE p == Resolved(RealPath(Arg))
<1>1. Takes("MKD") /\ UNCHANGED <<login, place>>
  BY DEF MakeDirectory
<1>2. CASE MayMake(p) /\ tree' = Put(p, Dir) /\ told' = FatFsPathToFTPPath(RealPath(Arg))
  <2>1. Service!Asks("MKD")
    BY <1>1, MayAsk DEF NeedsLogin
  <2>2. /\ Service!Target(Request') = p
        /\ NamesOf(RealPath(Arg)) = IF m_CurrentPath = <<>> /\ ~Request'.absolute
                                    THEN Request'.names ELSE p
    BY RequestTarget DEF Arg
  <2>3. (m_CurrentPath = <<>>) <=> (Resolved(m_CurrentPath) = <<>>)
    BY WhereIs DEF PlaceInv
  <2>4. tree' = Service!Put(Service!Target(Request'), Dir)
    BY <1>2, <2>2 DEF Put, Service!Put
  <2>5. Service!Target(Request') \notin DOMAIN tree
    BY <1>2, <2>2 DEF MayMake, Exists
  <2>6. told' = IF Resolved(m_CurrentPath) = <<>> /\ ~Request'.absolute
                THEN Request'.names ELSE Service!Target(Request')
    BY <1>2, <2>2, <2>3 DEF FatFsPathToFTPPath
  <2>7. Service!Makes
    BY <1>1, <2>1, <2>4, <2>5, <2>6 DEF Service!Makes, Request, place, Resolved, Asked
  <2>8. QED
    BY <2>7 DEF Service!Next
<1>3. CASE UNCHANGED tree /\ told' = Nowhere
  BY <1>1, <1>3, NothingChanged DEF place, Service!Next
<1>4. QED
  BY <1>2, <1>3 DEF MakeDirectory, Says

(* Wherever a worker goes it tells. *)
LEMMA Tells ==
  ASSUME NEW path, GoesTo(path), m_CurrentPath' \in PlacesToBe
  PROVE  told' = Resolved(m_CurrentPath)' /\ Resolved(m_CurrentPath)' = NamesOf(path)
<1>1. m_CurrentPath' = path /\ told' = NamesOf(path)
  BY DEF GoesTo, Says, FatFsPathToFTPPath
<1>2. Resolved(m_CurrentPath') = NamesOf(m_CurrentPath')
  BY WhereIs
<1>3. QED
  BY <1>1, <1>2

(* CWD goes where the client means and tells where that is, or stays.       *)
LEMMA GoesStep ==
  ASSUME PlaceInv, ChangeWorkingDirectory, Arg \in Arguments
  PROVE  Service!Next
<1> DEFINE down == (m_CurrentPath \o <<"/">>) \o Arg
           p == Service!Target(Request')
<1>1. Takes("CWD") /\ UNCHANGED <<m_RenameFrom, login, tree>>
  BY DEF ChangeWorkingDirectory
<1>2. Service!Asks("CWD")
  BY <1>1, MayAsk DEF NeedsLogin
<1>3. m_CurrentPath' \in PlacesToBe /\ m_CurrentPath \in PlacesToBe
  BY WorkerGoes DEF PlaceInv
<1>4. /\ p = Resolved(RealPath(Arg))
      /\ NamesOf(RealPath(Arg)) = IF m_CurrentPath = <<>> /\ ~Request'.absolute
                                  THEN Request'.names ELSE p
      /\ Request'.absolute = IsAbsolute(Arg) /\ Request'.names = NamesOf(Arg)
  BY RequestTarget DEF Arg, Request
<1> HIDE DEF p
<1>5. ASSUME told' = Resolved(m_CurrentPath)', Resolved(m_CurrentPath)' = p
      PROVE  Service!Next
  <2>1. Service!Goes
    BY <1>1, <1>2, <1>5 DEF Service!Goes, Request, Asked, p
  <2>2. QED
    BY <2>1 DEF Service!Next
<1>6. CASE \/ Arg = <<"/">> /\ GoesTo(<<>>)
           \/ IsAbsolute(Arg) /\ NamesOf(Arg) = <<>> /\ GoesTo(<<>>)
  <2>1. told' = Resolved(m_CurrentPath)' /\ Resolved(m_CurrentPath)' = <<>>
    BY <1>3, <1>6, Tells, NamesAppend
  <2>2. p = <<>>
    <3>1. IsAbsolute(Arg) /\ "/" \in Tokens /\ Piece("/") = <<>>
      BY <1>6 DEF IsAbsolute, Tokens, Separators, Piece
    <3>2. NamesOf(Arg) = <<>>
      BY <1>6, <3>1, NameAlone
    <3>3. p = NamesOf(Arg)
      BY <1>4, <3>1 DEF p, Service!Target
    <3>4. QED
      BY <3>2, <3>3
  <2>3. QED
    BY <1>5, <2>1, <2>2
<1>7. CASE IsAbsolute(Arg) /\ GoesTo(RealPath(Arg))
  <2>1. told' = Resolved(m_CurrentPath)' /\ Resolved(m_CurrentPath)' = NamesOf(RealPath(Arg))
    BY <1>3, <1>7, Tells
  <2>2. QED
    BY <1>4, <1>5, <1>7, <2>1
<1>8. CASE /\ ~IsAbsolute(Arg) /\ m_CurrentPath = <<>>
           /\ Len(Arg) = 1 /\ Arg[1] \in Volumes /\ GoesTo(<<Arg[1], ":">>)
  <2> DEFINE v == Arg[1]
  <2>1. v \in Names /\ <<>> \in Seq(Tokens) /\ v \in Tokens /\ Arg = <<v>>
    <3>1. Arg \in Seq(Tokens)
      BY ArgumentShape
    <3>2. QED
      BY <1>8, <3>1, VolumeAssumption DEF Tokens
  <2> HIDE DEF v
  <2>2. told' = Resolved(m_CurrentPath)' /\ Resolved(m_CurrentPath)' = NamesOf(<<v, ":">>)
    BY <1>3, <1>8, Tells DEF v
  <2>3. NamesOf(<<v, ":">>) = <<v>>
    <3>1. <<v, ":">> \o <<>> = <<v, ":">> /\ <<v>> \o <<>> = <<v>>
      OBVIOUS
    <3>2. QED
      BY <2>1, <3>1, BelowVolume, NamesAppend
  <2>4. NamesOf(Arg) = <<v>>
    <3>1. Piece(v) = <<v>>
      BY <2>1, NameAssumption DEF Piece
    <3>2. QED
      BY <2>1, <3>1, NameAlone
  <2>5. Resolved(m_CurrentPath) = <<>>
    BY <1>3, <1>8, WhereIs
  <2>6. /\ Resolved(m_CurrentPath)' = Request'.names /\ Len(Resolved(m_CurrentPath)') = 1
        /\ Resolved(m_CurrentPath)'[1] \in Volumes
    <3>1. Resolved(m_CurrentPath)' = <<v>> /\ v \in Volumes /\ Len(<<v>>) = 1 /\ <<v>>[1] = v
      BY <1>8, <2>2, <2>3 DEF v
    <3>2. QED
      BY <1>4, <2>4, <3>1
  <2>7. Service!Goes
    BY <1>1, <1>2, <2>2, <2>5, <2>6 DEF Service!Goes, Request, Asked
  <2>8. QED
    BY <2>7 DEF Service!Next
<1>9. CASE ~IsAbsolute(Arg) /\ m_CurrentPath # <<>> /\ GoesTo(down)
  <2>1. told' = Resolved(m_CurrentPath)' /\ Resolved(m_CurrentPath)' = NamesOf(down)
    BY <1>3, <1>9, Tells
  <2>2. RealPath(Arg) = down
    BY <1>9 DEF RealPath
  <2>3. QED
    BY <1>4, <1>5, <1>9, <2>1, <2>2
<1>10. CASE Unavailable
  <2>1. told' = Nowhere /\ UNCHANGED m_CurrentPath
    BY <1>10 DEF Unavailable, Says
  <2>2. QED
    BY <1>1, <2>1, NothingChanged DEF Service!Next
<1>11. QED
  BY <1>6, <1>7, <1>8, <1>9, <1>10 DEF ChangeWorkingDirectory

(* CDUP goes to the directory that the working one is in, or stays.         *)
LEMMA GoesUpStep == ASSUME PlaceInv, ChangeToParentDirectory PROVE Service!Next
<1> DEFINE up == FatFsParentPath(m_CurrentPath)
<1>1. Takes("CDUP") /\ UNCHANGED <<m_RenameFrom, login, tree>>
  BY DEF ChangeToParentDirectory
<1>2. CASE m_CurrentPath # <<>> /\ GoesTo(up)
  <2>1. m_CurrentPath \in WorkingPaths /\ m_CurrentPath \in PlacesToBe
    BY <1>2 DEF PlaceInv, PlacesToBe
  <2>2. up \in PlacesToBe /\ m_CurrentPath' = up
        /\ NamesOf(up) = SubSeq(NamesOf(m_CurrentPath), 1, Len(NamesOf(m_CurrentPath)) - 1)
    BY <1>2, <2>1, ParentPlace DEF PlacesToBe, GoesTo
  <2>3. told' = Resolved(m_CurrentPath)' /\ Resolved(m_CurrentPath)' = NamesOf(up)
    BY <1>2, <2>2, Tells
  <2>4. Resolved(m_CurrentPath) = NamesOf(m_CurrentPath) /\ NamesOf(m_CurrentPath) # <<>>
    BY <1>2, <2>1, WhereIs
  <2>5. Service!Asks("CDUP")
    BY <1>1, MayAsk DEF NeedsLogin
  <2> HIDE DEF up
  <2>6. Resolved(m_CurrentPath)'
          = SubSeq(Resolved(m_CurrentPath), 1, Len(Resolved(m_CurrentPath)) - 1)
    BY <2>2, <2>3, <2>4
  <2>7. Service!GoesUp
    BY <1>1, <2>3, <2>4, <2>5, <2>6 DEF Service!GoesUp, Asked
  <2>8. QED
    BY <2>7 DEF Service!Next
<1>3. CASE Unavailable
  <2>1. told' = Nowhere /\ UNCHANGED m_CurrentPath
    BY <1>3 DEF Unavailable, Says
  <2>2. QED
    BY <1>1, <2>1, NothingChanged DEF Service!Next
<1>4. QED
  BY <1>2, <1>3 DEF ChangeToParentDirectory

(* PWD tells where the client is.                                           *)
LEMMA WhereStep == ASSUME PlaceInv, PrintWorkingDirectory PROVE Service!AsksWhere
<1>1. /\ Takes("PWD") /\ UNCHANGED <<login, place, tree>>
      /\ told' = NamesOf(m_CurrentPath)
  BY DEF PrintWorkingDirectory, Says, FatFsPathToFTPPath
<1>2. Resolved(m_CurrentPath) = NamesOf(m_CurrentPath)
  BY WhereIs DEF PlaceInv
<1>3. Service!Asks("PWD")
  BY <1>1, MayAsk DEF NeedsLogin
<1>4. QED
  BY <1>1, <1>2, <1>3 DEF Service!AsksWhere, place, Resolved, Asked

(* RNFR remembers the name to change.                                       *)
LEMMA MarksStep == ASSUME RenameFrom PROVE Service!Marks
<1>1. /\ Takes("RNFR") /\ UNCHANGED <<login, m_CurrentPath, tree>>
      /\ told' = Nowhere /\ m_RenameFrom' = command'.arg
  BY DEF RenameFrom, Says, Arg
<1>2. Service!Asks("RNFR")
  BY <1>1, MayAsk DEF NeedsLogin
<1>3. QED
  BY <1>1, <1>2 DEF Service!Marks, Resolved, Asked

(* What goes when a path is renamed is what is under it. *)
LEMMA UnderIsBelow ==
  ASSUME PlaceInv, NEW p \in DOMAIN tree
  PROVE  {r \in DOMAIN tree : Service!Under(p, r)} = Below(p) \cup {p}
<1>1. DOMAIN tree \subseteq Seq(Names)
  BY PathAssumption DEF PlaceInv
<1>2. ASSUME NEW r \in DOMAIN tree
      PROVE  Service!Under(p, r) <=> r \in Below(p) \/ r = p
  <2>1. p \in Seq(Names) /\ r \in Seq(Names) /\ Len(p) \in Nat /\ Len(r) \in Nat
    BY <1>1
  <2>2. CASE Len(p) < Len(r)
    <3>1. r # p
      BY <2>1, <2>2
    <3>2. QED
      BY <2>1, <2>2, <3>1 DEF Service!Under, Below
  <2>3. CASE Len(p) = Len(r)
    <3>1. SubSeq(r, 1, Len(p)) = r
      BY <2>1, <2>3, SubSeqFull
    <3>2. QED
      BY <2>1, <2>3, <3>1 DEF Service!Under, Below
  <2>4. CASE Len(p) > Len(r)
    <3>1. r # p
      BY <2>1, <2>4
    <3>2. QED
      BY <2>1, <2>4, <3>1 DEF Service!Under, Below
  <2>5. QED
    BY <2>1, <2>2, <2>3, <2>4
<1>3. QED
  BY <1>2 DEF Below

(* What a rename leaves on the card is what the service says of it.         *)
LEMMA RenamedIsMoved ==
  ASSUME PlaceInv, NEW p \in DOMAIN tree, NEW q
  PROVE  Renamed(p, q) = Service!Moved(p, q)
<1> DEFINE Going == Below(p) \cup {p}
           Coming == {MovedTo(p, q, r) : r \in Going}
<1>1. {r \in DOMAIN tree : Service!Under(p, r)} = Going
  BY UnderIsBelow
<1>2. Renamed(p, q) = [r \in (DOMAIN tree \ Going) \cup Coming |->
                         tree[IF r \in Coming THEN MovedTo(q, p, r) ELSE r]]
  BY DEF Renamed
<1>3. Service!Moved(p, q) = [r \in (DOMAIN tree \ Going) \cup Coming |->
                               IF r \in Coming THEN tree[MovedTo(q, p, r)] ELSE tree[r]]
  BY <1>1, Zenon DEF Service!Moved, MovedTo
<1> HIDE DEF Going, Coming
<1>4. QED
  BY <1>2, <1>3

(* RNTO moves what RNFR named to where the client means, or moves nothing.  *)
LEMMA RenameStep == ASSUME PlaceInv, RenameTo, Arg \in Arguments PROVE Service!Next
<1> DEFINE from == Resolved(RealPath(m_RenameFrom))
           to == Resolved(RealPath(Arg))
<1>1. /\ Takes("RNTO") /\ UNCHANGED <<login, m_CurrentPath>> /\ told' = Nowhere
      /\ m_RenameFrom' = <<>>
  BY DEF RenameTo, Says
<1>2. CASE MayRename(from, to) /\ tree' = Renamed(from, to)
  <2>1. Service!Asks("RNTO")
    BY <1>1, MayAsk DEF NeedsLogin
  <2>2. Service!Target(Request') = to
    BY RequestTarget DEF Arg
  <2>3. Service!Target(Asked(m_RenameFrom)) = from
    <3>1. /\ m_CurrentPath \in PlacesToBe /\ m_RenameFrom \in Arguments
          /\ Asked(m_RenameFrom).absolute = IsAbsolute(m_RenameFrom)
          /\ Asked(m_RenameFrom).names = NamesOf(m_RenameFrom)
      BY DEF PlaceInv, Asked
    <3>2. QED
      BY <3>1, TargetIs
  <2>4. from \in DOMAIN tree /\ to \notin DOMAIN tree
    BY <1>2 DEF MayRename, MayMake, Exists
  <2> HIDE DEF from, to
  <2>5. tree' = Service!Moved(from, to)
    BY <1>2, <2>4, RenamedIsMoved
  <2>6. Service!Renames
    BY <1>1, <2>1, <2>2, <2>3, <2>4, <2>5 DEF Service!Renames, Request, Resolved
  <2>7. QED
    BY <2>6 DEF Service!Next
<1>3. CASE UNCHANGED tree
  BY <1>1, <1>3, NothingChanged DEF Service!Next
<1>4. QED
  BY <1>2, <1>3 DEF RenameTo

(* STOR makes an empty file where the client means, or nothing.             *)
LEMMA StoreStep == ASSUME PlaceInv, Store, Arg \in Arguments PROVE Service!Next
<1> DEFINE p == Resolved(RealPath(Arg))
<1>1. Takes("STOR") /\ UNCHANGED <<login, place>> /\ told' = Nowhere
  BY DEF Store, Says, Takes, Receives, PlaceInv
<1>2. CASE tree' = Put(p, 0)
  <2>1. Service!Asks("STOR")
    BY <1>1, MayAsk DEF NeedsLogin
  <2>2. Service!Target(Request') = p
    BY RequestTarget DEF Arg
  <2>3. tree' = Service!Put(Service!Target(Request'), 0)
    BY <1>2, <2>2 DEF Put, Service!Put
  <2>4. Service!Stores
    BY <1>1, <2>1, <2>3 DEF Service!Stores, Request, place, Resolved, Asked
  <2>5. QED
    BY <2>4 DEF Service!Next
<1>3. CASE UNCHANGED tree
  BY <1>1, <1>3, NothingChanged DEF place, Service!Next
<1>4. QED
  BY <1>2, <1>3 DEF Store

(* What is received is appended to the file the client means.              *)
LEMMA WriteStep ==
  ASSUME IInv, PlaceInv, ReceiveChunk
  PROVE  Service!Next \/ UNCHANGED Service!vars
<1>1. pc = "receive" /\ Still /\ command.verb = "STOR"
  BY DEF ReceiveChunk, IInv, UploadInv
<1>2. UNCHANGED Walk
  BY <1>1 DEF Still, login, place, Walk
<1>3. CASE UNCHANGED tree
  BY <1>2, <1>3, Unseen
<1>4. CASE tree' = [tree EXCEPT ![Stored] = @ + 1]
  <2>1. LoggedIn(m_User, m_Password) /\ Stored \in DOMAIN tree /\ tree[Stored] # Dir
    BY <1>1 DEF PlaceInv, Transfers, Uploads, StoredThere, Dir
  <2>2. Service!Target(Request) = Stored
    <3>1. /\ m_CurrentPath \in PlacesToBe /\ command.arg \in Arguments
          /\ Request.absolute = IsAbsolute(command.arg)
          /\ Request.names = NamesOf(command.arg)
      BY DEF PlaceInv, Request
    <3>2. QED
      BY <3>1, TargetIs DEF Stored
  <2>3. /\ LoggedIn(m_User, m_Password)' = LoggedIn(m_User, m_Password)
        /\ Resolved(m_CurrentPath)' = Resolved(m_CurrentPath)
        /\ Asked(m_RenameFrom)' = Asked(m_RenameFrom)
        /\ Request' = Request /\ told' = told
    BY <1>2 DEF Walk, LoggedIn, Resolved, Asked, Request
  <2>4. Service!Writes
    BY <1>1, <1>4, <2>1, <2>2, <2>3 DEF Service!Writes, Request
  <2>5. QED
    BY <2>4 DEF Service!Next
<1>5. QED
  BY <1>3, <1>4 DEF ReceiveChunk

(* Every step of the server is one of the service or is not seen by it.     *)
LEMMA ServiceStep == IInv /\ PlaceInv /\ [Next]_vars => [Service!Next]_(Service!vars)
<1> SUFFICES ASSUME IInv, PlaceInv, [Next]_vars
             PROVE  Service!Next \/ UNCHANGED Service!vars
  OBVIOUS
<1>1. ASSUME Command PROVE Arg \in Arguments
  BY <1>1, CommandAssumption
  DEF Command, NotLoggedIn, Simple, Username, Password, Port, Passive, Delete,
      MakeDirectory, ChangeWorkingDirectory, ChangeToParentDirectory,
      PrintWorkingDirectory, RenameFrom, RenameTo, Bye, Retrieve, Store, List,
      ListFileNames, Lists, Takes, Receives, Arg
<1>2. CASE \/ NotLoggedIn \/ Simple \/ Port \/ Passive \/ Bye \/ Retrieve
           \/ List \/ ListFileNames \/ NextCommand
  <2>1. UNCHANGED <<login, place, tree>>
    BY <1>2 DEF NotLoggedIn, Simple, Port, Passive, Bye, Retrieve, List, ListFileNames,
                Lists, NextCommand
  <2>2. told' = Nowhere
    BY <1>2 DEF NotLoggedIn, Simple, Port, Passive, Bye, Retrieve, List, ListFileNames,
                Lists, NextCommand, Says, Idle, Takes, Receives, PlaceInv
  <2>3. QED
    BY <2>1, <2>2, NothingChanged DEF place, Service!Next
<1>3. CASE Command
  BY <1>1, <1>2, <1>3, SaysWhoStep, DeleteStep, MakeStep, GoesStep, GoesUpStep, WhereStep,
     MarksStep, RenameStep, StoreStep
  DEF Command, Service!Next
<1>4. CASE WorkerDeleted
  <2>1. Service!SessionBegins
    BY <1>4 DEF WorkerDeleted, Idle, Service!SessionBegins, LoggedIn, Resolved, Unset
  <2>2. QED
    BY <2>1 DEF Service!Next
<1>5. CASE \/ ClientConnects \/ DaemonAccepts \/ ClientLeaves \/ Welcome \/ ControlEnds
  <2>1. UNCHANGED Walk /\ UNCHANGED tree
    BY <1>5 DEF ClientConnects, DaemonAccepts, ClientLeaves, Welcome, ControlEnds,
                login, place, Walk
  <2>2. QED
    BY <2>1, Unseen
<1>6. CASE \/ Begin \/ Connects \/ Accepts \/ ConnectFails \/ AcceptFails
           \/ NothingToAcceptOn \/ SendChunk \/ SendFails \/ SendEnds
           \/ WriteFails \/ ReceiveEnds \/ StoreTimesOut
  <2>1. Still /\ UNCHANGED tree
    BY <1>6 DEF Begin, Connects, Accepts, ConnectFails, AcceptFails,
                NothingToAcceptOn, SendChunk, SendFails, SendEnds,
                WriteFails, ReceiveEnds, StoreTimesOut, Opened
  <2>2. UNCHANGED Walk
    BY <2>1 DEF Still, login, place, Walk
  <2>3. QED
    BY <2>1, <2>2, Unseen
<1>7. CASE UNCHANGED vars
  <2>1. UNCHANGED Walk /\ UNCHANGED tree
    BY <1>7 DEF vars, Walk, login, place
  <2>2. QED
    BY <2>1, Unseen
<1>8. QED
  BY <1>2, <1>3, <1>4, <1>5, <1>6, <1>7, WriteStep DEF Next, Work, Client

(* ServiceSpec: nothing is changed or shown without a login, and a path    *)
(* means what it means to the client, for any names, paths and commands.   *)
THEOREM ServiceImplemented == Spec => ServiceSpec
<1>1. Init => IInv /\ PlaceInv
  BY ServerStarts, PlaceInit
<1>2. IInv /\ PlaceInv /\ [Next]_vars => (IInv /\ PlaceInv)'
  BY ServerSteps, PlaceStep
<1>3. Spec => [](IInv /\ PlaceInv)
  BY <1>1, <1>2, PTL DEF Spec
<1>4. QED
  BY <1>3, ServiceInit, ServiceStep, PTL DEF Spec, ServiceSpec, Service!Spec

============================================================================
