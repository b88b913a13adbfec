----------------------------- MODULE FtpServer -----------------------------
(***************************************************************************)
(* CFTPDaemon and CFTPWorker (src/net/ftpdaemon.cpp, ftpworker.cpp): the   *)
(* task that accepts control connections and the task that serves the one  *)
(* it has room for.  A handler is a step, as the tasks are cooperative,    *)
(* but for data connections and transfers, which wait for the client.      *)
(* Paths are sequences of names, ":" and "/"; a control connection carries *)
(* a command line per segment.  The file system behind the f_ functions is *)
(* external.  Not kept: m_DataType, which no transfer looks at, and the    *)
(* address and port of data connections: connecting succeeds or fails.     *)
(***************************************************************************)
EXTENDS Integers, Sequences, FiniteSets, SequencesExt

CONSTANTS
  Names,        \* of files, and words of commands
  Volumes,      \* VolumeNames
  Default,      \* the volume FatFs takes where none is named
  Paths,        \* paths there is room for, as sequences of names
  Tree,         \* what is on the card at first
  Commands,     \* [verb, arg] that clients send
  MaxChunks     \* that a client uploads

Separators == {"/", ":"}

(* What a command can have for an argument: a name ends at a slash. *)
Arguments == {a \in Seq(Names \cup {"/"}) :
                \A k \in 1..(Len(a) - 1) : "/" \in {a[k], a[k + 1]}}

ASSUME NameAssumption == Names \cap Separators = {}
ASSUME VolumeAssumption == Default \in Volumes /\ Volumes \subseteq Names
ASSUME PathAssumption == Paths \subseteq Seq(Names) \ {<<>>}
ASSUME CommandAssumption == \A c \in Commands : c.arg \in Arguments

Dir == -1
Nowhere == <<"nowhere">>
NoCommand == [verb |-> "", arg |-> <<>>]
Unset == ""
NumRetries == 3
MaxConnections == 1

ASSUME TreeAssumption == /\ DOMAIN Tree \subseteq Paths
                         /\ \A p \in DOMAIN Tree : Tree[p] \in {Dir} \cup Nat
ASSUME ChunkAssumption == MaxChunks \in Nat

VARIABLES
  pending,            \* a connection waits for the daemon to accept it
  s_nInstanceCount,
  lost,               \* the control connection has been closed by the client
  pc, command,
  m_User, m_Password,
  m_TransferMode, m_pDataSocket, m_CurrentPath, m_RenameFrom,
  nRetries,
  chunks,             \* sent of a file, or received for one, in a transfer
  tree,
  replies, told,      \* history: answers to the command, and the path in them
  failures,           \* history: failed attempts to connect
  upload              \* history: open, closed by the client, or harmed

login == <<m_User, m_Password>>
mode == <<m_TransferMode, m_pDataSocket>>
place == <<m_CurrentPath, m_RenameFrom>>
transfer == <<nRetries, chunks, failures, upload>>
daemon == <<pending, s_nInstanceCount>>
vars == <<daemon, lost, pc, command, login, mode, place, transfer, tree, replies, told>>

TypeOK ==
  /\ pending \in BOOLEAN /\ lost \in BOOLEAN
  /\ s_nInstanceCount \in 0..MaxConnections
  /\ s_nInstanceCount = 0 <=> pc = "none"
  /\ pc \in {"none", "start", "ready", "begin", "open", "send", "receive", "done", "ended"}
  /\ command \in Commands \cup {NoCommand}
  /\ {m_User, m_Password} \subseteq {Unset, "right", "wrong"}
  /\ m_TransferMode \in {"Active", "Passive"} /\ m_pDataSocket \in BOOLEAN
  /\ nRetries \in 0..NumRetries /\ failures \in 0..NumRetries
  /\ chunks \in Nat /\ upload \in {"open", "closed", "harmed"}
  /\ DOMAIN tree \subseteq Paths /\ \A p \in DOMAIN tree : tree[p] \in {Dir} \cup Nat
  /\ replies \in Seq(100..599)

Init ==
  /\ pending = FALSE /\ s_nInstanceCount = 0 /\ lost = FALSE
  /\ pc = "none" /\ command = NoCommand
  /\ m_User = Unset /\ m_Password = Unset
  /\ m_TransferMode = "Active" /\ m_pDataSocket = FALSE
  /\ m_CurrentPath = <<>> /\ m_RenameFrom = <<>>
  /\ nRetries = 0 /\ chunks = 0 /\ failures = 0 /\ upload = "open"
  /\ tree = Tree
  /\ replies = <<>> /\ told = Nowhere

----------------------------------------------------------------------------
(* Paths.  Duplicate and trailing slashes go when a path is converted.     *)

NamesOf(path) ==
  FlattenSeq([k \in DOMAIN path |-> IF path[k] \in Separators THEN <<>> ELSE <<path[k]>>])

Slashed(names) == IF names = <<>> THEN <<>>
                  ELSE Tail(FlattenSeq([k \in DOMAIN names |-> <<"/", names[k]>>]))

(* /SD/a/b is SD:a/b to FatFs, and slashes alone are a volume without name. *)
FTPPathToFatFsPath(path) ==
  LET names == NamesOf(path)
  IN  IF names = <<>> THEN <<":">> ELSE <<Head(names), ":">> \o Slashed(Tail(names))

(* What the client reads in a reply; a path without a volume stays one.    *)
FatFsPathToFTPPath(path) == NamesOf(path)

IsAbsolute(path) == path # <<>> /\ path[1] = "/"

RealPath(path) == IF IsAbsolute(path) THEN FTPPathToFatFsPath(path)
                                      ELSE m_CurrentPath \o <<"/">> \o path

(* The last place at or before k whose token is one of these, or the first. *)
Back(path, k, tokens) ==
  LET S == {i \in 1..k : path[i] \in tokens} \cup {1}
  IN  CHOOSE i \in S : \A j \in S : j <= i

(* Trailing slashes, the name and the slashes before it are dropped.       *)
FatFsParentPath(path) ==
  LET NotSlash == ToSet(path) \ {"/"}
      name == Back(path, Len(path), NotSlash)
      before == Back(path, Back(path, name, {"/", ":"}), NotSlash)
  IN  IF before \in {1, Len(path)} THEN <<>> ELSE SubSeq(path, 1, before)

(* Where FatFs finds a path. *)
Resolved(path) ==
  IF path = <<>> THEN <<>>
  ELSE IF IsAbsolute(path) THEN <<Default>> \o NamesOf(path)
  ELSE NamesOf(path)

----------------------------------------------------------------------------
(* What FatFs allows; it may fail all the same. *)

Exists(p) == p \in DOMAIN tree
IsDir(p) == Exists(p) /\ tree[p] = Dir
IsFile(p) == Exists(p) /\ tree[p] # Dir
IsVolume(p) == Len(p) = 1
Below(p) == {q \in DOMAIN tree : Len(q) > Len(p) /\ SubSeq(q, 1, Len(p)) = p}

MayMake(p) == p \in Paths /\ ~IsVolume(p) /\ ~Exists(p) /\ IsDir(Front(p))
MayUnlink(p) == Exists(p) /\ ~IsVolume(p) /\ Below(p) = {}
MayWrite(p) == IsFile(p) \/ MayMake(p)

MovedTo(p, q, r) == q \o SubSeq(r, Len(p) + 1, Len(r))
MayRename(p, q) ==
  /\ Exists(p) /\ ~IsVolume(p) /\ MayMake(q) /\ Front(q) \notin Below(p) \cup {p}
  /\ \A r \in Below(p) : MovedTo(p, q, r) \in Paths

Put(p, content) == [q \in DOMAIN tree \cup {p} |-> IF q = p THEN content ELSE tree[q]]
Without(p) == [q \in DOMAIN tree \ {p} |-> tree[q]]

Renamed(p, q) ==
  LET Going == Below(p) \cup {p}
      Coming == {MovedTo(p, q, r) : r \in Going}
  IN  [r \in (DOMAIN tree \ Going) \cup Coming |->
         tree[IF r \in Coming THEN MovedTo(q, p, r) ELSE r]]

----------------------------------------------------------------------------
(* The daemon, the worker's life and the turns of its loop. *)

ClientConnects == ~pending /\ pending' = TRUE
                  /\ UNCHANGED <<s_nInstanceCount, lost, pc, command, login, mode,
                                 place, transfer, tree, replies, told>>

(* The one after MaxConnections is told 421 and turned away. *)
DaemonAccepts ==
  /\ pending /\ pending' = FALSE
  /\ IF s_nInstanceCount >= MaxConnections
     THEN UNCHANGED <<s_nInstanceCount, pc>>
     ELSE s_nInstanceCount' = s_nInstanceCount + 1 /\ pc' = "start"
  /\ UNCHANGED <<lost, command, login, mode, place, transfer, tree, replies, told>>

ClientLeaves ==
  /\ pc # "none" /\ ~lost /\ lost' = TRUE
  /\ UNCHANGED <<daemon, pc, command, login, mode, place, transfer, tree, replies, told>>

Idle == command' = NoCommand /\ replies' = <<>> /\ told' = Nowhere

NoTransfer == nRetries' = 0 /\ chunks' = 0 /\ failures' = 0 /\ upload' = "open"

Welcome ==
  /\ pc = "start"
  /\ pc' = IF lost THEN "ended" ELSE "ready"
  /\ UNCHANGED <<daemon, lost, command, login, mode, place, transfer, tree, replies, told>>

NextCommand ==
  /\ pc = "done" /\ pc' = "ready"
  /\ Idle /\ NoTransfer
  /\ UNCHANGED <<daemon, lost, login, mode, place, tree>>

(* Receive returns an error, or nothing for 20 s. *)
ControlEnds ==
  /\ pc = "ready" /\ pc' = "ended"
  /\ UNCHANGED <<daemon, lost, command, login, mode, place, transfer, tree, replies, told>>

(* The next worker begins with members as its constructor sets them. *)
WorkerDeleted ==
  /\ pc = "ended" /\ pc' = "none" /\ lost' = FALSE
  /\ s_nInstanceCount' = s_nInstanceCount - 1
  /\ m_User' = Unset /\ m_Password' = Unset /\ m_CurrentPath' = <<>> /\ m_RenameFrom' = <<>>
  /\ m_TransferMode' = "Active" /\ m_pDataSocket' = FALSE
  /\ Idle /\ NoTransfer
  /\ UNCHANGED <<pending, tree>>

----------------------------------------------------------------------------
(* Commands. *)

LoggedIn(user, password) == user = "right" /\ password = "right"

(* Seeded fault: the handler of RNTO does not call CheckLoggedIn. *)
NeedsLogin_ButRename(verb) ==
  verb \notin {"SYST", "USER", "PASS", "QUIT", "NOOP", "RNTO", "XXXX"}

(* Every handler but those of these verbs calls CheckLoggedIn first.       *)
NeedsLogin(verb) == verb \notin {"SYST", "USER", "PASS", "QUIT", "NOOP", "XXXX"}

Receives(verbs) ==
  /\ pc = "ready" /\ ~lost
  /\ command' \in {c \in Commands : c.verb \in verbs}
  /\ UNCHANGED <<daemon, lost>>

Takes(verb) ==
  /\ Receives({verb})
  /\ NeedsLogin(verb) => LoggedIn(m_User, m_Password)

Arg == command'.arg

Says(code, path) == /\ replies' = Append(replies, code) /\ told' = path
                    /\ pc' = "done"

NotLoggedIn ==
  /\ Receives({c.verb : c \in Commands})
  /\ NeedsLogin(command'.verb) /\ ~LoggedIn(m_User, m_Password)
  /\ Says(530, Nowhere)
  /\ UNCHANGED <<login, mode, place, transfer, tree>>

(* SYST, NOOP, TYPE, and what is not in the table. *)
Simple ==
  /\ \E verb \in {"SYST", "NOOP", "TYPE", "XXXX"} : Takes(verb)
  /\ Says(CASE command'.verb = "SYST" -> 215
            [] command'.verb = "NOOP" -> 200
            [] command'.verb = "TYPE" -> IF Arg \in {<<"A">>, <<"I">>} THEN 200 ELSE 501
            [] command'.verb = "XXXX" -> 502, Nowhere)
  /\ UNCHANGED <<login, mode, place, transfer, tree>>

(* A password that was right before is kept. *)
Username ==
  /\ Takes("USER")
  /\ m_User' = Arg[1]
  /\ Says(331, Nowhere)
  /\ UNCHANGED <<m_Password, mode, place, transfer, tree>>

Password ==
  /\ Takes("PASS")
  /\ IF m_User = Unset THEN Says(332, Nowhere) /\ UNCHANGED m_Password
     ELSE /\ m_Password' = Arg[1]
          /\ Says(IF LoggedIn(m_User, Arg[1]) THEN 230 ELSE 530, Nowhere)
  /\ UNCHANGED <<m_User, mode, place, transfer, tree>>

(* The mode is Active even when the arguments turn out to be no address.   *)
Port ==
  /\ Takes("PORT")
  /\ m_pDataSocket' = FALSE /\ m_TransferMode' = "Active"
  /\ Says(IF Arg = <<"address">> THEN 200 ELSE 501, Nowhere)
  /\ UNCHANGED <<login, place, transfer, tree>>

(* Binding the port or listening on it may fail. *)
Passive ==
  /\ Takes("PASV")
  /\ IF m_pDataSocket THEN Says(227, Nowhere) /\ UNCHANGED mode
     ELSE /\ m_TransferMode' = "Passive"
          /\ \/ m_pDataSocket' = TRUE /\ Says(227, Nowhere)
             \/ m_pDataSocket' = FALSE /\ Says(425, Nowhere)
  /\ UNCHANGED <<login, place, transfer, tree>>

(* DELE and RMD. *)
Delete ==
  /\ Takes("DELE")
  /\ LET p == Resolved(RealPath(Arg))
     IN  \/ MayUnlink(p) /\ tree' = Without(p) /\ Says(250, Nowhere)
         \/ UNCHANGED tree /\ Says(450, Nowhere)
  /\ UNCHANGED <<login, mode, place, transfer>>

MakeDirectory ==
  /\ Takes("MKD")
  /\ LET p == Resolved(RealPath(Arg))
     IN  \/ /\ MayMake(p) /\ tree' = Put(p, Dir)
            /\ Says(257, FatFsPathToFTPPath(RealPath(Arg)))
         \/ UNCHANGED tree /\ Says(450, Nowhere)
  /\ UNCHANGED <<login, mode, place, transfer>>

GoesTo(path) == m_CurrentPath' = path /\ Says(250, FatFsPathToFTPPath(path))

Unavailable == UNCHANGED m_CurrentPath /\ Says(550, Nowhere)

(* f_stat also finds files; a volume is not looked for.  Of slashes alone  *)
(* nothing is converted, and the byte before the buffer decides whether    *)
(* that is a volume without name, or no path, which FatFs can open, too.   *)
ChangeWorkingDirectory ==
  /\ Takes("CWD")
  /\ LET down == m_CurrentPath \o <<"/">> \o Arg
     IN  \/ Arg = <<"/">> /\ GoesTo(<<>>)
         \/ /\ IsAbsolute(Arg) /\ NamesOf(Arg) = <<>>
            /\ IsDir(<<Default>>) /\ GoesTo(<<>>)
         \/ /\ IsAbsolute(Arg) /\ Arg # <<"/">>
            /\ IsDir(Resolved(RealPath(Arg))) /\ GoesTo(RealPath(Arg))
         \/ /\ ~IsAbsolute(Arg) /\ m_CurrentPath = <<>>
            /\ Len(Arg) = 1 /\ Arg[1] \in Volumes /\ GoesTo(<<Arg[1], ":">>)
         \/ /\ ~IsAbsolute(Arg) /\ m_CurrentPath # <<>>
            /\ Exists(Resolved(down)) /\ ~IsVolume(Resolved(down)) /\ GoesTo(down)
         \/ Arg # <<"/">> /\ Unavailable
  /\ UNCHANGED <<m_RenameFrom, login, mode, transfer, tree>>

ChangeToParentDirectory ==
  /\ Takes("CDUP")
  /\ \/ /\ m_CurrentPath # <<>>
        /\ LET up == FatFsParentPath(m_CurrentPath)
           IN  (up = <<>> \/ IsDir(Resolved(up))) /\ GoesTo(up)
     \/ /\ m_CurrentPath # <<>> => FatFsParentPath(m_CurrentPath) # <<>>
        /\ Unavailable
  /\ UNCHANGED <<m_RenameFrom, login, mode, transfer, tree>>

PrintWorkingDirectory ==
  /\ Takes("PWD")
  /\ Says(257, FatFsPathToFTPPath(m_CurrentPath))
  /\ UNCHANGED <<login, mode, place, transfer, tree>>

RenameFrom ==
  /\ Takes("RNFR")
  /\ m_RenameFrom' = Arg
  /\ Says(350, Nowhere)
  /\ UNCHANGED <<m_CurrentPath, login, mode, transfer, tree>>

RenameTo ==
  /\ Takes("RNTO")
  /\ LET from == Resolved(RealPath(m_RenameFrom))
         to == Resolved(RealPath(Arg))
     IN  \/ m_RenameFrom = <<>> /\ UNCHANGED tree /\ Says(503, Nowhere)
         \/ /\ m_RenameFrom # <<>>
            /\ \/ MayRename(from, to) /\ tree' = Renamed(from, to) /\ Says(250, Nowhere)
               \/ UNCHANGED tree /\ Says(553, Nowhere)
  /\ m_RenameFrom' = <<>>
  /\ UNCHANGED <<m_CurrentPath, login, mode, transfer>>

Bye ==
  /\ Takes("QUIT")
  /\ replies' = <<221>> /\ told' = Nowhere /\ pc' = "ended"
  /\ UNCHANGED <<login, mode, place, transfer, tree>>

Retrieve ==
  /\ Takes("RETR")
  /\ LET p == Resolved(RealPath(Arg))
     IN  \/ IsFile(p) /\ chunks' = tree[p] /\ pc' = "begin" /\ UNCHANGED <<replies, told>>
         \/ UNCHANGED chunks /\ Says(450, Nowhere)
  /\ UNCHANGED <<login, mode, place, nRetries, failures, upload, tree>>

(* The file is there and empty before there is a data connection. *)
Store ==
  /\ Takes("STOR")
  /\ LET p == Resolved(RealPath(Arg))
     IN  \/ MayWrite(p) /\ tree' = Put(p, 0) /\ pc' = "begin" /\ UNCHANGED <<replies, told>>
         \/ UNCHANGED tree /\ Says(450, Nowhere)
  /\ UNCHANGED <<login, mode, place, transfer>>

Lists(verb) ==
  /\ Takes(verb)
  /\ pc' = "begin"
  /\ UNCHANGED <<login, mode, place, transfer, tree, replies, told>>

List == Lists("LIST")
ListFileNames == Lists("NLST")

----------------------------------------------------------------------------
(* Data connections and transfers. *)

Still == UNCHANGED <<daemon, lost, command, login, mode, place, told>>

SaysFinally(code) == replies' = Append(replies, code) /\ pc' = "done"

(* Without the preliminary reply there is no transfer. *)
Begin ==
  /\ pc = "begin" /\ Still
  /\ IF lost THEN pc' = "done" /\ UNCHANGED <<replies, nRetries>>
             ELSE pc' = "open" /\ replies' = Append(replies, 150) /\ nRetries' = NumRetries
  /\ UNCHANGED <<chunks, failures, upload, tree>>

(* Volumes that can be opened, or what is in the directory. *)
BuildDirectoryList ==
  IF m_CurrentPath = <<>> THEN {<<v>> : v \in Volumes} \cap DOMAIN tree
  ELSE {p \in Below(Resolved(m_CurrentPath)) : Len(p) = Len(Resolved(m_CurrentPath)) + 1}

(* NLST leaves out directories. *)
Listed == {p \in BuildDirectoryList : command.verb = "NLST" => IsFile(p)}

(* An error while the directory is read ends the list as its end does.     *)
Opened == /\ pc' = IF command.verb = "STOR" THEN "receive" ELSE "send"
          /\ IF command.verb \in {"LIST", "NLST"} THEN chunks' \in 0..Cardinality(Listed)
                                                 ELSE UNCHANGED chunks
          /\ UNCHANGED <<nRetries, failures, upload, tree, replies>>

Connects == pc = "open" /\ m_TransferMode = "Active" /\ Still /\ Opened

(* Accept waits until the client connects. *)
Accepts == pc = "open" /\ m_TransferMode = "Passive" /\ m_pDataSocket /\ Still /\ Opened

ConnectFails ==
  /\ pc = "open" /\ m_TransferMode = "Active" /\ Still
  /\ nRetries' = nRetries - 1 /\ failures' = failures + 1
  /\ replies' = replies \o (IF nRetries' = 0 THEN <<425, 425>> ELSE <<425>>)
  /\ pc' = IF nRetries' = 0 THEN "done" ELSE "open"
  /\ UNCHANGED <<chunks, upload, tree>>

AcceptFails ==
  /\ pc = "open" /\ m_TransferMode = "Passive" /\ m_pDataSocket /\ Still
  /\ nRetries' = nRetries - 1
  /\ replies' = replies \o (IF nRetries' = 0 THEN <<425>> ELSE <<>>)
  /\ pc' = IF nRetries' = 0 THEN "done" ELSE "open"
  /\ UNCHANGED <<chunks, failures, upload, tree>>

NothingToAcceptOn ==
  /\ pc = "open" /\ m_TransferMode = "Passive" /\ ~m_pDataSocket /\ Still
  /\ nRetries' = 0 /\ SaysFinally(425)
  /\ UNCHANGED <<chunks, failures, upload, tree>>

SendChunk ==
  /\ pc = "send" /\ chunks > 0 /\ Still
  /\ chunks' = chunks - 1
  /\ UNCHANGED <<pc, nRetries, failures, upload, tree, replies>>

(* Seeded fault: the handler returns without SendStatus. *)
SendFails_Silent ==
  /\ pc = "send" /\ chunks > 0 /\ Still
  /\ pc' = "done" /\ UNCHANGED <<transfer, tree, replies>>

(* f_read, Send or the formatting of an entry fails. *)
SendFails ==
  /\ pc = "send" /\ chunks > 0 /\ Still
  /\ SaysFinally(IF command.verb = "RETR" THEN 451 ELSE 425)
  /\ UNCHANGED <<transfer, tree>>

SendEnds ==
  /\ pc = "send" /\ chunks = 0 /\ Still
  /\ SaysFinally(226)
  /\ UNCHANGED <<transfer, tree>>

Stored == Resolved(RealPath(command.arg))

(* f_write reports no error when the disk is full. *)
ReceiveChunk ==
  /\ pc = "receive" /\ chunks < MaxChunks /\ Still
  /\ chunks' = chunks + 1
  /\ \/ tree' = [tree EXCEPT ![Stored] = @ + 1] /\ UNCHANGED upload
     \/ upload' = "harmed" /\ UNCHANGED tree
  /\ UNCHANGED <<pc, nRetries, failures, replies>>

WriteFails ==
  /\ pc = "receive" /\ chunks < MaxChunks /\ Still
  /\ SaysFinally(451)
  /\ UNCHANGED <<transfer, tree>>

(* "All done": the client has closed the connection, or it broke. *)
ReceiveEnds ==
  /\ pc = "receive" /\ Still
  /\ upload' \in {"harmed"} \cup (IF upload = "open" THEN {"closed"} ELSE {})
  /\ SaysFinally(226)
  /\ UNCHANGED <<nRetries, chunks, failures, tree>>

(* Seeded faults: a silent connection is taken for the end; or waited for. *)
StoreTimesOut_IsDone ==
  pc = "receive" /\ Still /\ SaysFinally(226) /\ UNCHANGED <<transfer, tree>>
StoreTimesOut_Never == FALSE

(* No data for 20 s. *)
StoreTimesOut ==
  pc = "receive" /\ Still /\ SaysFinally(451) /\ UNCHANGED <<transfer, tree>>

----------------------------------------------------------------------------
Command ==
  \/ NotLoggedIn \/ Simple \/ Username \/ Password \/ Port \/ Passive
  \/ Delete \/ MakeDirectory \/ ChangeWorkingDirectory \/ ChangeToParentDirectory
  \/ PrintWorkingDirectory \/ RenameFrom \/ RenameTo \/ Bye
  \/ Retrieve \/ Store \/ List \/ ListFileNames

(* What the tasks do of themselves, whatever the client does. *)
Work ==
  \/ Welcome \/ NextCommand \/ ControlEnds \/ WorkerDeleted \/ Begin
  \/ Connects \/ ConnectFails \/ NothingToAcceptOn
  \/ SendChunk \/ SendFails \/ SendEnds \/ StoreTimesOut

Client == \/ ClientConnects \/ ClientLeaves \/ Command
          \/ Accepts \/ AcceptFails \/ ReceiveChunk \/ WriteFails \/ ReceiveEnds

Next == DaemonAccepts \/ Work \/ Client

(* The scheduler lets both tasks run; connecting and sending come to an    *)
(* end, a receive gives up after 20 s; the client need not do anything.    *)
Spec == Init /\ [][Next]_vars /\ WF_vars(DaemonAccepts) /\ WF_vars(Work)

----------------------------------------------------------------------------
Asked(path) == [absolute |-> IsAbsolute(path), names |-> NamesOf(path)]

Service == INSTANCE FileService WITH
  granted <- LoggedIn(m_User, m_Password),
  cwd <- Resolved(m_CurrentPath),
  request <- [verb |-> command.verb, absolute |-> IsAbsolute(command.arg),
              names |-> NamesOf(command.arg)],
  marked <- Asked(m_RenameFrom)

(* The server implements the service: nothing is changed or shown without  *)
(* a login, names mean what they mean to the client, CDUP undoes CWD, and  *)
(* the path told is the one the worker is in, however the two notations of *)
(* paths and their slashes are mixed.                                      *)
ServiceSpec == Service!Spec

Final(code) == code >= 200
Finals(codes) == {k \in 1..Len(codes) : Final(codes[k])}

(* A command gets one final reply, the last one, and one more for every    *)
(* attempt to connect that failed (OpenDataConnection): a client that      *)
(* counts replies stays in step as long as no attempt fails.               *)
OneFinalReply ==
  pc = "done" /\ ~lost =>
    Cardinality(Finals(replies)) = 1 + failures /\ Final(Last(replies))

(* "Transfer complete" after an upload: the client has closed its end and  *)
(* the file has all it sent; unless the connection broke, which cannot be  *)
(* told from its end, or the disk was full, which nobody looks at.         *)
StoreComplete ==
  pc = "done" /\ command.verb = "STOR" /\ replies # <<>> /\ Last(replies) = 226 =>
    \/ upload = "harmed"
    \/ upload = "closed" /\ tree[Stored] = chunks

Accepting == pc = "open" /\ m_TransferMode = "Passive" /\ m_pDataSocket

(* When the client leaves, the only place there is becomes free, even in   *)
(* the midst of a transfer; unless the worker is waiting for a passive     *)
(* data connection, which it does forever.                                 *)
SlotFreed == lost ~> (pc = "none" \/ Accepting)
=============================================================================
