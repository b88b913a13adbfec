---------------------------- MODULE MCFtpServer ----------------------------
(***************************************************************************)
(* A card with a directory and a file, one more volume that is not there,  *)
(* and paths written absolute, relative and with slashes too many.         *)
(***************************************************************************)
EXTENDS FtpServer

MCPaths == {<<"SD">>, <<"SD", "x">>, <<"SD", "y">>, <<"SD", "x", "y">>}

MCTree == [p \in {<<"SD">>, <<"SD", "x">>} |-> Dir]

Relative == {<<"x">>, <<"y">>}
Down == <<"x", "/", "/", "y">>
Absolute == <<"/", "/", "SD", "/", "y", "/">>

With(verbs, args) == [verb : verbs, arg : args]

MCCommands ==
  With({"SYST", "NOOP", "XXXX", "CDUP", "PWD", "PASV", "QUIT", "LIST", "NLST"}, {<<>>})
    \cup With({"TYPE"}, {<<"I">>, <<"E">>})
    \cup With({"USER", "PASS"}, {<<"right">>, <<"wrong">>})
    \cup With({"PORT"}, {<<"address">>, <<"none">>})
    \cup With({"CWD"}, {<<"x">>, <<"USB">>, Down, <<"/">>, Absolute,
                        <<"/", "SD">>, <<"/", "/">>})
    \cup With({"DELE", "MKD"}, {<<"x">>, Down, Absolute})
    \cup With({"RNFR"}, {<<"x">>, Absolute})
    \cup With({"RNTO"}, {<<"y">>, Absolute, Down})
    \cup With({"RETR", "STOR"}, {<<"y">>, Absolute})
=============================================================================
