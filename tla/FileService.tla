---------------------------- MODULE FileService ----------------------------
(***************************************************************************)
(* What a session with the FTP server is about, without replies, sockets   *)
(* or path syntax: who has logged in may walk through a tree of files and  *)
(* change it at the places that the requests name, and is told where.      *)
(***************************************************************************)
EXTENDS Integers, Sequences

CONSTANTS Volumes, Default,   \* Default is meant where no volume is named
          Dir, Nowhere

VARIABLES granted,    \* the client has logged in
          cwd,        \* a sequence of names, <<>> is the list of volumes
          tree,       \* Dir or a number of chunks, for every path there is
          request,    \* verb, and the path that it names
          marked,     \* the path that RNFR named
          told        \* the path in the last reply, if there is one

vars == <<granted, cwd, tree, request, marked, told>>

Init == granted = FALSE /\ cwd = <<>> /\ told = Nowhere

Target(p) == IF p.absolute THEN p.names
             ELSE IF cwd = <<>> THEN <<Default>> \o p.names
             ELSE cwd \o p.names

Under(p, q) == Len(p) <= Len(q) /\ SubSeq(q, 1, Len(p)) = p

Put(p, content) == [q \in DOMAIN tree \cup {p} |->
                      IF q = p THEN content ELSE tree[q]]
Removed(p) == [q \in DOMAIN tree \ {p} |-> tree[q]]

(* p, with what is below it, is q now. *)
Moved(p, q) ==
  LET Gone == {r \in DOMAIN tree : Under(p, r)}
      To(r) == q \o SubSeq(r, Len(p) + 1, Len(r))
      From(r) == p \o SubSeq(r, Len(q) + 1, Len(r))
      New == {To(r) : r \in Gone}
  IN  [r \in (DOMAIN tree \ Gone) \cup New |->
         IF r \in New THEN tree[From(r)] ELSE tree[r]]

Asks(verb) == granted /\ request'.verb = verb /\ UNCHANGED granted

SessionBegins ==
  /\ granted' = FALSE /\ cwd' = <<>> /\ told' = Nowhere
  /\ UNCHANGED tree

SaysWho ==
  /\ request'.verb \in {"USER", "PASS"} /\ told' = Nowhere
  /\ UNCHANGED <<cwd, tree, marked>>

Goes ==
  /\ Asks("CWD")
  /\ \/ cwd' = Target(request')
     \/ cwd = <<>> /\ cwd' = request'.names /\ Len(cwd') = 1 /\ cwd'[1] \in Volumes
  /\ told' = cwd' /\ UNCHANGED <<tree, marked>>

GoesUp ==
  /\ Asks("CDUP") /\ cwd # <<>>
  /\ cwd' = SubSeq(cwd, 1, Len(cwd) - 1)
  /\ told' = cwd' /\ UNCHANGED <<tree, marked>>

AsksWhere == Asks("PWD") /\ told' = cwd /\ UNCHANGED <<cwd, tree, marked>>

(* In the list of volumes the path told lacks the volume it was made on.   *)
Makes ==
  /\ Asks("MKD")
  /\ Target(request') \notin DOMAIN tree
  /\ tree' = Put(Target(request'), Dir)
  /\ told' = IF cwd = <<>> /\ ~request'.absolute THEN request'.names
                                                 ELSE Target(request')
  /\ UNCHANGED <<cwd, marked>>

Deletes ==
  /\ Asks("DELE")
  /\ tree' = Removed(Target(request')) /\ told' = Nowhere
  /\ UNCHANGED <<cwd, marked>>

Marks ==
  /\ Asks("RNFR")
  /\ marked' = [absolute |-> request'.absolute, names |-> request'.names]
  /\ told' = Nowhere /\ UNCHANGED <<cwd, tree>>

(* What was marked is looked for from where the client is by now. *)
Renames ==
  /\ Asks("RNTO")
  /\ tree' = Moved(Target(marked), Target(request'))
  /\ Target(request') \notin DOMAIN tree
  /\ told' = Nowhere /\ UNCHANGED cwd

Stores ==
  /\ Asks("STOR")
  /\ tree' = Put(Target(request'), 0) /\ told' = Nowhere
  /\ UNCHANGED <<cwd, marked>>

Writes ==
  /\ granted /\ request.verb = "STOR"
  /\ LET p == Target(request)
     IN  p \in DOMAIN tree /\ tree[p] # Dir /\ tree' = [tree EXCEPT ![p] = @ + 1]
  /\ UNCHANGED <<granted, cwd, request, marked, told>>

(* Whatever else is asked for, or refused; a mark may be forgotten. *)
ChangesNothing ==
  /\ told' = Nowhere
  /\ marked' = marked \/ marked'.names = <<>>
  /\ UNCHANGED <<granted, cwd, tree>>

Next == \/ SessionBegins \/ SaysWho \/ Goes \/ GoesUp \/ AsksWhere \/ Makes
        \/ Deletes \/ Marks \/ Renames \/ Stores \/ Writes \/ ChangesNothing

Spec == Init /\ [][Next]_vars
=============================================================================
