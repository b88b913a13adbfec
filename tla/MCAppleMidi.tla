---------------------------- MODULE MCAppleMidi ----------------------------
(***************************************************************************)
(* Two programs on one host, one of which may start again with a new       *)
(* token, and another host; lists with every kind of command, alone and    *)
(* behind one another, with short and long delta times; and lists that end *)
(* within a delta time or a command, or that begin with a data byte.       *)
(***************************************************************************)
EXTENDS AppleMidi

MCInitiators == {[ip |-> "a", port |-> 1, id |-> 1], [ip |-> "a", port |-> 1, id |-> 2],
                 [ip |-> "a", port |-> 2, id |-> 3], [ip |-> "b", port |-> 1, id |-> 4]}

Whole(bytes) == [bytes |-> bytes, midi |-> bytes]
Other(bytes, meant) == [bytes |-> bytes, midi |-> meant]

NoteOn == Whole(<<144, 60, 100>>)
Running == Whole(<<62, 0>>)
ProgramChange == Whole(<<192, 5>>)
SongSelect == Whole(<<243, 1>>)
TuneRequest == Whole(<<246>>)
Clock == Whole(<<248>>)
Undefined == Other(<<249>>, <<>>)
SysEx == Whole(<<240, 65, 247>>)
FirstPart == Other(<<240, 65, 66, 240>>, <<240, 65, 66>>)
MiddlePart == Other(<<247, 67, 68, 240>>, <<67, 68>>)
LastPart == Other(<<247, 69, 247>>, <<69, 247>>)
Cancellation == Other(<<247, 70, 244>>, <<>>)

After(d, c) == [delta |-> d, bytes |-> c.bytes, midi |-> c.midi]
Now(c) == After(<<>>, c)
Soon(c) == After(<<0>>, c)
Later(c) == After(<<129, 0>>, c)

MCLists ==
  {<<>>,
   <<Now(NoteOn), Soon(Clock), Later(Running)>>,
   <<Later(ProgramChange), Soon(NoteOn), Soon(Running)>>,
   <<Now(SysEx), Soon(Undefined), Later(SongSelect)>>,
   <<Soon(Clock), Soon(FirstPart)>>,
   <<Now(LastPart), Soon(TuneRequest), Soon(NoteOn)>>,
   <<Now(MiddlePart), Soon(NoteOn)>>,
   <<Now(Whole(<<5>>)), Soon(Cancellation), After(<<129>>, Whole(<<>>))>>,
   <<Soon(Whole(<<144, 60>>))>>,
   <<Now(Other(<<247, 240>>, <<>>))>>}

MCLeftovers == {<<>>, <<144, 1, 1>>}
=============================================================================
