--------------------------- MODULE MCMidiDisplay ---------------------------
(***************************************************************************)
(* Bytes of every class; a display of one character, with texts that fit   *)
(* and that scroll; a key of a melodic channel, one of the drums', and     *)
(* note 127 of the channel before the melodic one.                         *)
(***************************************************************************)
EXTENDS MidiDisplay

MCUses == {{"message", "power"}, {"text"}, {"image", "bitmap", "spinner"}}
MCLength == [power |-> 1, long |-> 3]
MCSends ==
  {[played |-> {<<1, 0>>}, sent |-> {"damper", "controllers", "rhythm"}],
   [played |-> {<<1, 0>>, <<9, 0>>}, sent |-> {"mode", "system", "GM"}],
   [played |-> {<<0, 127>>, <<1, 0>>}, sent |-> {"damper"}]}
=============================================================================
