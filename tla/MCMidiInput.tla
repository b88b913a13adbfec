---------------------------- MODULE MCMidiInput ----------------------------
(* A keyboard that plays, releases, asks for SoundFonts and sends a SysEx   *)
(* message of its own, in USB MIDI packets of up to three bytes.            *)
EXTENDS MidiInput

CONSTANT none

SwitchTo(i) == << <<240, 125, 2>>, <<i, 247>> >>
MCMessages == {<< <<144, 60, 64>> >>, << <<128, 60, 0>> >>, SwitchTo(0), SwitchTo(1),
               << <<240, 65, 16>>, <<18, 22, 247>> >>}
MCDatagrams == {<<144, 62, 64>>}
MCSoundFonts == {0, 1}
=============================================================================
