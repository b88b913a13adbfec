---------------------------- MODULE MCSelection ----------------------------
(***************************************************************************)
(* One thing to choose with at a time, and MiSTer together with a button.  *)
(***************************************************************************)
EXTENDS Selection

MCFonts == <<"a", "b">>

Plain ==
  [mister |-> FALSE, saved |-> {Unknown}, menu |-> Unknown, choices |-> 0, failures |-> 0,
   buttons |-> <<>>, presses |-> 0, type |-> NoEncoder, reversed |-> FALSE, turns |-> 0,
   repeats |-> {},
   sysex |-> {}, files |-> {"mt32_old_ctrl", "mt32_new_ctrl", "mt32_pcm", "a", "b"},
   usbFiles |-> {}, plugs |-> 0, opens |-> {TRUE}, romSet |-> 0, font |-> 0, synth |-> "MT32"]

WithButtons == [Plain EXCEPT !.buttons = <<Button2, Button4>>, !.presses = 2,
                             !.repeats = {"Button", "Encoder", "SwitchSoundFont"},
                             !.synth = "SoundFont"]

(* SysEx asks for what only the disk has; or buttons do. *)
WithUSB ==
  [Plain EXCEPT !.files = {"b"}, !.synth = "SoundFont",
                !.usbFiles = {"mt32_old_ctrl", "mt32_new_ctrl", "mt32_pcm", "cm32l_ctrl",
                              "cm32l_pcm", "a", "readme"},
                !.plugs = 2, !.choices = 3, !.romSet = Roms!Any,
                !.sysex = {Event("SwitchSynth", 0), Event("SwitchMT32ROMSet", 2),
                           Event("SwitchSoundFont", 1)}]

FontsOnUSB ==
  [Plain EXCEPT !.files = {"mt32_new_ctrl", "mt32_old_ctrl", "mt32_pcm"}, !.plugs = 2,
                !.usbFiles = {"cm32l_ctrl", "a", "b"},
                !.buttons = <<Button1, Button2>>, !.presses = 2, !.repeats = {"Button"}]

(* The set is incomplete at first, and may fail to open; and another one   *)
(* is complete.                                                            *)
HalfASet ==
  [Plain EXCEPT !.files = {"mt32_new_ctrl", "cm32l_ctrl", "cm32l_pcm", "a"}, !.plugs = 1,
                !.usbFiles = {"mt32_pcm", "b"}, !.opens = BOOLEAN, !.romSet = 1,
                !.buttons = <<Button1, Button2>>, !.presses = 1, !.repeats = {"Button"}]

Encoders == {[Plain EXCEPT !.type = t, !.turns = 6, !.reversed = (t = "Half")] :
               t \in Types}

WithMister ==
  [Plain EXCEPT !.mister = TRUE, !.choices = 2, !.saved = {Status("SoundFont", 0, 1)},
                !.menu = Status({"MT32", "SoundFont"}, {2}, {0, 1})]

BusFailing == [WithMister EXCEPT !.choices = 1, !.failures = 1, !.synth = "SoundFont",
                                 !.menu = Status({"MT32"}, {1}, {0})]

MisterAndButton ==
  [WithMister EXCEPT !.buttons = <<Button2>>, !.synth = "SoundFont", !.presses = 1,
                     !.choices = 1, !.saved = {Status("SoundFont", 0, 0)},
                     !.menu = Status({"SoundFont"}, {0}, {1})]

MCSetups == Encoders \cup
  {WithButtons, WithUSB, FontsOnUSB, HalfASet, WithMister, BusFailing, MisterAndButton}
=============================================================================
