----------------------------- MODULE RomManager -----------------------------
(***************************************************************************)
(* CROMManager (src/rommanager.cpp): which ROM images make a set.  What is *)
(* loaded is the set of kinds there is an image of; of two files of a kind *)
(* the first is kept, and what is no ROM is not.                           *)
(***************************************************************************)
EXTENDS Integers

MT32Old == 0
MT32New == 1
CM32L == 2
Any == 3
All == 4
ROMSets == {MT32Old, MT32New, CM32L}

Controls == {"mt32_old_ctrl", "mt32_new_ctrl", "cm32l_ctrl"}
PCMs == {"mt32_pcm", "cm32l_pcm"}
Kinds == Controls \cup PCMs
NoROM == "none"

Control == [s \in ROMSets |-> CASE s = MT32Old -> "mt32_old_ctrl"
                                [] s = MT32New -> "mt32_new_ctrl"
                                [] s = CM32L -> "cm32l_ctrl"]
PCM == [s \in ROMSets |-> IF s = CM32L THEN "cm32l_pcm" ELSE "mt32_pcm"]

HaveROMSet(roms, s) ==
  CASE s = Any -> \E r \in ROMSets : {Control[r], PCM[r]} \subseteq roms
    [] s = All -> roms = Kinds
    [] s \in ROMSets -> {Control[s], PCM[s]} \subseteq roms
    [] OTHER -> FALSE

Images(roms, s) ==
  [ok |-> TRUE, set |-> s, control |-> Control[s],
   pcm |-> IF PCM[s] \in roms THEN PCM[s] ELSE NoROM]

NoImages == [ok |-> FALSE, set |-> Any, control |-> NoROM, pcm |-> NoROM]

(* Any takes the first control ROM there is, with or without its PCM ROM.  *)
GetROMSet(roms, s) ==
  IF ~HaveROMSet(roms, s) \/ s = All THEN NoImages
  ELSE IF s # Any THEN Images(roms, s)
  ELSE Images(roms, CHOOSE r \in ROMSets :
                      /\ Control[r] \in roms
                      /\ \A q \in ROMSets : Control[q] \in roms => r <= q)

(* The kind of image that a file is found to be, if it is one.             *)
CheckROM(file) == {file} \cap Kinds

ScanROMs(roms, files) == roms \cup UNION {CheckROM(f) : f \in files}
=============================================================================
