---------------------------- MODULE MidiDisplay ----------------------------
(***************************************************************************)
(* What MIDI bytes do to the display: the parser makes messages of them,   *)
(* the MIDI monitor follows the notes for the level meters, and the user   *)
(* interface shows texts and bitmaps from SysEx messages among what else   *)
(* it is asked to show.  The three share no state but the calls between    *)
(* them, and each takes every call that may come: one of them is at work   *)
(* in a behaviour, since the product of all is out of reach.               *)
(***************************************************************************)
EXTENDS MidiParser, UserInterface, MidiMonitor

VARIABLE part       \* the one that is at work

DisplayVars == <<part, parser, UIVars, MonitorVars>>

DisplayTypeOK == TypeOK /\ UITypeOK /\ MonitorTypeOK

DisplayInit ==
  /\ part \in {"parser", "UI", "monitor"}
  /\ Init
  /\ UIInit /\ (part # "UI" => use = CHOOSE u \in Uses : TRUE)
  /\ MonitorInit /\ (part # "monitor" => sends = CHOOSE s \in Sends : TRUE)

Parsing == part = "parser" /\ Next /\ UNCHANGED <<part, UIVars, MonitorVars>>
Showing(A) == part = "UI" /\ A /\ UNCHANGED <<part, parser, MonitorVars>>
Metering(A) == part = "monitor" /\ A /\ UNCHANGED <<part, parser, UIVars>>

DisplayNext == Parsing \/ Showing(UINext) \/ Metering(MonitorNext)

(* Core 0 gets on with its call, core 1 with its turns, and time goes on.  *)
UIFairness == /\ WF_calls(Showing(Write \/ Request))
              /\ WF_pc(Showing(Turn))
              /\ SF_UIVars(Showing(Tick))

DisplaySpec == DisplayInit /\ [][DisplayNext]_DisplayVars /\ UIFairness
=============================================================================
