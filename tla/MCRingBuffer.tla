---------------------------- MODULE MCRingBuffer ----------------------------
(* Two producers (an interrupt handler and another core) and the main task. *)
EXTENDS RingBuffer, TLC

CONSTANTS a, b, irq, core1, main

MCItem == {a, b}
MCProducers == {irq, core1}
MCConsumers == {main}
ItemSymmetry == Permutations(MCItem) \cup Permutations(MCProducers)
=============================================================================
