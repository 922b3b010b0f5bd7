---------------------------- MODULE MCSketchNode ----------------------------
(* Model checking of SketchNode: one board that sends one kind of packet     *)
(* and receives up to MaxPackets.                                            *)
EXTENDS SketchNode

CONSTANTS s1, p1

MCStations == {s1}
MCPayloads == {p1}
MCOversized == {}
==============================================================================
