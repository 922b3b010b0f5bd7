----------------------------- MODULE MCLinkLayer -----------------------------
(* Model checking of LinkLayer: two boards, two packets that fit and one     *)
(* that is longer than max_payload().                                        *)
EXTENDS LinkLayer, TLC

CONSTANTS s1, s2, p1, p2, big

MCStations == {s1, s2}
MCPayloads == {p1, p2, big}
MCOversized == {big}
==============================================================================
