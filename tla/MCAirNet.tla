------------------------------- MODULE MCAirNet -------------------------------
(* Model checking of AirNet: three stations in a chain, the outer ones out   *)
(* of each other's range, so that their frames collide at the middle one.    *)
EXTENDS AirNet, TLC

CONSTANTS a, b, c, p1, big

MCStations == {a, b, c}
MCPayloads == {p1, big}
MCOversized == {big}
MCHears == {<<a, b>>, <<b, a>>, <<b, c>>, <<c, b>>}
MCKeyOf == (a :> 1) @@ (b :> 1) @@ (c :> 2)
MCQuota == (a :> 1) @@ (b :> 2) @@ (c :> 1)
==============================================================================
