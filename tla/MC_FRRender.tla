---------------------------- MODULE MC_FRRender ----------------------------
(***************************************************************************)
(* An instance of FRRender with a plain dictionary, one with VRF protocols *)
(* and one that cannot be rendered, and two DHCP gateways.                 *)
(***************************************************************************)
EXTENDS FRRender

CONSTANTS plain, vrf, bad, gw1, gw2

MCDicts == {plain, vrf, bad}
MCVrfDicts == {vrf}
MCBadDicts == {bad}
MCGateways == {gw1, gw2}
=============================================================================
