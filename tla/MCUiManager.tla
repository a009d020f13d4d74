---------------------------- MODULE MCUiManager -----------------------------
(***************************************************************************)
(* UiManager for TLC: more clients than slots, and two menus.              *)
(***************************************************************************)
EXTENDS UiManager

CONSTANTS c1, c2, c3, m1, m2

ThreeClients == {c1, c2, c3}
TwoMenus     == {m1, m2}
=============================================================================
