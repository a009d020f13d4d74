----------------------------- MODULE MCPlayback -----------------------------
(* Two senders, of one station each, for the receiver's threads. *)
EXTENDS Playback

CONSTANTS a, b

ABStations == {a, b}
ABSenders  == <<a, b>>
OneSelector  == {"ui_handler"}
BothSelectors == {"ctrl_receiver", "ui_handler"}
=============================================================================
