--------------------------- MODULE MCStationMenu ----------------------------
(***************************************************************************)
(* StationMenu for TLC: three names, one of which two senders use; one of  *)
(* them has a run of spaces in it, which its reply does not keep.          *)
(***************************************************************************)
EXTENDS StationMenu

Jazz == <<"jazz">>
Rock == <<"rock", " ", "fm">>
Talk == <<"talk">>

ThreeNames == <<Jazz, Rock, Talk>>
FourSenders ==
  {[name |-> Jazz, address |-> "s1", mcast_addr |-> "m1", data_port |-> "p"],
   [name |-> Rock, address |-> "s2", mcast_addr |-> "m2", data_port |-> "p"],
   [name |-> <<"rock", " ", " ", "fm">>, address |-> "s3", mcast_addr |-> "m3",
    data_port |-> "p"],
   [name |-> Talk, address |-> "s4", mcast_addr |-> "m4", data_port |-> "p"]}
=============================================================================
