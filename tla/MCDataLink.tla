----------------------------- MODULE MCDataLink -----------------------------
(***************************************************************************)
(* DataLink for TLC: numbers of two bytes, a session whose id no swap of   *)
(* bytes leaves alone, a full package and one whose id needs both bytes.   *)
(***************************************************************************)
EXTENDS DataLink

TwoPackages ==
  {[session_id |-> 259, id |-> 0, data |-> <<7, 7>>],
   [session_id |-> 259, id |-> 512, data |-> <<8>>]}
=============================================================================
