------------------------------ MODULE MCBuffer ------------------------------
(***************************************************************************)
(* Buffer for TLC: packages of one and of two bytes, as two stations with  *)
(* different -p send them, each with ids that are multiples of its length. *)
(***************************************************************************)
EXTENDS Buffer

CONSTANTS
  LastId,  \* bound: largest first byte number of a message
  Sizes    \* package lengths on the air

PackageMessages ==
  {m \in [id : 0..LastId, size : Sizes] : m.id % m.size = 0}
=============================================================================
