------------------------------ MODULE MCRexmit ------------------------------
(***************************************************************************)
(* Rexmit for TLC: packages of one byte.                                   *)
(***************************************************************************)
EXTENDS Rexmit

CONSTANT LastId  \* bound: largest first byte number of a message

ByteMessages == [id : 0..LastId, size : {1}]
=============================================================================
