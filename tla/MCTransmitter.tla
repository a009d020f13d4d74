--------------------------- MODULE MCTransmitter ----------------------------
(***************************************************************************)
(* Transmitter for TLC.                                                    *)
(***************************************************************************)
EXTENDS Transmitter

CONSTANT RequestIds  \* bound: ids that are asked for

\* One id, or two different ones in either order.
ShortRequests ==
  {<<a>> : a \in RequestIds} \cup
  {<<p[1], p[2]>> : p \in {q \in RequestIds \X RequestIds : q[1] # q[2]}}
=============================================================================
