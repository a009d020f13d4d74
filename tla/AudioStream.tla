---------------------------- MODULE AudioStream -----------------------------
(***************************************************************************)
(* What the broadcast of a sender promises its listeners: the packages on  *)
(* the air are the packages read from the input, each once and in the      *)
(* order of the input, numbered by their first byte (src/README.md, "Data  *)
(* streaming protocol").  How long a package waits is left open, and so is *)
(* whether one that was read is ever aired.                                *)
(***************************************************************************)
EXTENDS Integers, Sequences

CONSTANTS
  PSIZE,      \* bytes in a package
  InputSize   \* bytes that the input holds

VARIABLES
  read,   \* packages read from the input so far
  aired   \* packages broadcast so far

\* A package holds the input's bytes from its first byte number on, as far as
\* the input goes; what fills up the last package is left open.
Holds(m) ==
  \A j \in 1..PSIZE : m.id + j <= InputSize => m.data[j] = m.id + j

Init == read = <<>> /\ aired = <<>>

\* The next package of the input has been read.
Read ==
  /\ Len(read') = Len(read) + 1
  /\ \A i \in 1..Len(read) : read'[i] = read[i]
  /\ read'[Len(read')].id = Len(read) * PSIZE
  /\ Holds(read'[Len(read')])
  /\ UNCHANGED aired

\* The oldest package that was not broadcast yet goes on the air.
Air ==
  /\ Len(aired) < Len(read)
  /\ aired' = Append(aired, read[Len(aired) + 1])
  /\ UNCHANGED read

Next == Read \/ Air

Spec == Init /\ [][Next]_<<read, aired>>
=============================================================================
