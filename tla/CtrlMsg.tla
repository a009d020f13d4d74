------------------------------- MODULE CtrlMsg ------------------------------
(***************************************************************************)
(* Control messages (src/common/ctrl_msg.hpp): the text of a request for   *)
(* retransmission and of a station's reply, and what the other side reads  *)
(* back from it.  A text is a sequence of words and separators; numbers    *)
(* and addresses are single words.                                         *)
(***************************************************************************)
EXTENDS Integers, Sequences, SequencesExt

\* The numbers of a finite set in the order in which an std::set goes through them.
Ascending(numbers) ==
  CHOOSE seq \in [1..Cardinality(numbers) -> numbers] :
    \A i, j \in DOMAIN seq : i < j => seq[i] < seq[j]

\* LOUDER_PLEASE with the ids of an std::set: each id with the separator before
\* it, the key's own space before the first.
make_rexmit(ids) ==
  LET sorted == Ascending(ids)
  IN  [i \in DOMAIN sorted |->
         [before |-> IF i = 1 THEN " " ELSE ",", id |-> sorted[i]]]

\* Numbers are found by the comma before them, from the left.
FoundIds(searchable) ==
  LET found == Ascending({i \in DOMAIN searchable : searchable[i].before = ","})
  IN  [i \in DOMAIN found |-> searchable[found[i]].id]

\* Mutant of get_rexmit_ids: no comma in place of the key's space.
get_rexmit_ids_after_comma(msg) == FoundIds(msg)

\* The key's space becomes a comma, so that the first number has one as well.
get_rexmit_ids(msg) ==
  FoundIds([i \in DOMAIN msg |-> IF i = 1 THEN [msg[i] EXCEPT !.before = ","] ELSE msg[i]])

\* A station's name is a sequence of words and single spaces between, before
\* or after them; a run of spaces is several of these.
make_reply(name, mcast_addr, data_port) ==
  <<"BOREWICZ_HERE", " ", mcast_addr, " ", data_port, " ">> \o name \o <<"\n">>

IsWord(token) == token \notin {" ", "\n"}

\* The regular expression finds every word behind a space.
Words(msg) == SelectSeq(Tail(msg), IsWord)

\* Words joined by one space each.
Joined(words) ==
  [i \in 1..(2 * Len(words) - 1) |-> IF i % 2 = 1 THEN words[(i + 1) \div 2] ELSE " "]

\* Address, port and name.  The third word is read whether there is one or not.
get_reply_data(msg) ==
  LET words == Words(msg)
  IN  [data_address |-> words[1], data_port |-> words[2],
       name |-> Joined(SubSeq(words, 3, Len(words)))]
=============================================================================
