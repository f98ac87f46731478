------------------------------- MODULE Channels -------------------------------
(***************************************************************************)
(* What the pipes of src/src/noopfs.js promise, without reference counts,  *)
(* callbacks or blocked processes: a pipe delivers the bytes written to it *)
(* once and in order, and its end only when they are all read and nobody   *)
(* can write any more.                                                     *)
(***************************************************************************)
EXTENDS Naturals, Sequences

CONSTANTS Pipe, Chunk   \* Chunk: what one write may carry

VARIABLES
  contents,   \* contents[k]: bytes written to pipe k and not read
  open,       \* the pipes that somebody can still write to
  last        \* what the latest read returned, <<>> is end of file

Init ==
  /\ contents = [k \in Pipe |-> <<>>]
  /\ open = {}
  /\ last = <<0>>

Create(k) ==
  /\ k \notin open /\ contents[k] = <<>>
  /\ open' = open \cup {k}
  /\ UNCHANGED <<contents, last>>

Put(k) ==
  /\ k \in open
  /\ \E bytes \in Chunk : contents' = [contents EXCEPT ![k] = @ \o bytes]
  /\ UNCHANGED <<open, last>>

Get(k) ==
  /\ \E n \in 1..Len(contents[k]) :
       /\ last' = SubSeq(contents[k], 1, n)
       /\ contents' = [contents EXCEPT ![k] = SubSeq(@, n + 1, Len(@))]
  /\ UNCHANGED open

EndOfFile(k) ==
  /\ contents[k] = <<>> /\ k \notin open
  /\ last' = <<>>
  /\ UNCHANGED <<contents, open>>

(* Closing descriptors ends the writing of any number of pipes.            *)
Close == open' \subseteq open /\ UNCHANGED <<contents, last>>

Next ==
  \/ \E k \in Pipe : Create(k) \/ Put(k) \/ Get(k) \/ EndOfFile(k)
  \/ Close

Spec == Init /\ [][Next]_<<contents, open, last>>
===============================================================================
