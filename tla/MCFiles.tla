------------------------------- MODULE MCFiles -------------------------------
(* A small instance of Files for TLC.                                      *)
EXTENDS Files

ImageBytes == <<1>>
LabelBytes == <<2>>
Texts == {<<>>, <<0, 1>>}
Distances == {-1, 2}

(* Which number an object has does not matter, but which descriptors share *)
(* it (only of one process, see FilesProofs); after an Error               *)
(* nothing happens.                                                        *)
Shape(p) ==
  [i \in Slots(p) |->
     IF ~IsOpen(p, i) THEN <<NoHandle>>
     ELSE <<file[fds[p][i]], pos[fds[p][i]], {j \in Slots(p) : fds[p][j] = fds[p][i]}>>]
View ==
  IF thrown THEN <<thrown, data>> ELSE <<nodeVars, live, [p \in Proc |-> Shape(p)]>>
==============================================================================
