----------------------------- MODULE MCProcesses -----------------------------
(* Small instances of Processes for TLC.                                   *)
EXTENDS Processes

IntOneshot == {<<"INT", "oneshot">>}
NoSets == {}

(* A released process is never run again: what it was blocked in and its   *)
(* terminal are not read any more.  Its signals are (see sendSignal).      *)
View ==
  <<node, nprocs, ppid, running, exited, freed, unreported, queue, action, callbacks, loopVars, ttyVars,
    stopped, [p \in Proc |-> IF freed[p] THEN "none" ELSE restart[p]],
    [p \in Proc |-> ctty[p] /\ ~freed[p]]>>
==============================================================================
