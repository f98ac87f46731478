------------------------------- MODULE MCPipes -------------------------------
(* Small instances of Pipes for TLC: polls look at the second descriptor,  *)
(* where the first process has the reader of its first pipe.               *)
EXTENDS Pipes

Polled == {{2}}
===============================================================================
