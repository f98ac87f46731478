-------------------------------- MODULE Pipes --------------------------------
(***************************************************************************)
(* Pipes and file descriptor tables: PipeWriter and PipeReader of          *)
(* src/src/noopfs.js, the system calls that reach them (pipe, read, write, *)
(* poll, close, dup, dup2, fcntl64 in src/src/syscalls.js) and what clone  *)
(* and the release of a process do to them.                                *)
(*                                                                         *)
(* A system call runs to its end before anything else, so each is one      *)
(* action.  One that blocks leaves the process not running with the        *)
(* program counter on the call: when a callback makes it run again, the    *)
(* call is executed anew (`restart').  A descriptor is an index of         *)
(* fds[p] less one; the bytes of a pipe are numbered.                      *)
(***************************************************************************)
EXTENDS Integers, Sequences, FiniteSets

CONSTANTS
  MaxProc,    \* bound: processes ever created
  MaxPipe,    \* bound: pipes ever created
  MaxFds,     \* bound: length of a descriptor table
  MaxSent,    \* bound: bytes ever written to one pipe
  Terminals,  \* descriptors that the first process starts with
  ReadSizes,  \* bound: lengths that reads ask for
  PollSets    \* bound: sets of descriptors that polls ask for

Proc == 1..MaxProc
Pipe == 1..MaxPipe
Closed == <<"closed">>    \* null, or a hole in the array
Terminal == <<"tty">>
Reader(k) == <<"reader", k>>
Writer(k) == <<"writer", k>>
File == {Closed, Terminal} \cup {Reader(k) : k \in Pipe} \cup {Writer(k) : k \in Pipe}
None == <<"none">>        \* no call to restart

ASSUME ConstantsAssumption ==
  /\ {MaxProc, MaxPipe, MaxFds, MaxSent} \subseteq Nat \ {0}
  /\ Terminals \in 0..MaxFds
  /\ ReadSizes \subseteq Nat \ {0}
  /\ PollSets \subseteq SUBSET (1..MaxFds)

VARIABLES
  fds,        \* fds[p], a sequence of files
  refs,       \* refs[k] of the writer of pipe k
  data,       \* data[k] of its reader: bytes not read yet
  callbacks,  \* readCallbacks[k]: the processes they set running
  npipes,     \* pipes created so far
  sent,       \* sent[k]: bytes written to pipe k so far
  nprocs,     \* processes.length
  life,       \* "unborn", "alive", "exited" (not released yet), "gone"
  running,    \* running[p]
  restart,    \* the blocked call that p executes when it runs next
  last,       \* what the latest read from a pipe returned
  thrown      \* an Error ended the emulator
pipeVars == <<refs, data, callbacks, npipes, sent>>
procVars == <<nprocs, life, running>>
vars == <<fds, pipeVars, procVars, restart, last, thrown>>

Holding(p) == life[p] \in {"alive", "exited"}
Slots(p) == DOMAIN fds[p]
FileAt(p, i) == IF i \in Slots(p) THEN fds[p][i] ELSE Closed
Ends(p, file) == Cardinality({i \in Slots(p) : fds[p][i] = file})

Init ==
  /\ fds = [p \in Proc |-> IF p = 1 THEN [i \in 1..Terminals |-> Terminal] ELSE <<>>]
  /\ refs = [k \in Pipe |-> 0]
  /\ data = [k \in Pipe |-> <<>>]
  /\ callbacks = [k \in Pipe |-> {}]
  /\ npipes = 0
  /\ sent = [k \in Pipe |-> 0]
  /\ nprocs = 1
  /\ life = [p \in Proc |-> IF p = 1 THEN "alive" ELSE "unborn"]
  /\ running = [p \in Proc |-> p = 1]
  /\ restart = [p \in Proc |-> None]
  /\ last = <<0>>
  /\ thrown = FALSE

-----------------------------------------------------------------------------
(* PipeWriter.                                                             *)

CalledFirst(ks) ==             \* mutant: one reader of each pipe is woken
  /\ running' = [p \in Proc |->
       running[p] \/ \E k \in ks : p \in callbacks[k] /\ \A q \in callbacks[k] : p <= q]
  /\ callbacks' = [k \in Pipe |-> IF k \in ks THEN {} ELSE callbacks[k]]
(* The callbacks of the pipes in ks run, and are gone.                     *)
Called(ks) ==
  /\ running' = [p \in Proc |-> running[p] \/ \E k \in ks : p \in callbacks[k]]
  /\ callbacks' = [k \in Pipe |-> IF k \in ks THEN {} ELSE callbacks[k]]

WritersClosedSilently(n) ==    \* mutant: the last close calls nobody
  refs' = [k \in Pipe |-> refs[k] - n[k]] /\ UNCHANGED <<running, callbacks>>
(* close, n[k] times for every writer k; the last one calls the readers.   *)
WritersClosed(n) ==
  /\ refs' = [k \in Pipe |-> refs[k] - n[k]]
  /\ Called({k \in Pipe : n[k] > 0 /\ refs[k] = n[k]})

CloseOf(file) == [k \in Pipe |-> IF file = Writer(k) THEN 1 ELSE 0]

DuplicatedUncounted(file, closed) ==   \* mutant: no refs++
  /\ refs' = [k \in Pipe |-> refs[k] - (IF closed = Writer(k) THEN 1 ELSE 0)]
  /\ Called({k \in Pipe : closed = Writer(k) /\ refs[k] = 1})
(* refs++ (on a reader or a terminal it is a number nobody reads).         *)
Duplicated(file, closed) ==
  /\ refs' = [k \in Pipe |-> refs[k] + (IF file = Writer(k) THEN 1 ELSE 0)
                                     - (IF closed = Writer(k) THEN 1 ELSE 0)]
  /\ Called({k \in Pipe : closed = Writer(k) /\ refs[k] = 1})

-----------------------------------------------------------------------------
(* PipeReader.read: how many bytes are there for a read of n, if it does   *)
(* not block.                                                              *)
BlocksForTwo(k, n) ==          \* mutant: off by one in the writers left
  Len(data[k]) < n /\ refs[k] > 1 /\ data[k] = <<>>
Blocks(k, n) == Len(data[k]) < n /\ refs[k] # 0 /\ data[k] = <<>>
Returned(k, n) == IF Len(data[k]) >= n THEN n ELSE Len(data[k])

Read(p, i, n) ==
  \E k \in Pipe :
    /\ FileAt(p, i) = Reader(k)
    /\ \/ /\ Blocks(k, n)
          /\ callbacks' = [callbacks EXCEPT ![k] = @ \cup {p}]
          /\ running' = [running EXCEPT ![p] = FALSE]
          /\ restart' = [restart EXCEPT ![p] = <<"read", i, n>>]
          /\ UNCHANGED <<data, last>>
       \/ /\ ~Blocks(k, n)
          /\ last' = SubSeq(data[k], 1, Returned(k, n))
          /\ data' = [data EXCEPT ![k] = SubSeq(@, Returned(k, n) + 1, Len(@))]
          /\ restart' = [restart EXCEPT ![p] = None]
          /\ UNCHANGED <<callbacks, running>>
    /\ UNCHANGED <<fds, refs, npipes, sent, nprocs, life, thrown>>

(* sys_poll for input on the readers at the descriptors is.  Every one of  *)
(* them that has nothing registers a callback, and stops the process; the  *)
(* call undoes that when it has something to return.  At the end of a pipe *)
(* there is no input to report: if no descriptor stops the process, -EAGAIN*)
(* is what poll returns.  With a timeout a timer is set each time (Wake).  *)
Poll(p, is, timeout) ==
  LET asked == {k \in Pipe : \E i \in is : FileAt(p, i) = Reader(k)}
      empty == {k \in asked : Blocks(k, 1)}
      ready == {k \in asked : ~Blocks(k, 1) /\ Returned(k, 1) > 0}
      sleeps == ready = {} /\ timeout /\ empty # {}
  IN /\ asked # {}
     /\ callbacks' = [k \in Pipe |-> IF k \in empty THEN callbacks[k] \cup {p} ELSE callbacks[k]]
     /\ running' = [running EXCEPT ![p] = ~sleeps]
     /\ restart' = [restart EXCEPT ![p] = IF sleeps THEN <<"poll", is, timeout>> ELSE None]
     /\ UNCHANGED <<fds, refs, data, npipes, sent, nprocs, life, last, thrown>>

Write(p, i, n) ==
  \E k \in Pipe :
    /\ FileAt(p, i) = Writer(k) /\ sent[k] + n <= MaxSent
    /\ data' = [data EXCEPT ![k] = @ \o [b \in 1..n |-> sent[k] + b]]
    /\ sent' = [sent EXCEPT ![k] = @ + n]
    /\ Called({k})
    /\ UNCHANGED <<fds, refs, npipes, nprocs, life, restart, last, thrown>>

(* A reader has no write and a writer no read: a TypeError ends the        *)
(* emulator, and with it everything but what the pipes held.               *)
WrongEnd(p, i) ==
  /\ FileAt(p, i) \notin {Closed, Terminal}
  /\ thrown' = TRUE
  /\ fds' = [q \in Proc |-> <<>>]
  /\ refs' = [k \in Pipe |-> 0]
  /\ callbacks' = [k \in Pipe |-> {}]
  /\ life' = [q \in Proc |-> IF life[q] = "unborn" THEN "unborn" ELSE "gone"]
  /\ running' = [q \in Proc |-> FALSE]
  /\ restart' = [q \in Proc |-> None]
  /\ UNCHANGED <<data, npipes, sent, nprocs, last>>

-----------------------------------------------------------------------------
(* Descriptors.                                                            *)
CreatePipe(p) ==
  LET k == npipes + 1
  IN /\ k \in Pipe /\ Len(fds[p]) + 2 <= MaxFds
     /\ npipes' = k
     /\ refs' = [refs EXCEPT ![k] = 1]
     /\ fds' = [fds EXCEPT ![p] = @ \o <<Writer(k), Reader(k)>>]
     /\ UNCHANGED <<data, callbacks, sent, procVars, restart, last, thrown>>

Close(p, i) ==
  /\ FileAt(p, i) # Closed
  /\ WritersClosed(CloseOf(fds[p][i]))
  /\ fds' = [fds EXCEPT ![p][i] = Closed]
  /\ UNCHANGED <<data, npipes, sent, nprocs, life, restart, last, thrown>>

Dup(p, i) ==
  /\ FileAt(p, i) # Closed /\ Len(fds[p]) < MaxFds
  /\ Duplicated(fds[p][i], Closed)
  /\ fds' = [fds EXCEPT ![p] = Append(@, fds[p][i])]
  /\ UNCHANGED <<data, npipes, sent, nprocs, life, restart, last, thrown>>

(* Storing beyond the end of the array leaves holes.                       *)
Stored(files, i, file) ==
  [j \in 1..(IF i > Len(files) THEN i ELSE Len(files)) |->
     CASE j = i -> file
       [] j # i /\ j \in DOMAIN files -> files[j]
       [] OTHER -> Closed]

Dup2(p, i, j) ==
  /\ i # j /\ FileAt(p, i) # Closed
  /\ Duplicated(fds[p][i], FileAt(p, j))
  /\ fds' = [fds EXCEPT ![p] = Stored(@, j, fds[p][i])]
  /\ UNCHANGED <<data, npipes, sent, nprocs, life, restart, last, thrown>>

(* fcntl64(F_DUPFD): the first free descriptor from `low' on.              *)
DupFrom(p, i, low) ==
  /\ FileAt(p, i) # Closed
  /\ \E j \in low..MaxFds :
       /\ FileAt(p, j) = Closed /\ \A f \in low..(j - 1) : FileAt(p, f) # Closed
       /\ fds' = [fds EXCEPT ![p] = Stored(@, j, fds[p][i])]
  /\ Duplicated(fds[p][i], Closed)
  /\ UNCHANGED <<data, npipes, sent, nprocs, life, restart, last, thrown>>

-----------------------------------------------------------------------------
(* Processes.                                                              *)
ClonedOnce(p) == [k \in Pipe |-> IF Ends(p, Writer(k)) > 0 THEN 1 ELSE 0]   \* mutant: once per pipe
Cloned(p) == [k \in Pipe |-> Ends(p, Writer(k))]

Clone(p) ==
  LET q == nprocs + 1
  IN /\ q \in Proc
     /\ nprocs' = q
     /\ life' = [life EXCEPT ![q] = "alive"]
     /\ running' = [running EXCEPT ![q] = TRUE]
     /\ fds' = [fds EXCEPT ![q] = fds[p]]
     /\ refs' = [k \in Pipe |-> refs[k] + Cloned(p)[k]]
     /\ UNCHANGED <<data, callbacks, npipes, sent, restart, last, thrown>>

Exit(p) ==
  /\ life' = [life EXCEPT ![p] = "exited"]
  /\ running' = [running EXCEPT ![p] = FALSE]
  /\ UNCHANGED <<fds, pipeVars, nprocs, restart, last, thrown>>

(* A fatal signal, from a terminal; the release may come much later.       *)
Kill(p) == life[p] = "alive" /\ Exit(p)

(* A signal that does not kill, or the timer of a poll, sets p running.    *)
Wake(p) ==
  /\ life[p] = "alive" /\ ~running[p]
  /\ running' = [running EXCEPT ![p] = TRUE]
  /\ UNCHANGED <<fds, pipeVars, nprocs, life, restart, last, thrown>>

(* myLoop releases an exited process: closeFds.  Nothing reads its fds     *)
(* again, nor runs the call it was blocked in.                             *)
Release(p) ==
  /\ life[p] = "exited"
  /\ life' = [life EXCEPT ![p] = "gone"]
  /\ WritersClosed([k \in Pipe |-> Ends(p, Writer(k))])
  /\ fds' = [fds EXCEPT ![p] = <<>>]
  /\ restart' = [restart EXCEPT ![p] = None]
  /\ UNCHANGED <<data, npipes, sent, nprocs, last, thrown>>

-----------------------------------------------------------------------------
Fd == 1..MaxFds

(* The call that blocked runs again, as runInstLoop left the pc on it.     *)
Restart(p) ==
  \/ \E i \in Fd, n \in ReadSizes : restart[p] = <<"read", i, n>> /\ Read(p, i, n)
  \/ \E is \in PollSets : restart[p] = <<"poll", is, TRUE>> /\ Poll(p, is, TRUE)

Call(p) ==
  \/ \E i \in Fd, n \in ReadSizes : Read(p, i, n)
  \/ \E is \in PollSets, timeout \in BOOLEAN : Poll(p, is, timeout)
  \/ \E i \in Fd, n \in 1..MaxSent : Write(p, i, n)
  \/ \E i \in Fd : WrongEnd(p, i) \/ Close(p, i) \/ Dup(p, i)
  \/ \E i, j \in Fd : Dup2(p, i, j) \/ DupFrom(p, i, j)
  \/ CreatePipe(p)
  \/ Clone(p)
  \/ Exit(p)

(* runInstLoop runs a process that is set running, even if a signal ended  *)
(* it meanwhile: nothing but its release takes it from the loop.           *)
Runs(p) == Holding(p) /\ running[p]
Resume(p) == Runs(p) /\ restart[p] # None /\ Restart(p)
Step(p) == Runs(p) /\ restart[p] = None /\ Call(p)

Next ==
  /\ ~thrown
  /\ \E p \in Proc : Step(p) \/ Resume(p) \/ Kill(p) \/ Wake(p) \/ Release(p)

(* myLoop visits every process, and restarts while one is running: a       *)
(* restarted call runs, and an exited process is released.                 *)
Fairness == \A p \in Proc : WF_vars(~thrown /\ Resume(p)) /\ WF_vars(~thrown /\ Release(p))
Spec == Init /\ [][Next]_vars /\ Fairness

-----------------------------------------------------------------------------
TypeOK ==
  /\ fds \in [Proc -> Seq(File)] /\ \A p \in Proc : Len(fds[p]) <= MaxFds
  /\ refs \in [Pipe -> 0..(MaxProc * MaxFds)]
  /\ callbacks \in [Pipe -> SUBSET Proc]
  /\ npipes \in 0..MaxPipe /\ nprocs \in Proc
  /\ sent \in [Pipe -> 0..MaxSent]
  /\ data \in [Pipe -> Seq(1..MaxSent)]
  /\ life \in [Proc -> {"unborn", "alive", "exited", "gone"}]
  /\ running \in [Proc -> BOOLEAN] /\ thrown \in BOOLEAN
  /\ restart \in [Proc -> {None} \cup ({"read"} \X Fd \X ReadSizes) \cup ({"poll"} \X PollSets \X {TRUE})]

Holders(k) == {h \in Proc \X Fd : Holding(h[1]) /\ FileAt(h[1], h[2]) = Writer(k)}

(* PipeWriter.refs is the number of descriptors of all processes that are  *)
(* the writer, over pipe, dup, dup2, fcntl, clone, close and exit.  So the *)
(* Error "closing pipe which is already dead" is unreachable.              *)
WriterRefsExact == \A k \in Pipe : refs[k] = Cardinality(Holders(k))

(* "Resume the process once data is available" (noopfs.js:64): whoever     *)
(* sleeps in a read or in a poll waits for pipes that are empty but can    *)
(* still be written, and all of these will call it.                        *)
SleepersAreCalled ==
  \A p \in Proc : life[p] = "alive" /\ ~running[p] =>
    LET is == IF restart[p][1] = "read" THEN {restart[p][2]} ELSE restart[p][2]
        asked == {k \in Pipe : \E i \in is : FileAt(p, i) = Reader(k)}
    IN /\ restart[p] # None
       /\ \A k \in asked : data[k] = <<>> /\ (refs[k] > 0 => p \in callbacks[k])
       /\ \E k \in asked : refs[k] > 0

(* A reader whose last writer goes away gets what is left or end of file,  *)
(* in whatever order writers exit, are killed or close.                    *)
ReaderReturns ==
  \A p \in Proc, k \in Pipe :
    (/\ Holding(p) /\ restart[p][1] = "read" /\ FileAt(p, restart[p][2]) = Reader(k) /\ refs[k] = 0)
      ~> (restart[p] = None \/ life[p] = "gone" \/ thrown)

(* The code implements channels: no byte is lost, repeated or reordered    *)
(* whoever reads, and a read returns end of file only when the bytes are   *)
(* read and no process holds a write end.                                  *)
Writable == {k \in Pipe : \E p \in Proc : Holding(p) /\ \E i \in Slots(p) : fds[p][i] = Writer(k)}
Channel == INSTANCE Channels WITH
  contents <- data,
  open <- Writable,
  Chunk <- UNION {[1..n -> 1..MaxSent] : n \in 1..MaxSent}
DeliversInOrder == Channel!Spec
===============================================================================
