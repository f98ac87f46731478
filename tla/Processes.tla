------------------------------ MODULE Processes ------------------------------
(***************************************************************************)
(* The scheduler and the life of a process: myLoop and wakeup of           *)
(* src/src/startup.js, signals and exits in src/src/process.js, the calls  *)
(* clone, execve, exit, waitpid, rt_sigaction, setsid and TIOCSPGRP of     *)
(* src/src/syscalls.js, and the terminal that signals and resumes          *)
(* processes (src/src/tty.js, src/src/noopfs.js).                          *)
(*                                                                         *)
(* myLoop runs one process after the other; `turn' is the one it visits,   *)
(* 0 between two runs of the loop, and `inside' says that it is inside     *)
(* runInstLoop.  Timers and input are handled between two runs only.  A    *)
(* call that blocks is executed anew (`restart') when the process runs     *)
(* again, unless a signal handler took its place: sigreturn does not exist.*)
(* SIGINT, from the terminal, and SIGCHLD stand for all signals.           *)
(***************************************************************************)
EXTENDS Integers, FiniteSets, Sequences

CONSTANTS
  Hosts,     \* bound: where it may run, TRUE for Node and FALSE for a browser
  MaxProc,   \* bound: processes ever created
  MaxTyped,  \* bound: characters ever typed
  Sets,      \* bound: <<signal, action>> that rt_sigaction sets
  Groups     \* bound: numbers that TIOCSPGRP sets, 0 for all that are no process

Proc == 1..MaxProc
Signal == {"INT", "CHLD"}
Act == {"default", "ignore", "handler", "oneshot"}
Char == {"key", "intr"}

ASSUME ConstantsAssumption ==
  /\ Hosts \in SUBSET BOOLEAN \ {{}} /\ MaxProc \in Nat \ {0} /\ MaxTyped \in Nat
  /\ Sets \subseteq Signal \X Act /\ Groups \subseteq 0..MaxProc

VARIABLES
  node,       \* it runs under Node, not in a browser
  nprocs,     \* processes.length
  ppid,
  running,
  exited,
  freed,      \* pagemapPage = 0: released by myLoop
  unreported, \* exitCode # 'x'
  queue,      \* signalQueue, where no signal is twice
  action,     \* signalactions[...].sa_handler, SA_ONESHOT
  callbacks,  \* exitCallbacks[p]: the processes they set running
  restart,    \* the call that p is blocked in, or "none"
  ctty,       \* pinfo.tty is the terminal, and so is the session's
  turn, inside, busy, timer,    \* myLoop
  pgrp,       \* of the terminal
  stream,     \* characters that the terminal has not processed (browser)
  keys,       \* TTY.data: how many are there to read
  listeners,  \* the processes that the next input sets running
  ended,      \* of the stream
  typed,
  stopped     \* "no", "halted" or "thrown"
loopVars == <<turn, inside, busy, timer>>
ttyVars == <<pgrp, stream, keys, listeners, ended, typed>>
vars == <<node, nprocs, ppid, running, exited, freed, unreported, queue, action, callbacks,
          restart, ctty, loopVars, ttyVars, stopped>>

Init ==
  /\ node \in Hosts
  /\ nprocs = 1 /\ ppid = [p \in Proc |-> 0]
  /\ running = [p \in Proc |-> p = 1]
  /\ exited = [p \in Proc |-> FALSE] /\ freed = [p \in Proc |-> FALSE]
  /\ unreported = [p \in Proc |-> TRUE]
  /\ queue = [p \in Proc |-> {}]
  /\ action = [p \in Proc |-> [s \in Signal |-> "default"]]
  /\ callbacks = [p \in Proc |-> {}]
  /\ restart = [p \in Proc |-> "none"]
  /\ ctty = [p \in Proc |-> p = 1]
  /\ turn = 1 /\ inside = FALSE /\ busy = FALSE /\ timer = FALSE
  /\ pgrp = 1 /\ stream = <<>> /\ keys = 0 /\ listeners = {} /\ ended = FALSE /\ typed = 0
  /\ stopped = "no"

-----------------------------------------------------------------------------
(* sendSignal(q, s): a duplicate is dropped; SIGINT is fatal by default.   *)
New(q, s) == s \notin queue[q]
Fatal(q, s) == s = "INT" /\ action[q][s] = "default"

WakesSilently(q, s) == FALSE   \* mutant: wakeup() is not called
Wakes(q, s) == New(q, s) /\ ~Fatal(q, s)
Kills(q, s) == New(q, s) /\ Fatal(q, s)

RunsAlready(q, s) == running[q] /\ ~Kills(q, s)   \* mutant: running is not set
RunsAfter(q, s) == IF New(q, s) THEN ~Fatal(q, s) ELSE running[q]

Sent(q, s) ==
  /\ queue' = [queue EXCEPT ![q] = @ \cup {s}]
  /\ exited' = [exited EXCEPT ![q] = @ \/ Kills(q, s)]
  /\ unreported' = [unreported EXCEPT ![q] = @ \/ Kills(q, s)]

(* handleSignal: a handler abandons the call that was interrupted.         *)
HasHandler(p, s) == action[p][s] \in {"handler", "oneshot"}
AfterHandling(p, signals) ==
  [action EXCEPT ![p] = [s \in Signal |->
     IF s \in signals /\ @[s] = "oneshot" THEN "default" ELSE @[s]]]

-----------------------------------------------------------------------------
(* myLoop.                                                                 *)
StartLoop ==
  /\ turn = 0 /\ timer
  /\ turn' = 1 /\ timer' = FALSE
  /\ UNCHANGED <<nprocs, ppid, running, exited, freed, unreported, queue, action, callbacks,
                 restart, ctty, inside, busy, ttyVars, stopped>>

(* runInstLoop handles the signals first.                                  *)
Enter(p) ==
  /\ turn = p /\ ~inside /\ running[p] /\ ~freed[p]
  /\ inside' = TRUE
  /\ queue' = [queue EXCEPT ![p] = {}]
  /\ action' = AfterHandling(p, queue[p])
  /\ restart' = [restart EXCEPT ![p] = IF \E s \in queue[p] : HasHandler(p, s) THEN "none" ELSE @]
  /\ UNCHANGED <<nprocs, ppid, running, exited, freed, unreported, callbacks, ctty, turn, busy,
                 timer, ttyVars, stopped>>

(* The release of p: exitCallbacks, then exit_notify.                      *)
NotifiesNew(p) == ppid[p] # 0 /\ Wakes(ppid[p], "CHLD")
WokenByNobody(p) == {}         \* mutant: callbacks and SIGCHLD are lost
WokenBy(p) == callbacks[p] \cup (IF NotifiesNew(p) THEN {ppid[p]} ELSE {})
Notified(p) == IF ppid[p] = 0 THEN queue ELSE [queue EXCEPT ![ppid[p]] = @ \cup {"CHLD"}]

RearmedIfBusy(any) == any      \* mutant: as in a browser
Rearmed(any) == node \/ any

LastTooLate(p) == p > nprocs   \* mutant: off by one
LastTooEarly(p) == p + 1 >= nprocs   \* mutant: off by one the other way
Last(p) == p = nprocs

(* The visit of p ends: it does not run, or its quantum of instructions is *)
(* over; an exited process is released.  The release of the first process  *)
(* halts the machine: under Node the program, else just this run.          *)
Leave(p) ==
  LET releases == exited[p] /\ ~freed[p]
      woken == IF releases THEN WokenBy(p) ELSE {}
      isBusy == busy \/ (running[p] /\ ~freed[p])
      halts == releases /\ p = 1
      over == halts \/ Last(p)
  IN /\ turn = p
     /\ freed[p] \/ ~running[p] \/ (inside /\ restart[p] = "none")
     /\ inside' = FALSE
     /\ freed' = [freed EXCEPT ![p] = @ \/ releases]
     /\ running' = [q \in Proc |-> running[q] \/ q \in woken]
     /\ queue' = IF releases THEN Notified(p) ELSE queue
     /\ callbacks' = IF releases THEN [callbacks EXCEPT ![p] = {}] ELSE callbacks
     /\ turn' = IF over THEN 0 ELSE p + 1
     /\ busy' = (isBusy /\ ~over)
     /\ timer' = CASE halts -> FALSE
                   [] ~halts /\ over -> timer \/ woken # {} \/ Rearmed(isBusy)
                   [] OTHER -> timer \/ woken # {}
     /\ stopped' = IF halts /\ node THEN "halted" ELSE stopped
     /\ UNCHANGED <<nprocs, ppid, exited, unreported, action, restart, ctty, ttyVars>>

-----------------------------------------------------------------------------
(* Calls of the process inside runInstLoop.                                *)
Clone(p) ==
  LET q == nprocs + 1
  IN /\ q \in Proc
     /\ nprocs' = q
     /\ ppid' = [ppid EXCEPT ![q] = p]
     /\ running' = [running EXCEPT ![q] = TRUE]
     /\ action' = [action EXCEPT ![q] = action[p]]
     /\ ctty' = [ctty EXCEPT ![q] = ctty[p]]
     /\ UNCHANGED <<exited, freed, unreported, queue, callbacks, restart, loopVars, ttyVars, stopped>>

(* initMemory resets signalactions and pinfo, with the terminal in it.     *)
Exec(p) ==
  /\ action' = [action EXCEPT ![p] = [s \in Signal |-> "default"]]
  /\ ctty' = [ctty EXCEPT ![p] = FALSE]
  /\ UNCHANGED <<nprocs, ppid, running, exited, freed, unreported, queue, callbacks, restart,
                 loopVars, ttyVars, stopped>>

Exit(p) ==
  /\ exited' = [exited EXCEPT ![p] = TRUE]
  /\ unreported' = [unreported EXCEPT ![p] = TRUE]
  /\ running' = [running EXCEPT ![p] = FALSE]
  /\ UNCHANGED <<nprocs, ppid, freed, queue, action, callbacks, restart, ctty, loopVars, ttyVars,
                 stopped>>

Sigaction(p, s, act) ==
  /\ action' = [action EXCEPT ![p][s] = act]
  /\ UNCHANGED <<nprocs, ppid, running, exited, freed, unreported, queue, callbacks, restart, ctty,
                 loopVars, ttyVars, stopped>>

(* The first process is a session leader until it executes an image, which *)
(* takes the terminal from it as well; other leaders have none.            *)
Setsid(p) ==
  /\ p # 1
  /\ ctty' = [ctty EXCEPT ![p] = FALSE]
  /\ UNCHANGED <<nprocs, ppid, running, exited, freed, unreported, queue, action, callbacks,
                 restart, loopVars, ttyVars, stopped>>

(* TIOCSPGRP takes any number.                                             *)
SetPgrp(p, g) ==
  /\ ctty[p] /\ pgrp' = g
  /\ UNCHANGED <<nprocs, ppid, running, exited, freed, unreported, queue, action, callbacks,
                 restart, ctty, loopVars, stream, keys, listeners, ended, typed, stopped>>

(* sys_waitpid looks from the youngest process to the oldest for a child   *)
(* to report, and leaves its callback with those still alive on the way.   *)
Children(p) == {c \in 2..nprocs : ppid[c] = p}
Reportable(p) == {c \in Children(p) : exited[c] /\ unreported[c]}
WatchedYoungest(p, younger) == {c \in younger : ~exited[c] /\ \A d \in younger : d <= c}  \* mutant
Watched(p, younger) == {c \in younger : ~exited[c]}
CalledBy(cs, p) == [c \in Proc |-> IF c \in cs THEN callbacks[c] \cup {p} ELSE callbacks[c]]

Waitpid(p, nohang) ==
  /\ \/ \E z \in Reportable(p) :
          /\ \A c \in Reportable(p) : c <= z
          /\ unreported' = [unreported EXCEPT ![z] = FALSE]
          /\ callbacks' = IF nohang THEN callbacks
                          ELSE CalledBy(Watched(p, {c \in Children(p) : c > z}), p)
          /\ restart' = [restart EXCEPT ![p] = "none"]
          /\ UNCHANGED running
     \/ /\ Reportable(p) = {}
        /\ nohang \/ Watched(p, Children(p)) = {}
        /\ restart' = [restart EXCEPT ![p] = "none"]
        /\ UNCHANGED <<unreported, callbacks, running>>
     \/ /\ Reportable(p) = {}
        /\ ~nohang /\ Watched(p, Children(p)) # {}
        /\ callbacks' = CalledBy(Watched(p, Children(p)), p)
        /\ running' = [running EXCEPT ![p] = FALSE]
        /\ restart' = [restart EXCEPT ![p] = "wait"]
        /\ UNCHANGED unreported
  /\ UNCHANGED <<nprocs, ppid, exited, freed, queue, action, ctty, loopVars, ttyVars, stopped>>

-----------------------------------------------------------------------------
(* The terminal.  update() processes characters: a key is queued, an INTR  *)
(* character sends SIGINT to processes[pgrp - 1].                          *)
KeysIn(chars) == Cardinality({i \in DOMAIN chars : chars[i] = "key"})
Interrupts(chars) == \E i \in DOMAIN chars : chars[i] = "intr"

(* StreamBackedFile's `waiting' keeps it from adding a second listener.    *)
RegisteredOnce(p) == IF listeners # {} THEN listeners ELSE {p}   \* mutant: in a browser too
Registered(p) == IF node /\ listeners # {} THEN listeners ELSE listeners \cup {p}

(* processes[pgrp - 1] does not exist: a TypeError.                        *)
NoLeader(chars) == Interrupts(chars) /\ pgrp \notin 1..nprocs
Thrown ==
  /\ stopped' = "thrown"
  /\ UNCHANGED <<nprocs, ppid, running, exited, freed, unreported, queue, action, callbacks,
                 restart, ctty, loopVars, ttyVars>>

(* Read of one or more of the keys there are.                              *)
ReadKeys(p) ==
  /\ keys > 0
  /\ \E n \in 1..keys : keys' = keys - n
  /\ restart' = [restart EXCEPT ![p] = "none"]
  /\ UNCHANGED <<nprocs, ppid, running, exited, freed, unreported, queue, action, callbacks, ctty,
                 loopVars, pgrp, stream, listeners, ended, typed, stopped>>

ReadBlocks(p) ==
  /\ keys = 0 /\ stream = <<>> /\ ~ended
  /\ listeners' = Registered(p)
  /\ running' = [running EXCEPT ![p] = FALSE]
  /\ restart' = [restart EXCEPT ![p] = "read"]
  /\ UNCHANGED <<nprocs, ppid, exited, freed, unreported, queue, action, callbacks, ctty, loopVars,
                 pgrp, stream, keys, ended, typed, stopped>>

(* End of file, or the characters of the stream are processed by the read, *)
(* which may find no key.  A signal to p itself is handled when it returns.*)
ReadUpdates(p) ==
  LET found == KeysIn(stream)
      own == pgrp = p /\ Wakes(p, "INT")
  IN /\ keys = 0 /\ (stream # <<>> \/ ended)
     /\ ~NoLeader(stream)
     /\ stream' = <<>>
     /\ \E n \in (IF found = 0 THEN {0} ELSE 1..found) : keys' = found - n
     /\ restart' = [restart EXCEPT ![p] = "none"]
     /\ IF Interrupts(stream)
        THEN /\ IF own THEN UNCHANGED <<queue, exited, unreported>> ELSE Sent(pgrp, "INT")
             /\ action' = IF own THEN AfterHandling(p, {"INT"}) ELSE action
             /\ running' = [running EXCEPT ![pgrp] = RunsAfter(pgrp, "INT")]
             /\ timer' = (timer \/ Wakes(pgrp, "INT"))
        ELSE UNCHANGED <<queue, exited, unreported, action, running, timer>>
     /\ UNCHANGED <<nprocs, ppid, freed, callbacks, ctty, turn, inside, busy, pgrp, listeners,
                    ended, typed, stopped>>

Read(p) ==
  ReadKeys(p) \/ ReadBlocks(p) \/ ReadUpdates(p) \/ (keys = 0 /\ NoLeader(stream) /\ Thrown)

(* Input arrives.  Under Node the terminal's own listener comes first.     *)
TypeNode(c) ==
  /\ node /\ ~ended /\ ~NoLeader(<<c>>)
  /\ keys' = keys + KeysIn(<<c>>)
  /\ IF c = "intr"
     THEN /\ Sent(pgrp, "INT")
          /\ running' = [p \in Proc |->
               p \in listeners \/ IF p = pgrp THEN RunsAfter(p, "INT") ELSE running[p]]
          /\ timer' = (timer \/ listeners # {} \/ Wakes(pgrp, "INT"))
     ELSE /\ running' = [p \in Proc |-> p \in listeners \/ running[p]]
          /\ timer' = (timer \/ listeners # {})
          /\ UNCHANGED <<queue, exited, unreported>>
  /\ listeners' = {}
  /\ UNCHANGED <<stream, ended>>

TypeBrowser(c) ==
  /\ ~node
  /\ stream' = Append(stream, c)
  /\ running' = [p \in Proc |-> p \in listeners \/ running[p]]
  /\ timer' = (timer \/ listeners # {})
  /\ listeners' = {}
  /\ UNCHANGED <<keys, ended, queue, exited, unreported>>

EndOfInput ==
  /\ node /\ ~ended /\ ended' = TRUE
  /\ running' = [p \in Proc |-> p \in listeners \/ running[p]]
  /\ timer' = (timer \/ listeners # {})
  /\ listeners' = {}
  /\ UNCHANGED <<keys, stream, queue, exited, unreported>>

Input ==
  /\ turn = 0 /\ typed < MaxTyped
  /\ \/ /\ EndOfInput \/ \E c \in Char : TypeNode(c) \/ TypeBrowser(c)
        /\ typed' = typed + 1
        /\ UNCHANGED <<nprocs, ppid, freed, action, callbacks, restart, ctty, turn, inside, busy,
                       pgrp, stopped>>
     \/ node /\ ~ended /\ NoLeader(<<"intr">>) /\ Thrown

-----------------------------------------------------------------------------
Running(p) == turn = p /\ inside /\ running[p]

Resume(p) ==
  /\ Running(p)
  /\ \/ restart[p] = "wait" /\ Waitpid(p, FALSE)
     \/ restart[p] = "read" /\ Read(p)

Call(p) ==
  /\ Running(p) /\ restart[p] = "none"
  /\ \/ Clone(p) \/ Exec(p) \/ Exit(p) \/ Setsid(p) \/ Read(p)
     \/ \E set \in Sets : Sigaction(p, set[1], set[2])
     \/ \E g \in Groups : SetPgrp(p, g)
     \/ \E nohang \in BOOLEAN : Waitpid(p, nohang)

Loop == UNCHANGED node /\ (StartLoop \/ \E p \in Proc : Enter(p) \/ Leave(p) \/ Resume(p))
Next == stopped = "no" /\ UNCHANGED node /\ (Loop \/ Input \/ \E p \in Proc : Call(p))

(* setTimeout fires, and a quantum is 500000 instructions.                 *)
Spec == Init /\ [][Next]_vars /\ WF_vars(stopped = "no" /\ Loop)

-----------------------------------------------------------------------------
TypeOK ==
  /\ node \in Hosts
  /\ nprocs \in Proc /\ ppid \in [Proc -> 0..MaxProc]
  /\ running \in [Proc -> BOOLEAN] /\ exited \in [Proc -> BOOLEAN]
  /\ freed \in [Proc -> BOOLEAN] /\ unreported \in [Proc -> BOOLEAN]
  /\ queue \in [Proc -> SUBSET Signal]
  /\ action \in [Proc -> [Signal -> Act]]
  /\ callbacks \in [Proc -> SUBSET Proc]
  /\ restart \in [Proc -> {"none", "wait", "read"}]
  /\ ctty \in [Proc -> BOOLEAN]
  /\ turn \in 0..nprocs
  /\ inside \in BOOLEAN /\ busy \in BOOLEAN /\ timer \in BOOLEAN /\ ended \in BOOLEAN
  /\ pgrp \in 0..MaxProc /\ stream \in Seq(Char) /\ keys \in 0..MaxTyped
  /\ listeners \subseteq 1..nprocs /\ typed \in 0..MaxTyped
  /\ stopped \in {"no", "halted", "thrown"}

Blocked(p, call) == p <= nprocs /\ ~exited[p] /\ ~running[p] /\ restart[p] = call

(* Whoever sleeps in waitpid left its callback with every child that is    *)
(* alive, and has a child whose release is still to come: whichever child  *)
(* goes next, the waiter is called.                                        *)
WaiterIsCalled ==
  \A p \in Proc : Blocked(p, "wait") =>
    /\ \A c \in Children(p) : exited[c] \/ p \in callbacks[c]
    /\ \E c \in Children(p) : ~freed[c]

(* "drop duplicate non-rt signals" (process.js:240) wakes nobody, and need *)
(* not: a process that has a signal to handle is already set running.      *)
PendingSignalsRun ==
  \A p \in Proc : ~exited[p] /\ queue[p] # {} => running[p]

(* Between two runs of the loop a process that is set running has a timer  *)
(* to run it, whoever set it running and wherever the loop was, until the  *)
(* first process is released.                                              *)
RunnableIsScheduled ==
  turn = 0 /\ ~timer /\ stopped = "no" /\ ~freed[1] => \A p \in Proc : ~(running[p] /\ ~freed[p])

(* "if we're using nodejs we have to keep a loop alive" (startup.js:43): a *)
(* process that exits or is killed is released, whatever the others do.    *)
ExitedIsReleased == \A p \in Proc : exited[p] ~> (freed[p] \/ stopped # "no")

(* A process that waits is told of a child that exits, unless a handler or *)
(* its own end keeps it from waiting.  (A SIGINT to a child that was       *)
(* released makes it reportable once more, and nobody is told.)            *)
WaiterReturns ==
  \A p, c \in Proc :
    (restart[p] = "wait" /\ c \in Reportable(p) /\ ~freed[c])
      ~> (restart[p] # "wait" \/ freed[p] \/ stopped # "no")

(* "init doesn't get signals." (process.js:299)                            *)
InitGetsNoSignals ==
  [][\A s \in queue'[1] \ queue[1] : exited'[1] = exited[1]]_vars

(* "Resume the process once data is available." (noopfs.js:214): in a      *)
(* browser whoever sleeps in a read of the terminal is among those that    *)
(* input resumes.  (Under Node a second reader is not: see `Registered'.)  *)
ReadersAreResumed ==
  \A p \in Proc : ~node /\ Blocked(p, "read") => p \in listeners
==============================================================================
