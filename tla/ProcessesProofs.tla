--------------------------- MODULE ProcessesProofs ---------------------------
(***************************************************************************)
(* What Processes does for any number of processes and characters: whoever *)
(* waits is called, a signal is not forgotten, and whoever is set running  *)
(* is run.                                                                 *)
(***************************************************************************)
EXTENDS Processes, FiniteSetTheorems, SequenceTheorems, TLAPS

(* Each key was typed once.                                                *)
KeysTyped == keys + Len(stream) <= typed
FreedExited == \A p \in Proc : freed[p] => exited[p]
(* The signals of the process that executes instructions were handled.     *)
HandledInside == inside => turn # 0 /\ (exited[turn] \/ queue[turn] = {})
(* Nobody but processes that are made is a parent, is called, or runs.     *)
OnlyMade ==
  /\ \A p \in Proc : ppid[p] <= nprocs /\ callbacks[p] \subseteq 1..nprocs
  /\ \A p \in Proc : p > nprocs => ~running[p]
(* The run of the loop knows of those that it leaves behind running.       *)
VisitedScheduled ==
  turn # 0 /\ ~timer /\ ~busy /\ ~freed[1] => \A p \in Proc : p < turn => ~(running[p] /\ ~freed[p])

IInv ==
  /\ TypeOK /\ KeysTyped /\ FreedExited /\ HandledInside /\ OnlyMade
  /\ PendingSignalsRun /\ WaiterIsCalled
  /\ VisitedScheduled /\ RunnableIsScheduled /\ ReadersAreResumed

-----------------------------------------------------------------------------
LEMMA Numbers ==
  /\ MaxProc \in Nat \ {0} /\ MaxTyped \in Nat /\ 1 \in Proc
  /\ Hosts \subseteq BOOLEAN /\ Groups \subseteq 0..MaxProc
  /\ \A set \in Sets : set[1] \in Signal /\ set[2] \in Act
  BY ConstantsAssumption DEF Proc

LEMMA KeysAmong ==
  ASSUME NEW chars \in Seq(Char)
  PROVE  KeysIn(chars) \in 0..Len(chars) /\ Len(chars) \in Nat
<1> DEFINE S == {i \in DOMAIN chars : chars[i] = "key"}
<1>1. Len(chars) \in Nat /\ DOMAIN chars = 1..Len(chars)
  BY LenProperties
<1>2. IsFiniteSet(1..Len(chars)) /\ Cardinality(1..Len(chars)) = Len(chars)
  BY <1>1, FS_Interval
<1>3. S \in SUBSET (1..Len(chars))
  BY <1>1
<1> HIDE DEF S
<1>4. IsFiniteSet(S) /\ Cardinality(S) <= Len(chars)
  BY <1>2, <1>3, FS_Subset
<1>5. Cardinality(S) \in Nat
  BY <1>4, FS_CardinalityType
<1>6. KeysIn(chars) = Cardinality(S)
  BY DEF KeysIn, S
<1> QED BY <1>1, <1>4, <1>5, <1>6

LEMMA OneKey == \A c \in Char : KeysIn(<<c>>) \in 0..1
<1> SUFFICES ASSUME NEW c \in Char PROVE KeysIn(<<c>>) \in 0..1
  OBVIOUS
<1>1. <<c>> \in Seq(Char) /\ Len(<<c>>) = 1
  OBVIOUS
<1> QED BY <1>1, KeysAmong

LEMMA TypeFacts ==
  ASSUME TypeOK
  PROVE  /\ nprocs \in Nat /\ nprocs >= 1 /\ nprocs <= MaxProc /\ turn \in Nat /\ turn <= nprocs
         /\ \A p \in Proc : p \in Nat /\ p >= 1 /\ p <= MaxProc
         /\ \A p \in Proc : ppid[p] \in Nat /\ (ppid[p] # 0 => ppid[p] \in Proc)
         /\ 1..nprocs \subseteq Proc
         /\ turn # 0 => turn \in Proc
  BY Numbers DEF TypeOK, Proc

-----------------------------------------------------------------------------
(* The loop.                                                               *)

LEMMA StartLoopKeeps ==
  ASSUME IInv, StartLoop, node' = node
  PROVE  IInv'
<1>1. /\ turn = 0 /\ timer /\ turn' = 1 /\ timer' = FALSE /\ TypeOK
      /\ UNCHANGED <<node, nprocs, ppid, running, exited, freed, unreported, queue, action,
                     callbacks, restart, ctty, inside, busy, pgrp, stream, keys, listeners,
                     ended, typed, stopped>>
  BY DEF IInv, StartLoop, ttyVars
<1>2. TypeOK'
  <2>1. turn' \in 0..nprocs
    BY <1>1, TypeFacts
  <2> QED BY <1>1, <2>1 DEF TypeOK
<1>3. VisitedScheduled' /\ RunnableIsScheduled' /\ HandledInside'
  BY <1>1, TypeFacts DEF IInv, VisitedScheduled, RunnableIsScheduled, HandledInside, Proc
<1>4. KeysTyped' /\ FreedExited' /\ OnlyMade' /\ PendingSignalsRun'
  BY <1>1 DEF IInv, KeysTyped, FreedExited, OnlyMade, PendingSignalsRun
<1>5. WaiterIsCalled' /\ ReadersAreResumed'
  BY <1>1 DEF IInv, WaiterIsCalled, ReadersAreResumed, Blocked, Children
<1> QED BY <1>2, <1>3, <1>4, <1>5 DEF IInv

LEMMA EnterKeeps ==
  ASSUME IInv, NEW p \in Proc, Enter(p), node' = node
  PROVE  IInv'
<1>1. /\ turn = p /\ running[p] /\ ~freed[p] /\ inside' = TRUE
      /\ queue' = [queue EXCEPT ![p] = {}]
      /\ action' = AfterHandling(p, queue[p])
      /\ restart' = [restart EXCEPT ![p] = IF \E s \in queue[p] : HasHandler(p, s) THEN "none" ELSE @]
      /\ UNCHANGED <<node, nprocs, ppid, running, exited, freed, unreported, callbacks, ctty, turn,
                     busy, timer, pgrp, stream, keys, listeners, ended, typed, stopped>>
      /\ TypeOK
  BY DEF IInv, Enter, ttyVars
<1>2. TypeOK'
  <2>1. action' \in [Proc -> [Signal -> Act]]
    BY <1>1 DEF TypeOK, AfterHandling, Act
  <2>2. queue' \in [Proc -> SUBSET Signal] /\ restart' \in [Proc -> {"none", "wait", "read"}]
    BY <1>1 DEF TypeOK
  <2> QED BY <1>1, <2>1, <2>2 DEF TypeOK
<1>3. HandledInside' /\ PendingSignalsRun'
  <2>1. \A q \in Proc : queue'[q] = IF q = p THEN {} ELSE queue[q]
    BY <1>1 DEF TypeOK
  <2>2. p # 0
    BY TypeFacts, <1>1
  <2> QED BY <1>1, <2>1, <2>2 DEF IInv, HandledInside, PendingSignalsRun
<1>4. KeysTyped' /\ FreedExited' /\ OnlyMade' /\ VisitedScheduled' /\ RunnableIsScheduled'
  BY <1>1 DEF IInv, KeysTyped, FreedExited, OnlyMade, VisitedScheduled, RunnableIsScheduled
<1>5. \A q \in Proc, call \in {"wait", "read"} : Blocked(q, call)' => Blocked(q, call)
  BY <1>1 DEF Blocked, TypeOK
<1>6. WaiterIsCalled' /\ ReadersAreResumed'
  BY <1>1, <1>5 DEF IInv, WaiterIsCalled, ReadersAreResumed, Children
<1> QED BY <1>2, <1>3, <1>4, <1>6 DEF IInv

LEMMA LeaveKeeps ==
  ASSUME IInv, NEW p \in Proc, Leave(p), node' = node
  PROVE  IInv'
<1> DEFINE releases == exited[p] /\ ~freed[p]
           woken == IF releases THEN WokenBy(p) ELSE {}
           isBusy == busy \/ (running[p] /\ ~freed[p])
           halts == releases /\ p = 1
           over == halts \/ Last(p)
<1>1. /\ turn = p
      /\ inside' = FALSE
      /\ freed' = [freed EXCEPT ![p] = @ \/ releases]
      /\ running' = [q \in Proc |-> running[q] \/ q \in woken]
      /\ queue' = IF releases THEN Notified(p) ELSE queue
      /\ callbacks' = IF releases THEN [callbacks EXCEPT ![p] = {}] ELSE callbacks
      /\ turn' = IF over THEN 0 ELSE p + 1
      /\ busy' = (isBusy /\ ~over)
      /\ timer' = CASE halts -> FALSE
                    [] ~halts /\ over -> timer \/ woken # {} \/ Rearmed(isBusy)
                    [] OTHER -> timer \/ woken # {}
      /\ stopped' = IF halts /\ node THEN "halted" ELSE stopped
      /\ UNCHANGED <<node, nprocs, ppid, exited, unreported, action, restart, ctty, pgrp, stream,
                     keys, listeners, ended, typed>>
      /\ TypeOK
  BY DEF IInv, Leave, ttyVars
<1>2. p \in Nat /\ p >= 1 /\ p <= nprocs /\ nprocs \in Nat /\ (p = nprocs <=> Last(p))
  BY <1>1, TypeFacts DEF Last
<1>3. woken \in SUBSET (1..nprocs) /\ woken \subseteq Proc
  BY <1>1, TypeFacts DEF IInv, OnlyMade, WokenBy, NotifiesNew
<1>4. releases \in BOOLEAN /\ isBusy \in BOOLEAN /\ halts \in BOOLEAN /\ over \in BOOLEAN
  OBVIOUS
<1>5. halts => releases /\ p = 1
  OBVIOUS
<1>6. over <=> halts \/ p = nprocs
  BY <1>2
<1>7. isBusy <=> busy \/ (running[p] /\ ~freed[p])
  OBVIOUS
<1>8. releases <=> exited[p] /\ ~freed[p]
  OBVIOUS
<1>9. releases => woken = WokenBy(p)
  OBVIOUS
<1>10. ~releases => woken = {}
  OBVIOUS
<1> HIDE DEF releases, woken, isBusy, halts, over
<1>11. \A q \in Proc : /\ running'[q] <=> running[q] \/ q \in woken
                       /\ freed'[q] <=> freed[q] \/ (q = p /\ releases)
  BY <1>1 DEF TypeOK
<1>12. TypeOK'
  <2>1. queue' \in [Proc -> SUBSET Signal]
    BY <1>1 DEF TypeOK, Notified, Signal
  <2>2. turn' \in 0..nprocs
    BY <1>1, <1>2, <1>6
  <2>3. callbacks' \in [Proc -> SUBSET Proc]
    BY <1>1 DEF TypeOK
  <2>4. freed' \in [Proc -> BOOLEAN] /\ running' \in [Proc -> BOOLEAN]
    BY <1>1 DEF TypeOK
  <2>5. timer' \in BOOLEAN
    <3>1. CASE halts
      BY <1>1, <3>1
    <3>2. CASE ~halts /\ over
      BY <1>1, <3>2
    <3>3. CASE ~halts /\ ~over
      BY <1>1, <3>3
    <3> QED BY <3>1, <3>2, <3>3
  <2>6. busy' \in BOOLEAN /\ inside' \in BOOLEAN /\ stopped' \in {"no", "halted", "thrown"}
    BY <1>1 DEF TypeOK
  <2> QED BY <1>1, <2>1, <2>2, <2>3, <2>4, <2>5, <2>6 DEF TypeOK
<1>13. KeysTyped' /\ FreedExited' /\ HandledInside'
  BY <1>1, <1>8, <1>11 DEF IInv, KeysTyped, FreedExited, HandledInside
<1>14. OnlyMade'
  BY <1>1, <1>2, <1>3, <1>11, TypeFacts DEF IInv, OnlyMade, TypeOK
<1>15. PendingSignalsRun'
  <2> SUFFICES ASSUME NEW q \in Proc, ~exited[q], queue'[q] # {}
               PROVE  running'[q]
    BY <1>1 DEF PendingSignalsRun
  <2>1. CASE queue'[q] = queue[q]
    BY <1>11, <2>1 DEF IInv, PendingSignalsRun
  <2>2. CASE queue'[q] # queue[q]
    <3>1. releases /\ q = ppid[p] /\ "CHLD" \notin queue[q] /\ ppid[p] # 0
      BY <1>1, <2>2 DEF TypeOK, Notified
    <3>2. q \in woken
      BY <1>9, <3>1 DEF WokenBy, NotifiesNew, Wakes, New, Fatal
    <3> QED BY <1>11, <3>2
  <2> QED BY <2>1, <2>2
<1>16. \A q \in Proc, call \in {"wait", "read"} : Blocked(q, call)' => Blocked(q, call)
  BY <1>1, <1>11 DEF Blocked
(* A waiter that is the parent of p runs now.                              *)
<1>17. WaiterIsCalled'
  <2> SUFFICES ASSUME NEW q \in Proc, Blocked(q, "wait")'
               PROVE  /\ \A c \in Children(q)' : exited'[c] \/ q \in callbacks'[c]
                      /\ \E c \in Children(q)' : ~freed'[c]
    BY DEF WaiterIsCalled, Proc
  <2>1. Blocked(q, "wait") /\ ~running'[q] /\ ~exited[q]
    BY <1>1, <1>16 DEF Blocked
  <2>2. Children(q)' = Children(q) /\ Children(q) \subseteq Proc
    BY <1>1, TypeFacts DEF Children
  <2>3. releases => ppid[p] # q
    <3>1. SUFFICES ASSUME releases, ppid[p] = q PROVE FALSE
      OBVIOUS
    <3>2. "CHLD" \in queue[q]
      BY <1>9, <1>11, <2>1, <3>1, TypeFacts, <1>1 DEF WokenBy, NotifiesNew, Wakes, New, Fatal
    <3> QED BY <1>11, <2>1, <3>2 DEF IInv, PendingSignalsRun
  <2>4. \A c \in Children(q) : freed'[c] = freed[c] /\ callbacks'[c] = callbacks[c]
    BY <1>1, <2>2, <2>3 DEF TypeOK, Children
  <2> QED BY <1>1, <2>1, <2>2, <2>4 DEF IInv, WaiterIsCalled
<1>18. ReadersAreResumed'
  BY <1>1, <1>16 DEF IInv, ReadersAreResumed
<1>19. VisitedScheduled'
  <2> SUFFICES ASSUME turn' # 0, ~timer', ~busy', ~freed'[1], NEW q \in Proc, q < turn'
               PROVE  ~(running'[q] /\ ~freed'[q])
    BY DEF VisitedScheduled
  <2>1. ~over /\ ~halts /\ ~timer /\ woken = {} /\ ~isBusy /\ turn' = p + 1
    BY <1>1, <1>6
  <2>2. q \in Nat /\ (q < p \/ q = p)
    BY <1>2, <2>1, TypeFacts, <1>1
  <2>3. ~freed[1] /\ ~busy
    BY <1>7, <1>11, <2>1, Numbers
  <2>4. q < p => ~(running[q] /\ ~freed[q])
    BY <1>1, <1>2, <2>1, <2>3 DEF IInv, VisitedScheduled
  <2>5. q = p => ~(running[q] /\ ~freed[q])
    BY <1>7, <2>1
  <2> QED BY <1>11, <2>1, <2>2, <2>4, <2>5
<1>20. RunnableIsScheduled'
  <2> SUFFICES ASSUME turn' = 0, ~timer', stopped' = "no", ~freed'[1], NEW q \in Proc
               PROVE  ~(running'[q] /\ ~freed'[q])
    BY DEF RunnableIsScheduled
  <2>1. over
    BY <1>1, <1>2
  <2>2. ~halts
    BY <1>5, <1>11, Numbers
  <2>3. timer' = (timer \/ woken # {} \/ Rearmed(isBusy))
    BY <1>1, <2>1, <2>2
  <2>4. ~timer /\ woken = {} /\ ~isBusy /\ p = nprocs
    BY <1>6, <2>1, <2>2, <2>3 DEF Rearmed
  <2>5. ~freed[1] /\ ~busy
    BY <1>7, <1>11, <2>4, Numbers
  <2>6. q < p \/ q = p \/ q > nprocs
    BY <1>1, <1>2, <2>4, TypeFacts
  <2>7. q < p => ~(running[q] /\ ~freed[q])
    BY <1>1, <1>2, <2>4, <2>5 DEF IInv, VisitedScheduled
  <2>8. q = p => ~(running[q] /\ ~freed[q])
    BY <1>7, <2>4
  <2>9. q > nprocs => ~running[q]
    BY DEF IInv, OnlyMade
  <2> QED BY <1>11, <2>4, <2>6, <2>7, <2>8, <2>9
<1> QED BY <1>12, <1>13, <1>14, <1>15, <1>17, <1>18, <1>19, <1>20 DEF IInv

-----------------------------------------------------------------------------
(* Calls of the process that executes instructions.                        *)

(* What exec, rt_sigaction, setsid and TIOCSPGRP change concerns types.    *)
LEMMA SameLives ==
  ASSUME IInv,
         UNCHANGED <<node, nprocs, ppid, running, exited, freed, unreported, queue, callbacks,
                     restart, loopVars, stream, keys, listeners, ended, typed, stopped>>,
         action' \in [Proc -> [Signal -> Act]], ctty' \in [Proc -> BOOLEAN], pgrp' \in 0..MaxProc
  PROVE  IInv'
<1>1. UNCHANGED <<node, nprocs, ppid, running, exited, freed, unreported, queue, callbacks, restart,
                  turn, inside, busy, timer, stream, keys, listeners, ended, typed, stopped>>
  BY DEF loopVars
<1>2. TypeOK'
  BY <1>1 DEF IInv, TypeOK
<1>3. KeysTyped' /\ FreedExited' /\ HandledInside' /\ OnlyMade' /\ PendingSignalsRun'
  BY <1>1 DEF IInv, KeysTyped, FreedExited, HandledInside, OnlyMade, PendingSignalsRun
<1>4. WaiterIsCalled' /\ ReadersAreResumed'
  BY <1>1 DEF IInv, WaiterIsCalled, ReadersAreResumed, Blocked, Children
<1>5. VisitedScheduled' /\ RunnableIsScheduled'
  BY <1>1 DEF IInv, VisitedScheduled, RunnableIsScheduled
<1> QED BY <1>2, <1>3, <1>4, <1>5 DEF IInv

LEMMA ExecKeeps == ASSUME IInv, NEW p \in Proc, Exec(p), node' = node PROVE IInv'
<1>1. /\ action' = [action EXCEPT ![p] = [s \in Signal |-> "default"]]
      /\ ctty' = [ctty EXCEPT ![p] = FALSE] /\ pgrp' = pgrp /\ TypeOK
  BY DEF Exec, ttyVars, IInv
<1>2. action' \in [Proc -> [Signal -> Act]] /\ ctty' \in [Proc -> BOOLEAN] /\ pgrp' \in 0..MaxProc
  BY <1>1 DEF TypeOK, Act
<1> QED BY <1>2, SameLives DEF Exec, ttyVars

LEMMA SigactionKeeps ==
  ASSUME IInv, NEW p \in Proc, NEW s \in Signal, NEW act \in Act, Sigaction(p, s, act), node' = node
  PROVE  IInv'
<1>1. action' = [action EXCEPT ![p][s] = act] /\ ctty' = ctty /\ pgrp' = pgrp /\ TypeOK
  BY DEF Sigaction, ttyVars, IInv
<1>2. action' \in [Proc -> [Signal -> Act]] /\ ctty' \in [Proc -> BOOLEAN] /\ pgrp' \in 0..MaxProc
  BY <1>1 DEF TypeOK
<1> QED BY <1>2, SameLives DEF Sigaction, ttyVars

LEMMA SetsidKeeps == ASSUME IInv, NEW p \in Proc, Setsid(p), node' = node PROVE IInv'
<1>1. ctty' = [ctty EXCEPT ![p] = FALSE] /\ pgrp' = pgrp /\ action' = action /\ TypeOK
  BY DEF Setsid, ttyVars, IInv
<1>2. action' \in [Proc -> [Signal -> Act]] /\ ctty' \in [Proc -> BOOLEAN] /\ pgrp' \in 0..MaxProc
  BY <1>1 DEF TypeOK
<1> QED BY <1>2, SameLives DEF Setsid, ttyVars

LEMMA SetPgrpKeeps == ASSUME IInv, NEW p \in Proc, NEW g \in Groups, SetPgrp(p, g), node' = node PROVE IInv'
<1>1. ctty' = ctty /\ pgrp' = g /\ action' = action /\ TypeOK
  BY DEF SetPgrp, IInv
<1>2. action' \in [Proc -> [Signal -> Act]] /\ ctty' \in [Proc -> BOOLEAN] /\ pgrp' \in 0..MaxProc
  BY <1>1, Numbers DEF TypeOK
<1> QED BY <1>2, SameLives DEF SetPgrp

(* A TypeError: nothing happens any more.                                  *)
LEMMA ThrownKeeps == ASSUME IInv, Thrown, node' = node PROVE IInv'
<1>1. /\ stopped' = "thrown"
      /\ UNCHANGED <<node, nprocs, ppid, running, exited, freed, unreported, queue, action, callbacks,
                     restart, ctty, turn, inside, busy, timer, pgrp, stream, keys, listeners, ended, typed>>
  BY DEF Thrown, loopVars, ttyVars
<1>2. TypeOK'
  BY <1>1 DEF IInv, TypeOK
<1>3. KeysTyped' /\ FreedExited' /\ HandledInside' /\ OnlyMade' /\ PendingSignalsRun'
  BY <1>1 DEF IInv, KeysTyped, FreedExited, HandledInside, OnlyMade, PendingSignalsRun
<1>4. WaiterIsCalled' /\ ReadersAreResumed'
  BY <1>1 DEF IInv, WaiterIsCalled, ReadersAreResumed, Blocked, Children
<1>5. VisitedScheduled' /\ RunnableIsScheduled'
  BY <1>1 DEF IInv, VisitedScheduled, RunnableIsScheduled
<1> QED BY <1>2, <1>3, <1>4, <1>5 DEF IInv

LEMMA CloneKeeps ==
  ASSUME IInv, NEW p \in Proc, Running(p), Clone(p), node' = node
  PROVE  IInv'
<1>1. PICK q : q = nprocs + 1
  OBVIOUS
<1>2. /\ q \in Proc /\ nprocs' = q
      /\ ppid' = [ppid EXCEPT ![q] = p]
      /\ running' = [running EXCEPT ![q] = TRUE]
      /\ action' = [action EXCEPT ![q] = action[p]]
      /\ ctty' = [ctty EXCEPT ![q] = ctty[p]]
      /\ UNCHANGED <<node, exited, freed, unreported, queue, callbacks, restart, turn, inside, busy, timer,
                     pgrp, stream, keys, listeners, ended, typed, stopped>>
      /\ turn = p /\ inside /\ running[p] /\ TypeOK
  BY <1>1 DEF Clone, Running, IInv, loopVars, ttyVars
<1>3. /\ nprocs \in Nat /\ q = nprocs + 1 /\ p \in Nat /\ p <= nprocs /\ p # 0
      /\ \A r \in Proc : r \in Nat
  BY <1>1, <1>2, TypeFacts
<1>4. \A r \in Proc : /\ ppid'[r] = IF r = q THEN p ELSE ppid[r]
                      /\ running'[r] = IF r = q THEN TRUE ELSE running[r]
  BY <1>2 DEF TypeOK
<1>13. /\ \A r \in Proc : (r <= q <=> r = q \/ r <= nprocs) /\ (r > q => r > nprocs /\ r # q)
       /\ \A r \in Proc : r <= nprocs => r # q /\ r <= q
       /\ p <= q /\ 1..nprocs \subseteq 1..q
  BY <1>3
<1>5. TypeOK'
  <2>1. ppid' \in [Proc -> 0..MaxProc] /\ running' \in [Proc -> BOOLEAN]
    BY <1>2 DEF TypeOK, Proc
  <2>2. action' \in [Proc -> [Signal -> Act]] /\ ctty' \in [Proc -> BOOLEAN]
    BY <1>2 DEF TypeOK
  <2>3. turn' \in 0..nprocs' /\ listeners' \subseteq 1..nprocs'
    BY <1>2, <1>3 DEF TypeOK
  <2> QED BY <1>2, <2>1, <2>2, <2>3 DEF TypeOK
<1>6. KeysTyped' /\ FreedExited' /\ HandledInside'
  BY <1>2 DEF IInv, KeysTyped, FreedExited, HandledInside
<1>7. OnlyMade'
  <2>1. \A r \in Proc : ppid[r] <= nprocs /\ ppid[r] \in Nat /\ callbacks[r] \subseteq 1..nprocs
    BY <1>2, TypeFacts DEF IInv, OnlyMade
  <2>4. \A r \in Proc : ppid[r] <= q
    BY <1>3, <2>1
  <2>2. \A r \in Proc : ppid'[r] <= q /\ callbacks[r] \subseteq 1..q
    BY <1>4, <1>13, <2>1, <2>4
  <2>3. \A r \in Proc : r > q => ~running'[r]
    BY <1>4, <1>13 DEF IInv, OnlyMade
  <2> QED BY <1>2, <2>2, <2>3 DEF OnlyMade
<1>8. PendingSignalsRun'
  BY <1>2, <1>4 DEF IInv, PendingSignalsRun
<1>9. \A r \in Proc, call \in {"wait", "read"} : Blocked(r, call)' => r # p /\ Blocked(r, call)
  BY <1>2, <1>4, <1>13 DEF Blocked
<1>10. WaiterIsCalled'
  <2> SUFFICES ASSUME NEW r \in Proc, Blocked(r, "wait")'
               PROVE  /\ \A c \in Children(r)' : exited'[c] \/ r \in callbacks'[c]
                      /\ \E c \in Children(r)' : ~freed'[c]
    BY DEF WaiterIsCalled, Proc
  <2>1. r # p /\ Blocked(r, "wait")
    BY <1>9
  <2>2. Children(r)' = Children(r)
    <3>1. \A c \in 2..q : c \in Proc /\ (c = q \/ c \in 2..nprocs)
      BY <1>2, <1>3, Numbers DEF Proc
    <3>2. \A c \in 2..nprocs : c \in 2..q /\ c # q
      BY <1>3
    <3>3. \A c \in 2..q : ppid'[c] = r => c \in 2..nprocs /\ ppid[c] = r
      BY <1>4, <2>1, <3>1
    <3>4. \A c \in 2..nprocs : c \in Proc /\ c \in 2..q /\ ppid'[c] = ppid[c]
      BY <1>4, <3>1, <3>2
    <3>5. Children(r)' = {c \in 2..q : ppid'[c] = r}
      BY <1>2 DEF Children
    <3> QED BY <3>3, <3>4, <3>5 DEF Children
  <2> QED BY <1>2, <2>1, <2>2 DEF IInv, WaiterIsCalled
<1>11. ReadersAreResumed'
  BY <1>2, <1>9 DEF IInv, ReadersAreResumed
<1>12. VisitedScheduled' /\ RunnableIsScheduled'
  BY <1>2, <1>3, <1>4 DEF IInv, VisitedScheduled, RunnableIsScheduled
<1> QED BY <1>5, <1>6, <1>7, <1>8, <1>10, <1>11, <1>12 DEF IInv

LEMMA ExitKeeps ==
  ASSUME IInv, NEW p \in Proc, Running(p), Exit(p), node' = node
  PROVE  IInv'
<1>1. /\ exited' = [exited EXCEPT ![p] = TRUE]
      /\ unreported' = [unreported EXCEPT ![p] = TRUE]
      /\ running' = [running EXCEPT ![p] = FALSE]
      /\ UNCHANGED <<node, nprocs, ppid, freed, queue, action, callbacks, restart, ctty, turn, inside,
                     busy, timer, pgrp, stream, keys, listeners, ended, typed, stopped>>
      /\ turn = p /\ TypeOK
  BY DEF Exit, Running, IInv, loopVars, ttyVars
<1>2. \A r \in Proc : /\ exited'[r] <=> exited[r] \/ r = p
                      /\ running'[r] <=> running[r] /\ r # p
  BY <1>1 DEF TypeOK
<1>3. TypeOK'
  BY <1>1 DEF TypeOK
<1>4. KeysTyped' /\ FreedExited'
  BY <1>1, <1>2 DEF IInv, KeysTyped, FreedExited
<1>5. HandledInside'
  BY <1>1, <1>2 DEF IInv, HandledInside
<1>6. OnlyMade'
  BY <1>1, <1>2 DEF IInv, OnlyMade
<1>7. PendingSignalsRun'
  BY <1>1, <1>2 DEF IInv, PendingSignalsRun
<1>8. \A r \in Proc, call \in {"wait", "read"} : Blocked(r, call)' => Blocked(r, call)
  BY <1>1, <1>2 DEF Blocked
<1>9. WaiterIsCalled'
  <2> SUFFICES ASSUME NEW r \in Proc, Blocked(r, "wait")'
               PROVE  /\ \A c \in Children(r)' : exited'[c] \/ r \in callbacks'[c]
                      /\ \E c \in Children(r)' : ~freed'[c]
    BY DEF WaiterIsCalled, Proc
  <2>1. Children(r)' = Children(r) /\ Children(r) \subseteq Proc
    BY <1>1, TypeFacts DEF Children
  <2> QED BY <1>1, <1>2, <1>8, <2>1 DEF IInv, WaiterIsCalled
<1>10. ReadersAreResumed'
  BY <1>1, <1>8 DEF IInv, ReadersAreResumed
<1>11. VisitedScheduled' /\ RunnableIsScheduled'
  BY <1>1, <1>2 DEF IInv, VisitedScheduled, RunnableIsScheduled
<1> QED BY <1>3, <1>4, <1>5, <1>6, <1>7, <1>9, <1>10, <1>11 DEF IInv

(* waitpid leaves callbacks with children that are alive.                  *)
LEMMA WaitpidKeeps ==
  ASSUME IInv, NEW p \in Proc, Running(p), NEW nohang \in BOOLEAN, Waitpid(p, nohang), node' = node
  PROVE  IInv'
<1>1. /\ UNCHANGED <<node, nprocs, ppid, exited, freed, queue, action, ctty, turn, inside, busy, timer,
                     pgrp, stream, keys, listeners, ended, typed, stopped>>
      /\ turn = p /\ inside /\ running[p] /\ TypeOK
  BY DEF Waitpid, Running, IInv, loopVars, ttyVars
<1>2. Children(p) \subseteq Proc /\ Children(p)' = Children(p)
  BY <1>1, TypeFacts DEF Children
(* Whether it blocks or not, for some set of children called.              *)
<1>3. PICK cs \in SUBSET Children(p) :
        /\ callbacks' = CalledBy(cs, p)
        /\ \/ running' = running /\ restart' = [restart EXCEPT ![p] = "none"]
           \/ /\ cs = Watched(p, Children(p)) /\ cs # {}
              /\ running' = [running EXCEPT ![p] = FALSE]
              /\ restart' = [restart EXCEPT ![p] = "wait"]
  <2>1. callbacks = CalledBy({}, p)
    BY <1>1 DEF CalledBy, TypeOK
  <2>2. CASE /\ restart' = [restart EXCEPT ![p] = "none"] /\ running' = running
             /\ callbacks' = callbacks
    BY <2>1, <2>2
  <2>3. ASSUME NEW z, callbacks' = CalledBy(Watched(p, {c \in Children(p) : c > z}), p),
               restart' = [restart EXCEPT ![p] = "none"], running' = running
        PROVE  \E cs \in SUBSET Children(p) :
                 callbacks' = CalledBy(cs, p) /\ running' = running
                 /\ restart' = [restart EXCEPT ![p] = "none"]
    <3>1. Watched(p, {c \in Children(p) : c > z}) \in SUBSET Children(p)
      BY DEF Watched
    <3> QED BY <2>3, <3>1
  <2>4. Watched(p, Children(p)) \in SUBSET Children(p)
    BY DEF Watched
  <2> QED BY <2>2, <2>3, <2>4 DEF Waitpid
<1>4. unreported' \in [Proc -> BOOLEAN]
  BY <1>1 DEF Waitpid, TypeOK
<1>5. \A c \in Proc : /\ callbacks[c] \subseteq callbacks'[c]
                      /\ c \in cs => p \in callbacks'[c]
                      /\ callbacks'[c] \subseteq callbacks[c] \cup {p}
  BY <1>3 DEF CalledBy
<1>6. TypeOK'
  <2>1. callbacks' \in [Proc -> SUBSET Proc]
    BY <1>1, <1>3 DEF CalledBy, TypeOK
  <2>2. running' \in [Proc -> BOOLEAN] /\ restart' \in [Proc -> {"none", "wait", "read"}]
    BY <1>1, <1>3 DEF TypeOK
  <2> QED BY <1>1, <1>4, <2>1, <2>2 DEF TypeOK
<1>7. \A r \in Proc : /\ running'[r] => running[r]
                      /\ r # p => running'[r] = running[r] /\ restart'[r] = restart[r]
  BY <1>1, <1>3 DEF TypeOK
<1>8. KeysTyped' /\ FreedExited' /\ HandledInside'
  BY <1>1 DEF IInv, KeysTyped, FreedExited, HandledInside
<1>9. OnlyMade'
  <2>1. p \in 1..nprocs
    BY <1>1, TypeFacts
  <2>2. \A c \in Proc : callbacks'[c] \subseteq 1..nprocs
    BY <1>5, <2>1 DEF IInv, OnlyMade
  <2> QED BY <1>1, <1>7, <2>2 DEF IInv, OnlyMade
<1>10. PendingSignalsRun'
  <2>1. exited[p] \/ queue[p] = {}
    BY <1>1 DEF IInv, HandledInside
  <2> QED BY <1>1, <1>7, <2>1 DEF IInv, PendingSignalsRun
<1>11. \A r \in Proc, call \in {"wait", "read"} : r # p /\ Blocked(r, call)' => Blocked(r, call)
  BY <1>1, <1>7 DEF Blocked
<1>12. WaiterIsCalled'
  <2> SUFFICES ASSUME NEW r \in Proc, Blocked(r, "wait")'
               PROVE  /\ \A c \in Children(r)' : exited'[c] \/ r \in callbacks'[c]
                      /\ \E c \in Children(r)' : ~freed'[c]
    BY DEF WaiterIsCalled, Proc
  <2>1. CASE r = p
    <3>1. cs = Watched(p, Children(p)) /\ cs # {}
      BY <1>1, <1>3, <2>1 DEF Blocked, TypeOK
    <3>2. \A c \in Children(p) : exited[c] \/ p \in callbacks'[c]
      BY <1>2, <1>5, <3>1 DEF Watched
    <3>3. \E c \in Children(p) : ~freed[c]
      BY <1>2, <3>1 DEF Watched, IInv, FreedExited
    <3> QED BY <1>1, <1>2, <2>1, <3>2, <3>3
  <2>2. CASE r # p
    <3>1. Children(r)' = Children(r) /\ Children(r) \subseteq Proc
      BY <1>1, TypeFacts DEF Children
    <3> QED BY <1>1, <1>5, <1>11, <2>2, <3>1 DEF IInv, WaiterIsCalled
  <2> QED BY <2>1, <2>2
<1>13. ReadersAreResumed'
  <2>1. ~Blocked(p, "read")'
    BY <1>1, <1>3 DEF Blocked, TypeOK
  <2> QED BY <1>1, <1>11, <2>1 DEF IInv, ReadersAreResumed
<1>14. VisitedScheduled' /\ RunnableIsScheduled'
  BY <1>1, <1>7 DEF IInv, VisitedScheduled, RunnableIsScheduled
<1> QED BY <1>6, <1>8, <1>9, <1>10, <1>12, <1>13, <1>14 DEF IInv

-----------------------------------------------------------------------------
(* The terminal.                                                           *)

(* A read that returns and signals nobody else.                            *)
LEMMA ReturnKeeps ==
  ASSUME IInv, NEW p \in Proc, restart' = [restart EXCEPT ![p] = "none"],
         timer' \in BOOLEAN, timer => timer',
         action' \in [Proc -> [Signal -> Act]],
         stream' \in Seq(Char), keys' \in Nat, keys' + Len(stream') <= typed,
         UNCHANGED <<node, nprocs, ppid, running, exited, freed, unreported, queue, callbacks, ctty,
                     turn, inside, busy, pgrp, listeners, ended, typed, stopped>>
  PROVE  IInv'
<1>1. TypeOK
  BY DEF IInv
<1>2. keys' \in 0..MaxTyped
  <2>1. typed \in Nat /\ typed <= MaxTyped /\ MaxTyped \in Nat
    BY <1>1, Numbers DEF TypeOK
  <2>2. Len(stream') \in Nat
    BY LenProperties
  <2> QED BY <2>1, <2>2
<1>3. TypeOK'
  <2>1. restart' \in [Proc -> {"none", "wait", "read"}]
    BY <1>1 DEF TypeOK
  <2> QED BY <1>1, <1>2, <2>1 DEF TypeOK
<1>4. KeysTyped' /\ FreedExited' /\ HandledInside' /\ OnlyMade' /\ PendingSignalsRun'
  BY DEF IInv, KeysTyped, FreedExited, HandledInside, OnlyMade, PendingSignalsRun
<1>5. \A r \in Proc, call \in {"wait", "read"} : Blocked(r, call)' => Blocked(r, call)
  BY <1>1 DEF Blocked, TypeOK
<1>6. WaiterIsCalled' /\ ReadersAreResumed'
  BY <1>5 DEF IInv, WaiterIsCalled, ReadersAreResumed, Children
<1>7. VisitedScheduled' /\ RunnableIsScheduled'
  BY DEF IInv, VisitedScheduled, RunnableIsScheduled
<1> QED BY <1>3, <1>4, <1>6, <1>7 DEF IInv

LEMMA ReadKeysKeeps ==
  ASSUME IInv, NEW p \in Proc, ReadKeys(p), node' = node
  PROVE  IInv'
<1>1. TypeOK /\ stream \in Seq(Char) /\ keys \in Nat /\ typed \in Nat /\ keys + Len(stream) <= typed
      /\ Len(stream) \in Nat
  <2>1. TypeOK /\ keys + Len(stream) <= typed
    BY DEF IInv, KeysTyped
  <2>2. stream \in Seq(Char) /\ keys \in Nat /\ typed \in Nat
    BY <2>1, Numbers DEF TypeOK
  <2> QED BY <2>1, <2>2, LenProperties
<1>2. PICK n \in 1..keys : keys' = keys - n
  BY DEF ReadKeys
<1>3. keys' \in Nat /\ keys' + Len(stream) <= typed
  BY <1>1, <1>2
<1>4. action' \in [Proc -> [Signal -> Act]] /\ timer' \in BOOLEAN /\ (timer => timer')
  BY <1>1 DEF ReadKeys, loopVars, TypeOK
<1> QED BY <1>1, <1>3, <1>4, ReturnKeeps DEF ReadKeys, loopVars

LEMMA ReadBlocksKeeps ==
  ASSUME IInv, NEW p \in Proc, Running(p), ReadBlocks(p), node' = node
  PROVE  IInv'
<1>1. /\ listeners' = Registered(p)
      /\ running' = [running EXCEPT ![p] = FALSE]
      /\ restart' = [restart EXCEPT ![p] = "read"]
      /\ UNCHANGED <<node, nprocs, ppid, exited, freed, unreported, queue, action, callbacks, ctty, turn,
                     inside, busy, timer, pgrp, stream, keys, ended, typed, stopped>>
      /\ turn = p /\ inside /\ TypeOK
  BY DEF ReadBlocks, Running, IInv, loopVars
<1>2. \A r \in Proc : /\ running'[r] => running[r]
                      /\ r # p => running'[r] = running[r] /\ restart'[r] = restart[r]
  BY <1>1 DEF TypeOK
<1>3. TypeOK'
  <2>1. p \in 1..nprocs
    BY <1>1, TypeFacts
  <2>2. listeners' \subseteq 1..nprocs
    BY <1>1, <2>1 DEF Registered, TypeOK
  <2>3. running' \in [Proc -> BOOLEAN] /\ restart' \in [Proc -> {"none", "wait", "read"}]
    BY <1>1 DEF TypeOK
  <2> QED BY <1>1, <2>2, <2>3 DEF TypeOK
<1>4. KeysTyped' /\ FreedExited' /\ HandledInside' /\ OnlyMade'
  BY <1>1, <1>2 DEF IInv, KeysTyped, FreedExited, HandledInside, OnlyMade
<1>5. PendingSignalsRun'
  <2>1. exited[p] \/ queue[p] = {}
    BY <1>1 DEF IInv, HandledInside
  <2> QED BY <1>1, <1>2, <2>1 DEF IInv, PendingSignalsRun
<1>6. \A r \in Proc, call \in {"wait", "read"} : r # p /\ Blocked(r, call)' => Blocked(r, call)
  BY <1>1, <1>2 DEF Blocked
<1>7. WaiterIsCalled'
  <2>1. ~Blocked(p, "wait")'
    BY <1>1 DEF Blocked, TypeOK
  <2> QED BY <1>1, <1>6, <2>1 DEF IInv, WaiterIsCalled, Children
<1>8. ReadersAreResumed'
  <2>1. ~node => p \in listeners' /\ listeners \subseteq listeners'
    BY <1>1 DEF Registered
  <2> QED BY <1>1, <1>6, <2>1 DEF IInv, ReadersAreResumed
<1>9. VisitedScheduled' /\ RunnableIsScheduled'
  BY <1>1, <1>2 DEF IInv, VisitedScheduled, RunnableIsScheduled
<1> QED BY <1>3, <1>4, <1>5, <1>7, <1>8, <1>9 DEF IInv

(* Input and reads send SIGINT to q, or wake those who listen, or both.    *)
Signals(woken, sent, q) ==
  /\ IF sent THEN Sent(q, "INT") ELSE UNCHANGED <<queue, exited, unreported>>
  /\ running' = [r \in Proc |-> r \in woken \/ IF sent /\ r = q THEN RunsAfter(q, "INT") ELSE running[r]]
  /\ timer' = (timer \/ woken # {} \/ (sent /\ Wakes(q, "INT")))

LEMMA SignalsKeeps ==
  ASSUME IInv, NEW woken \in SUBSET (1..nprocs), NEW sent \in BOOLEAN, NEW q \in 1..nprocs,
         Signals(woken, sent, q),
         listeners' = listeners \/ (listeners' = {} /\ woken = listeners),
         restart' = restart \/ \E p \in Proc : restart' = [restart EXCEPT ![p] = "none"],
         inside => turn # q \/ ~sent \/ ~Wakes(q, "INT"),
         stream' \in Seq(Char), keys' \in Nat, keys' + Len(stream') <= typed',
         typed' \in 0..MaxTyped, ended' \in BOOLEAN,
         UNCHANGED <<node, nprocs, ppid, freed, action, callbacks, ctty, turn, inside, busy, pgrp, stopped>>
  PROVE  IInv'
<1>1. TypeOK /\ q \in Proc /\ woken \subseteq Proc /\ q \in Nat /\ q <= nprocs
  <2>1. TypeOK
    BY DEF IInv
  <2> QED BY <2>1, TypeFacts
<1>2. \A r \in Proc :
        /\ running'[r] <=> r \in woken \/ IF sent /\ r = q THEN RunsAfter(q, "INT") ELSE running[r]
        /\ exited'[r] <=> exited[r] \/ (sent /\ r = q /\ Kills(q, "INT"))
        /\ queue'[r] = IF sent /\ r = q THEN queue[r] \cup {"INT"} ELSE queue[r]
  <2>1. /\ queue \in [Proc -> SUBSET Signal] /\ exited \in [Proc -> BOOLEAN]
        /\ running \in [Proc -> BOOLEAN]
    BY <1>1 DEF TypeOK
  <2>2. CASE sent
    <3>1. /\ queue' = [queue EXCEPT ![q] = @ \cup {"INT"}]
          /\ exited' = [exited EXCEPT ![q] = @ \/ Kills(q, "INT")]
      BY <2>2 DEF Signals, Sent
    <3>2. \A r \in Proc : queue'[r] = IF r = q THEN queue[r] \cup {"INT"} ELSE queue[r]
      BY <2>1, <3>1
    <3>3. \A r \in Proc : exited'[r] <=> exited[r] \/ (r = q /\ Kills(q, "INT"))
      BY <2>1, <3>1, <1>1
    <3> QED BY <2>2, <3>2, <3>3 DEF Signals
  <2>3. CASE ~sent
    BY <2>3 DEF Signals
  <2> QED BY <2>2, <2>3
<1>3. \A r \in Proc : exited[r] => exited'[r]
  BY <1>2
(* Who does not run did not, or was killed.                                *)
<1>4. \A r \in Proc : ~running'[r] /\ ~exited'[r] => ~running[r] /\ ~exited[r] /\ r \notin woken
  BY <1>2 DEF RunsAfter, Kills
(* Who was set running has a timer.                                        *)
<1>5. ~timer' => ~timer /\ \A r \in Proc : running'[r] => running[r]
  <2>1. ~timer' => ~timer /\ woken = {} /\ ~(sent /\ Wakes(q, "INT"))
    BY DEF Signals
  <2> QED BY <1>2, <2>1 DEF RunsAfter, Wakes
<1>6. TypeOK'
  <2>1. keys' \in 0..MaxTyped
    <3>1. typed' \in Nat /\ typed' <= MaxTyped /\ MaxTyped \in Nat /\ Len(stream') \in Nat
      BY Numbers, LenProperties
    <3> QED BY <3>1
  <2>2. restart' \in [Proc -> {"none", "wait", "read"}]
    BY <1>1 DEF TypeOK
  <2>3. running' \in [Proc -> BOOLEAN] /\ exited' \in [Proc -> BOOLEAN] /\ timer' \in BOOLEAN
    BY <1>1 DEF Signals, Sent, TypeOK, RunsAfter
  <2>4. queue' \in [Proc -> SUBSET Signal] /\ unreported' \in [Proc -> BOOLEAN]
    <3>1. "INT" \in Signal /\ queue \in [Proc -> SUBSET Signal] /\ unreported \in [Proc -> BOOLEAN]
      BY <1>1 DEF TypeOK, Signal
    <3>2. CASE sent
      <4>1. /\ queue' = [queue EXCEPT ![q] = @ \cup {"INT"}]
            /\ unreported' = [unreported EXCEPT ![q] = @ \/ Kills(q, "INT")]
        BY <3>2 DEF Signals, Sent
      <4>2. queue' \in [Proc -> SUBSET Signal]
        BY <3>1, <4>1
      <4>3. unreported' \in [Proc -> BOOLEAN]
        BY <3>1, <4>1
      <4> QED BY <4>2, <4>3
    <3>3. CASE ~sent
      BY <3>1, <3>3 DEF Signals
    <3> QED BY <3>2, <3>3
  <2>5. listeners' \subseteq 1..nprocs
    BY <1>1 DEF TypeOK
  <2> QED BY <1>1, <2>1, <2>2, <2>3, <2>4, <2>5 DEF TypeOK
<1>7. KeysTyped' /\ FreedExited'
  BY <1>3 DEF IInv, KeysTyped, FreedExited
<1>8. HandledInside'
  <2> SUFFICES ASSUME inside PROVE turn # 0 /\ (exited'[turn] \/ queue'[turn] = {})
    BY DEF HandledInside
  <2>1. turn \in Proc /\ turn # 0 /\ (exited[turn] \/ queue[turn] = {})
    BY <1>1, TypeFacts DEF IInv, HandledInside
  <2>2. CASE ~(sent /\ turn = q)
    BY <1>2, <2>1, <2>2
  <2>3. CASE sent /\ turn = q
    BY <1>2, <2>1, <2>3 DEF Wakes, Kills, New
  <2> QED BY <2>2, <2>3
<1>9. OnlyMade'
  <2>1. \A r \in Proc : r > nprocs => r # q /\ r \notin woken
    BY <1>1, TypeFacts
  <2> QED BY <1>2, <2>1 DEF IInv, OnlyMade
<1>10. PendingSignalsRun'
  <2> SUFFICES ASSUME NEW r \in Proc, ~exited'[r], queue'[r] # {}, ~running'[r] PROVE FALSE
    BY DEF PendingSignalsRun
  <2>1. ~running[r] /\ ~exited[r] /\ queue[r] = {}
    BY <1>4 DEF IInv, PendingSignalsRun
  <2>2. sent /\ r = q /\ New(q, "INT")
    BY <1>2, <2>1 DEF New
  <2> QED BY <1>2, <2>2 DEF RunsAfter, Kills
<1>11. \A r \in Proc, call \in {"wait", "read"} : Blocked(r, call)' => Blocked(r, call) /\ r \notin woken
  <2>1. \A r \in Proc : restart'[r] \in {"wait", "read"} => restart'[r] = restart[r]
    BY <1>1 DEF TypeOK
  <2> QED BY <1>4, <2>1 DEF Blocked
<1>12. WaiterIsCalled'
  <2> SUFFICES ASSUME NEW r \in Proc, Blocked(r, "wait")'
               PROVE  /\ \A c \in Children(r)' : exited'[c] \/ r \in callbacks'[c]
                      /\ \E c \in Children(r)' : ~freed'[c]
    BY DEF WaiterIsCalled, Proc
  <2>1. Children(r)' = Children(r) /\ Children(r) \subseteq Proc
    BY <1>1, TypeFacts DEF Children
  <2> QED BY <1>3, <1>11, <2>1 DEF IInv, WaiterIsCalled
<1>13. ReadersAreResumed'
  BY <1>11 DEF IInv, ReadersAreResumed
<1>14. VisitedScheduled' /\ RunnableIsScheduled'
  BY <1>5 DEF IInv, VisitedScheduled, RunnableIsScheduled
<1> QED BY <1>6, <1>7, <1>8, <1>9, <1>10, <1>12, <1>13, <1>14 DEF IInv

LEMMA ReadUpdatesKeeps ==
  ASSUME IInv, NEW p \in Proc, Running(p), ReadUpdates(p), node' = node
  PROVE  IInv'
<1>1. PICK q : q = pgrp
  OBVIOUS
<1> DEFINE found == KeysIn(stream)
           own == q = p /\ Wakes(p, "INT")
<1>2. /\ keys = 0 /\ stream' = <<>> /\ ~NoLeader(stream)
      /\ \E n \in (IF found = 0 THEN {0} ELSE 1..found) : keys' = found - n
      /\ restart' = [restart EXCEPT ![p] = "none"]
      /\ UNCHANGED <<node, nprocs, ppid, freed, callbacks, ctty, turn, inside, busy, pgrp, listeners,
                     ended, typed, stopped>>
      /\ turn = p /\ running[p] /\ TypeOK
  BY DEF ReadUpdates, Running, IInv
<1>3. \/ /\ Interrupts(stream)
         /\ IF own THEN UNCHANGED <<queue, exited, unreported>> ELSE Sent(q, "INT")
         /\ action' = IF own THEN AfterHandling(p, {"INT"}) ELSE action
         /\ running' = [running EXCEPT ![q] = RunsAfter(q, "INT")]
         /\ timer' = (timer \/ Wakes(q, "INT"))
      \/ UNCHANGED <<queue, exited, unreported, action, running, timer>>
  BY <1>1 DEF ReadUpdates
<1>4. stream' \in Seq(Char) /\ keys' \in Nat /\ keys' + Len(stream') <= typed /\ typed \in 0..MaxTyped
  <2>1. stream \in Seq(Char) /\ typed \in 0..MaxTyped /\ typed \in Nat
    BY <1>2 DEF TypeOK
  <2>2. found \in 0..Len(stream) /\ Len(stream) \in Nat
    BY <2>1, KeysAmong
  <2> HIDE DEF found
  <2>3. keys' \in 0..found
    BY <1>2, <2>2
  <2>4. stream' \in Seq(Char) /\ Len(stream') = 0
    BY <1>2
  <2>5. Len(stream) <= typed
    <3>1. keys + Len(stream) <= typed /\ keys = 0
      BY <1>2 DEF IInv, KeysTyped
    <3> QED BY <2>1, <2>2, <3>1
  <2>6. keys' \in Nat /\ keys' <= typed
    <3>1. ASSUME NEW n \in Nat, NEW m \in 0..n, NEW k \in 0..m, NEW t \in Nat, n <= t
          PROVE  k \in Nat /\ k <= t
      BY <3>1
    <3> QED BY <2>1, <2>2, <2>3, <2>5, <3>1
  <2>7. keys' + Len(stream') <= typed
    BY <2>4, <2>6
  <2> QED BY <2>1, <2>4, <2>6, <2>7
<1>5. action' \in [Proc -> [Signal -> Act]] /\ timer' \in BOOLEAN /\ (timer => timer')
  <2>1. AfterHandling(p, {"INT"}) \in [Proc -> [Signal -> Act]]
    BY <1>2 DEF AfterHandling, TypeOK, Act
  <2> QED BY <1>2, <1>3, <2>1 DEF TypeOK, Wakes, New, Fatal
<1>6. CASE UNCHANGED <<queue, exited, unreported, running>>
  BY <1>2, <1>4, <1>5, <1>6, ReturnKeeps
<1>7. CASE /\ Interrupts(stream) /\ ~own /\ Sent(q, "INT") /\ action' = action
           /\ running' = [running EXCEPT ![q] = RunsAfter(q, "INT")]
           /\ timer' = (timer \/ Wakes(q, "INT"))
  <2>1. q \in 1..nprocs
    BY <1>1, <1>2, <1>7 DEF NoLeader
  <2>2. running' = [r \in Proc |-> r \in {} \/ IF TRUE /\ r = q THEN RunsAfter(q, "INT") ELSE running[r]]
    BY <1>2, <1>7, <2>1, TypeFacts DEF TypeOK, RunsAfter
  <2>3. Signals({}, TRUE, q)
    BY <1>7, <2>2 DEF Signals
  <2>4. ended' \in BOOLEAN /\ typed' \in 0..MaxTyped
    BY <1>2, <1>4 DEF TypeOK
  <2>5. turn # q \/ ~Wakes(q, "INT")
    BY <1>2, <1>7
  <2> QED BY <1>2, <1>4, <1>7, <2>1, <2>3, <2>4, <2>5, SignalsKeeps
<1>8. CASE own /\ Interrupts(stream) /\ UNCHANGED <<queue, exited, unreported>>
           /\ running' = [running EXCEPT ![q] = RunsAfter(q, "INT")]
  <2>1. RunsAfter(q, "INT") = TRUE
    BY <1>8 DEF RunsAfter, Wakes
  <2>2. running' = running
    BY <1>2, <1>8, <2>1 DEF TypeOK
  <2> QED BY <1>6, <1>8, <2>2
<1> QED BY <1>3, <1>6, <1>7, <1>8

(* What comes in while the loop does not run.                              *)
LEMMA TypeNodeKeeps ==
  ASSUME IInv, NEW c \in Char, TypeNode(c), turn = 0, typed < MaxTyped, typed' = typed + 1, node' = node,
         UNCHANGED <<nprocs, ppid, freed, action, callbacks, restart, ctty, turn, inside, busy, pgrp, stopped>>
  PROVE  IInv'
<1>1. PICK woken : woken = listeners
  OBVIOUS
<1>2. TypeOK /\ ~inside /\ 1 \in 1..nprocs /\ woken \in SUBSET (1..nprocs)
  <2>1. TypeOK /\ ~inside
    BY DEF IInv, HandledInside
  <2> QED BY <1>1, <2>1, TypeFacts DEF TypeOK
<1>3. stream' \in Seq(Char) /\ keys' \in Nat /\ keys' + Len(stream') <= typed' /\ typed' \in 0..MaxTyped
  <2>1. keys \in Nat /\ typed \in Nat /\ keys + Len(stream) <= typed /\ stream \in Seq(Char)
    <3>1. keys + Len(stream) <= typed
      BY DEF IInv, KeysTyped
    <3> QED BY <1>2, <3>1 DEF TypeOK
  <2>2. Len(stream) \in Nat /\ KeysIn(<<c>>) \in 0..1 /\ MaxTyped \in Nat
    BY <2>1, LenProperties, OneKey, Numbers
  <2>3. keys' = keys + KeysIn(<<c>>) /\ stream' = stream
    BY DEF TypeNode
  <2> QED BY <2>1, <2>2, <2>3
<1>4. listeners' = {} /\ ended' \in BOOLEAN
  BY <1>2 DEF TypeNode, TypeOK
<1>5. CASE c = "intr"
  <2>1. PICK q : q = pgrp
    OBVIOUS
  <2>2. q \in 1..nprocs
    <3>1. Interrupts(<<c>>)
      BY <1>5 DEF Interrupts
    <3> QED BY <2>1, <3>1 DEF TypeNode, NoLeader
  <2>3. Signals(woken, TRUE, q)
    <3>1. running' = [r \in Proc |-> r \in woken \/ IF TRUE /\ r = q THEN RunsAfter(q, "INT") ELSE running[r]]
      BY <1>1, <1>5, <2>1 DEF TypeNode
    <3>2. Sent(q, "INT") /\ timer' = (timer \/ woken # {} \/ (TRUE /\ Wakes(q, "INT")))
      BY <1>1, <1>5, <2>1 DEF TypeNode
    <3> QED BY <3>1, <3>2 DEF Signals
  <2> QED BY <1>1, <1>2, <1>3, <1>4, <2>2, <2>3, SignalsKeeps
<1>6. CASE c # "intr"
  <2>1. Signals(woken, FALSE, 1)
    BY <1>1, <1>6 DEF TypeNode, Signals
  <2> QED BY <1>1, <1>2, <1>3, <1>4, <2>1, SignalsKeeps
<1> QED BY <1>5, <1>6

LEMMA TypeBrowserKeeps ==
  ASSUME IInv, NEW c \in Char, TypeBrowser(c), turn = 0, typed < MaxTyped, typed' = typed + 1, node' = node,
         UNCHANGED <<nprocs, ppid, freed, action, callbacks, restart, ctty, turn, inside, busy, pgrp, stopped>>
  PROVE  IInv'
<1>1. PICK woken : woken = listeners
  OBVIOUS
<1>2. TypeOK /\ ~inside /\ 1 \in 1..nprocs /\ woken \in SUBSET (1..nprocs)
  <2>1. TypeOK /\ ~inside
    BY DEF IInv, HandledInside
  <2> QED BY <1>1, <2>1, TypeFacts DEF TypeOK
<1>3. stream' \in Seq(Char) /\ keys' \in Nat /\ keys' + Len(stream') <= typed' /\ typed' \in 0..MaxTyped
  <2>1. keys \in Nat /\ typed \in Nat /\ keys + Len(stream) <= typed /\ stream \in Seq(Char)
    <3>1. keys + Len(stream) <= typed
      BY DEF IInv, KeysTyped
    <3> QED BY <1>2, <3>1 DEF TypeOK
  <2>2. Len(stream) \in Nat /\ MaxTyped \in Nat
    BY <2>1, LenProperties, Numbers
  <2>3. stream' \in Seq(Char) /\ Len(stream') = Len(stream) + 1 /\ keys' = keys
    BY <2>1, AppendProperties DEF TypeBrowser
  <2> QED BY <2>1, <2>2, <2>3
<1>4. listeners' = {} /\ ended' \in BOOLEAN
  BY <1>2 DEF TypeBrowser, TypeOK
<1>5. Signals(woken, FALSE, 1)
  BY <1>1 DEF TypeBrowser, Signals
<1> QED BY <1>1, <1>2, <1>3, <1>4, <1>5, SignalsKeeps

LEMMA EndOfInputKeeps ==
  ASSUME IInv, EndOfInput, turn = 0, typed < MaxTyped, typed' = typed + 1, node' = node,
         UNCHANGED <<nprocs, ppid, freed, action, callbacks, restart, ctty, turn, inside, busy, pgrp, stopped>>
  PROVE  IInv'
<1>1. PICK woken : woken = listeners
  OBVIOUS
<1>2. TypeOK /\ ~inside /\ 1 \in 1..nprocs /\ woken \in SUBSET (1..nprocs)
  <2>1. TypeOK /\ ~inside
    BY DEF IInv, HandledInside
  <2> QED BY <1>1, <2>1, TypeFacts DEF TypeOK
<1>3. stream' \in Seq(Char) /\ keys' \in Nat /\ keys' + Len(stream') <= typed' /\ typed' \in 0..MaxTyped
  <2>1. keys \in Nat /\ typed \in Nat /\ keys + Len(stream) <= typed /\ stream \in Seq(Char)
    <3>1. keys + Len(stream) <= typed
      BY DEF IInv, KeysTyped
    <3> QED BY <1>2, <3>1 DEF TypeOK
  <2>2. Len(stream) \in Nat /\ MaxTyped \in Nat
    BY <2>1, LenProperties, Numbers
  <2>3. stream' = stream /\ keys' = keys
    BY DEF EndOfInput
  <2> QED BY <2>1, <2>2, <2>3
<1>4. listeners' = {} /\ ended' \in BOOLEAN
  BY DEF EndOfInput
<1>5. Signals(woken, FALSE, 1)
  BY <1>1 DEF EndOfInput, Signals
<1> QED BY <1>1, <1>2, <1>3, <1>4, <1>5, SignalsKeeps

LEMMA InputKeeps == ASSUME IInv, Input, node' = node PROVE IInv'
<1>1. CASE /\ typed' = typed + 1 /\ turn = 0 /\ typed < MaxTyped
           /\ UNCHANGED <<nprocs, ppid, freed, action, callbacks, restart, ctty, turn, inside, busy,
                          pgrp, stopped>>
           /\ EndOfInput \/ \E c \in Char : TypeNode(c) \/ TypeBrowser(c)
  BY <1>1, EndOfInputKeeps, TypeNodeKeeps, TypeBrowserKeeps
<1>2. CASE Thrown
  BY <1>2, ThrownKeeps
<1> QED BY <1>1, <1>2 DEF Input

LEMMA ReadKeeps == ASSUME IInv, NEW p \in Proc, Running(p), Read(p), node' = node PROVE IInv'
  BY ReadKeysKeeps, ReadBlocksKeeps, ReadUpdatesKeeps, ThrownKeeps DEF Read

-----------------------------------------------------------------------------
LEMMA InitHolds == ASSUME Init PROVE IInv
<1>1. TypeOK
  <2>1. nprocs \in Proc /\ turn \in 0..nprocs /\ pgrp \in 0..MaxProc /\ keys \in 0..MaxTyped
        /\ typed \in 0..MaxTyped
    BY Numbers DEF Init, Proc
  <2>2. ppid \in [Proc -> 0..MaxProc] /\ action \in [Proc -> [Signal -> Act]]
    BY Numbers DEF Init, Act
  <2>3. stream \in Seq(Char) /\ restart \in [Proc -> {"none", "wait", "read"}] /\ node \in Hosts
    BY DEF Init
  <2> QED BY <2>1, <2>2, <2>3 DEF Init, TypeOK
<1>2. KeysTyped /\ FreedExited /\ HandledInside /\ PendingSignalsRun
  BY DEF Init, KeysTyped, FreedExited, HandledInside, PendingSignalsRun
<1>3. OnlyMade
  <2>1. \A p \in Proc : 0 <= 1 /\ (p > 1 => p # 1)
    OBVIOUS
  <2>2. /\ nprocs = 1 /\ \A p \in Proc : ppid[p] = 0 /\ callbacks[p] = {}
        /\ \A p \in Proc : p # 1 => ~running[p]
    BY DEF Init
  <2> QED BY <2>1, <2>2 DEF OnlyMade
<1>4. WaiterIsCalled /\ ReadersAreResumed
  BY DEF Init, WaiterIsCalled, ReadersAreResumed, Blocked
<1>5. VisitedScheduled /\ RunnableIsScheduled
  BY DEF Init, VisitedScheduled, RunnableIsScheduled, Proc
<1> QED BY <1>1, <1>2, <1>3, <1>4, <1>5 DEF IInv

LEMMA LoopKeeps == ASSUME IInv, Loop PROVE IInv'
<1>1. node' = node
  BY DEF Loop
<1>2. CASE StartLoop
  BY <1>1, <1>2, StartLoopKeeps
<1>3. ASSUME NEW p \in Proc, Enter(p) PROVE IInv'
  BY <1>1, <1>3, EnterKeeps
<1>4. ASSUME NEW p \in Proc, Leave(p) PROVE IInv'
  BY <1>1, <1>4, LeaveKeeps
<1>5. ASSUME NEW p \in Proc, Resume(p) PROVE IInv'
  BY <1>1, <1>5, WaitpidKeeps, ReadKeeps DEF Resume
<1> QED BY <1>2, <1>3, <1>4, <1>5 DEF Loop

LEMMA CallKeeps == ASSUME IInv, NEW p \in Proc, Call(p), node' = node PROVE IInv'
<1>1. Running(p)
  BY DEF Call
<1>2. CASE Clone(p)
  BY <1>1, <1>2, CloneKeeps
<1>3. CASE Exec(p)
  BY <1>3, ExecKeeps
<1>4. CASE Exit(p)
  BY <1>1, <1>4, ExitKeeps
<1>5. CASE Setsid(p)
  BY <1>5, SetsidKeeps
<1>6. CASE Read(p)
  BY <1>1, <1>6, ReadKeeps
<1>7. ASSUME NEW set \in Sets, Sigaction(p, set[1], set[2]) PROVE IInv'
  BY <1>7, Numbers, SigactionKeeps
<1>8. ASSUME NEW g \in Groups, SetPgrp(p, g) PROVE IInv'
  BY <1>8, SetPgrpKeeps
<1>9. ASSUME NEW nohang \in BOOLEAN, Waitpid(p, nohang) PROVE IInv'
  BY <1>1, <1>9, WaitpidKeeps
<1> QED BY <1>2, <1>3, <1>4, <1>5, <1>6, <1>7, <1>8, <1>9 DEF Call

LEMMA StutterKeeps == ASSUME IInv, UNCHANGED vars PROVE IInv'
<1>1. UNCHANGED <<node, nprocs, ppid, running, exited, freed, unreported, queue, action, callbacks,
                  restart, ctty, turn, inside, busy, timer, pgrp, stream, keys, listeners, ended,
                  typed, stopped, loopVars>>
  BY DEF vars, loopVars, ttyVars
<1>2. action' \in [Proc -> [Signal -> Act]] /\ ctty' \in [Proc -> BOOLEAN] /\ pgrp' \in 0..MaxProc
  BY <1>1 DEF IInv, TypeOK
<1> QED BY <1>1, <1>2, SameLives

LEMMA NextKeeps == ASSUME IInv, [Next]_vars PROVE IInv'
<1>1. CASE Loop
  BY <1>1, LoopKeeps
<1>2. CASE node' = node /\ Input
  BY <1>2, InputKeeps
<1>3. ASSUME NEW p \in Proc, node' = node, Call(p) PROVE IInv'
  BY <1>3, CallKeeps
<1>4. CASE UNCHANGED vars
  BY <1>4, StutterKeeps
<1> QED BY <1>1, <1>2, <1>3, <1>4 DEF Next

LEMMA Inductive == Spec => []IInv
  BY InitHolds, NextKeeps, PTL DEF Spec

-----------------------------------------------------------------------------
(* Every variable of the scheduler keeps its type: no process runs, waits, *)
(* listens or is a parent that was not made, whatever the calls and input. *)
THEOREM ProcessesTypeCorrect == Spec => []TypeOK
<1>1. IInv => TypeOK
  BY DEF IInv
<1> QED BY <1>1, Inductive, PTL

(* Whoever sleeps in waitpid is called by whichever child exits next, for  *)
(* any number of processes: no child is alive without its callback, and a  *)
(* child's release is still to come.                                       *)
THEOREM WaitersCorrect == Spec => []WaiterIsCalled
<1>1. IInv => WaiterIsCalled
  BY DEF IInv
<1> QED BY <1>1, Inductive, PTL

(* sendSignal may drop a duplicate without wakeup: a process that has a    *)
(* signal to handle is set running.                                        *)
THEOREM SignalsCorrect == Spec => []PendingSignalsRun
<1>1. IInv => PendingSignalsRun
  BY DEF IInv
<1> QED BY <1>1, Inductive, PTL

(* myLoop and wakeup lose no process: when the loop has ended, whoever is  *)
(* set running has a timer to run it, until the first process is released. *)
THEOREM RunnablesCorrect == Spec => []RunnableIsScheduled
<1>1. IInv => RunnableIsScheduled
  BY DEF IInv
<1> QED BY <1>1, Inductive, PTL

(* In a browser input resumes every process that sleeps in a read of the   *)
(* terminal.                                                               *)
THEOREM ReadersCorrect == Spec => []ReadersAreResumed
<1>1. IInv => ReadersAreResumed
  BY DEF IInv
<1> QED BY <1>1, Inductive, PTL
==============================================================================
