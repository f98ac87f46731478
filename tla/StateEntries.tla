----------------------------- MODULE StateEntries -----------------------------
(***************************************************************************)
(* The areas of src/src/process.js that hold the registers of processes    *)
(* (allocateStateEntry, freeStateEntry), through clone, execve and the     *)
(* release of a process, and the view of one that runInstLoop keeps while  *)
(* it interprets a quantum of instructions.                                *)
(***************************************************************************)
EXTENDS Integers, FiniteSets

CONSTANTS
  MaxProc,   \* bound: processes ever created
  Areas,     \* stateEntriesInUse.length
  Value,     \* contents of the registers
  Zeroed     \* those that initMemory leaves

Proc == 1..MaxProc
Entry == 0..(Areas - 1)
NoEntry == -1

ASSUME ConstantsAssumption ==
  MaxProc \in Nat \ {0} /\ Areas \in Nat \ {0} /\ Zeroed \in Value

VARIABLES
  inUse,      \* the entries with stateEntriesInUse set
  registers,  \* registers[e]
  entry,      \* stateEntry of each process
  killed,     \* by a signal, and not released yet
  nprocs,
  current,    \* the process inside runInstLoop, 0 is none
  view,       \* the entry that its local `registers' is a view of
  stopped     \* by "too many processes", or the end of the first process
vars == <<inUse, registers, entry, killed, nprocs, current, view, stopped>>

Init ==
  /\ inUse = {0}
  /\ registers = [e \in Entry |-> Zeroed]
  /\ entry = [p \in Proc |-> IF p = 1 THEN 0 ELSE NoEntry]
  /\ killed = {} /\ nprocs = 1 /\ current = 0 /\ view = NoEntry /\ stopped = FALSE

Held(p) == entry[p] # NoEntry

LowestTooLow(used, e) == e \in Entry /\ \A f \in Entry \ used : e <= f   \* mutant: no test of e
Lowest(used, e) == e \in Entry \ used /\ \A f \in Entry \ used : e <= f

(* runInstLoop starts: it reads this.registers once.                       *)
Enter(p) ==
  /\ current = 0 /\ Held(p)
  /\ current' = p /\ view' = entry[p]
  /\ UNCHANGED <<inUse, registers, entry, killed, nprocs, stopped>>

(* An instruction of the loop, whatever it does to the registers.          *)
Instruction(p) ==
  /\ current = p
  /\ \E v \in Value : registers' = [registers EXCEPT ![view] = v]
  /\ UNCHANGED <<inUse, entry, killed, nprocs, current, view, stopped>>

(* runFpuInst, doRegImmInst and the multiplications work on this.registers *)
(* and fpregs32, which execve replaces, not on the loop's view.            *)
FloatInstruction(p) ==
  /\ current = p
  /\ \E v \in Value : registers' = [registers EXCEPT ![entry[p]] = v]
  /\ UNCHANGED <<inUse, entry, killed, nprocs, current, view, stopped>>

(* fpregs64 holds eight bytes an element, so that (32 + fd) << 1 is beyond *)
(* the 512 bytes of the area: a double is read from and written to the     *)
(* next one, or, for the last area, the first free page.                   *)
DoubleInstruction(p) ==
  /\ current = p
  /\ \E v \in Value :
       registers' = [e \in Entry |-> IF e = entry[p] + 1 THEN v ELSE registers[e]]
  /\ UNCHANGED <<inUse, entry, killed, nprocs, current, view, stopped>>

Leave(p) ==
  /\ current = p
  /\ current' = 0 /\ view' = NoEntry
  /\ UNCHANGED <<inUse, registers, entry, killed, nprocs, stopped>>

(* A call takes its number from this.registers.  When these are not what   *)
(* the loop works on, they hold no number since execve (nothing but floats *)
(* moves there could compute one), and nothing happens.                    *)
Calls(p) == current = p /\ view = entry[p]

Clone(p) ==
  LET q == nprocs + 1
  IN /\ Calls(p) /\ q \in Proc
     /\ \E e \in Entry :
          /\ Lowest(inUse, e)
          /\ inUse' = inUse \cup {e}
          /\ registers' = [registers EXCEPT ![e] = registers[entry[p]]]
          /\ entry' = [entry EXCEPT ![q] = e]
     /\ nprocs' = q
     /\ UNCHANGED <<killed, current, view, stopped>>

CloneError(p) ==
  /\ Calls(p) /\ nprocs < MaxProc /\ inUse = Entry
  /\ stopped' = TRUE
  /\ UNCHANGED <<inUse, registers, entry, killed, nprocs, current, view>>

ReplacedUnmarked(p, e) == inUse \ {entry[p]}   \* mutant: the new entry is not marked
ReplacedOffByOne(p, e) == (inUse \ {entry[p]}) \cup {e + 1}   \* mutant
Replaced(p, e) == (inUse \ {entry[p]}) \cup {e}

(* freeResources and initMemory: this.registers is a view of the new entry,*)
(* the loop's is not.                                                      *)
Exec(p) ==
  /\ Calls(p)
  /\ \E e \in Entry :
       /\ Lowest(inUse \ {entry[p]}, e)
       /\ inUse' = Replaced(p, e)
       /\ registers' = [registers EXCEPT ![e] = Zeroed]
       /\ entry' = [entry EXCEPT ![p] = e]
  /\ UNCHANGED <<killed, nprocs, current, view, stopped>>

Released(p) ==
  /\ inUse' = inUse \ {entry[p]}
  /\ entry' = [entry EXCEPT ![p] = NoEntry]
  /\ killed' = killed \ {p}
  /\ stopped' = (p = 1)
  /\ UNCHANGED <<registers, nprocs>>

(* myLoop releases a process as soon as it has exited.                     *)
Exit(p) == Calls(p) /\ Released(p) /\ current' = 0 /\ view' = NoEntry

(* A fatal signal arrives between two quanta, the release comes later.     *)
Kill(p) ==
  /\ current = 0 /\ Held(p)
  /\ killed' = killed \cup {p}
  /\ UNCHANGED <<inUse, registers, entry, nprocs, current, view, stopped>>

Release(p) == current = 0 /\ p \in killed /\ Released(p) /\ UNCHANGED <<current, view>>

ProcessStep(p) ==
  \/ Enter(p) \/ Instruction(p) \/ FloatInstruction(p) \/ DoubleInstruction(p) \/ Leave(p)
  \/ Clone(p) \/ CloneError(p) \/ Exec(p) \/ Exit(p)
  \/ Kill(p) \/ Release(p)

Next == ~stopped /\ \E p \in Proc : ProcessStep(p)
Spec == Init /\ [][Next]_vars

-----------------------------------------------------------------------------
TypeOK ==
  /\ inUse \subseteq Entry
  /\ registers \in [Entry -> Value]
  /\ entry \in [Proc -> Entry \cup {NoEntry}]
  /\ killed \subseteq Proc
  /\ nprocs \in Proc /\ current \in Proc \cup {0}
  /\ view \in Entry \cup {NoEntry} /\ stopped \in BOOLEAN

(* An entry is in use if and only if it is a process's, and only one's,    *)
(* however exits and execve calls free and take entries again.             *)
EntriesExact ==
  /\ inUse = {entry[p] : p \in {q \in Proc : Held(q)}}
  /\ \A p, q \in Proc : Held(p) /\ entry[p] = entry[q] => p = q

(* 'Each "thread" needs: A private area for registers, local state, etc.'  *)
(* (process.js:11): while a process runs nothing changes the registers of  *)
(* another one, not even what it executes on registers that it gave back.  *)
PrivateAreas ==
  [][\A p \in Proc : Held(p) /\ p # current => registers'[entry[p]] = registers[entry[p]]]_vars

(* What is true of it: the registers of a process that does not run change *)
(* only by a double of the process that has the area before its own.       *)
RegistersPrivate ==
  [][\A p \in Proc :
       Held(p) /\ p # current /\ registers'[entry[p]] # registers[entry[p]]
         => DoubleInstruction(current) /\ entry[p] = entry[current] + 1]_vars
==============================================================================
