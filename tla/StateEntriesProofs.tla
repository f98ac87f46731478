-------------------------- MODULE StateEntriesProofs --------------------------
(***************************************************************************)
(* Proofs about StateEntries for every number of processes and areas.      *)
(***************************************************************************)
EXTENDS StateEntries, TLAPS

(* A process that was not created yet has no entry, and the loop works on  *)
(* the entry of its process or on one that nobody has.                     *)
HolderInv ==
  /\ \A p \in Proc : p > nprocs => ~Held(p)
  /\ killed \subseteq {p \in Proc : Held(p)}
  /\ current # 0 => Held(current) /\ view \in Entry
  /\ current # 0 /\ view # entry[current] => view \notin inUse
  /\ current = 0 => view = NoEntry

IInv == TypeOK /\ EntriesExact /\ HolderInv

LEMMA InitLemma == Init => IInv
<1> SUFFICES ASSUME Init PROVE IInv
  OBVIOUS
<1>1. 1 \in Proc /\ 0 \in Entry /\ NoEntry \notin Entry
  BY ConstantsAssumption DEF Proc, Entry, NoEntry
<1>2. TypeOK
  BY <1>1, ConstantsAssumption DEF Init, TypeOK
<1>3. EntriesExact
  BY <1>1 DEF Init, EntriesExact, Held, NoEntry
<1>4. HolderInv
  BY <1>1 DEF Init, HolderInv, Held, Proc
<1> QED BY <1>2, <1>3, <1>4 DEF IInv

(* What changes neither the entries nor who holds them keeps EntriesExact. *)
LEMMA SameEntries ==
  ASSUME EntriesExact, UNCHANGED <<inUse, entry>>
  PROVE  EntriesExact'
BY DEF EntriesExact, Held

LEMMA EnterStep ==
  ASSUME IInv, NEW p \in Proc, Enter(p)
  PROVE  IInv'
<1>1. TypeOK'
  BY DEF IInv, TypeOK, Enter
<1>2. EntriesExact'
  BY SameEntries DEF IInv, Enter
<1>3. HolderInv'
  BY DEF IInv, TypeOK, HolderInv, Enter, Held, Proc, NoEntry
<1> QED BY <1>1, <1>2, <1>3 DEF IInv

LEMMA InstructionStep ==
  ASSUME IInv, NEW p \in Proc, Instruction(p)
  PROVE  IInv'
<1>1. TypeOK'
  BY DEF IInv, TypeOK, Instruction
<1>2. EntriesExact'
  BY SameEntries DEF IInv, Instruction
<1>3. HolderInv'
  BY DEF IInv, HolderInv, Instruction, Held
<1> QED BY <1>1, <1>2, <1>3 DEF IInv

LEMMA FloatInstructionStep ==
  ASSUME IInv, NEW p \in Proc, FloatInstruction(p)
  PROVE  IInv'
<1>1. TypeOK'
  BY DEF IInv, TypeOK, FloatInstruction
<1>2. EntriesExact'
  BY SameEntries DEF IInv, FloatInstruction
<1>3. HolderInv'
  BY DEF IInv, HolderInv, FloatInstruction, Held
<1> QED BY <1>1, <1>2, <1>3 DEF IInv

LEMMA DoubleInstructionStep ==
  ASSUME IInv, NEW p \in Proc, DoubleInstruction(p)
  PROVE  IInv'
<1>1. TypeOK'
  BY DEF IInv, TypeOK, DoubleInstruction
<1>2. EntriesExact'
  BY SameEntries DEF IInv, DoubleInstruction
<1>3. HolderInv'
  BY DEF IInv, HolderInv, DoubleInstruction, Held
<1> QED BY <1>1, <1>2, <1>3 DEF IInv

LEMMA LeaveStep ==
  ASSUME IInv, NEW p \in Proc, Leave(p)
  PROVE  IInv'
<1>1. TypeOK'
  BY DEF IInv, TypeOK, Leave
<1>2. EntriesExact'
  BY SameEntries DEF IInv, Leave
<1>3. HolderInv'
  BY DEF IInv, HolderInv, Leave, Held
<1> QED BY <1>1, <1>2, <1>3 DEF IInv

LEMMA CloneStep ==
  ASSUME IInv, NEW p \in Proc, Clone(p)
  PROVE  IInv'
<1> DEFINE q == nprocs + 1
<1>1. PICK e \in Entry :
        /\ Lowest(inUse, e)
        /\ inUse' = inUse \cup {e}
        /\ registers' = [registers EXCEPT ![e] = registers[entry[p]]]
        /\ entry' = [entry EXCEPT ![q] = e]
  BY DEF Clone
<1>2. q \in Proc /\ q > nprocs /\ ~Held(q) /\ nprocs' = q /\ Held(p) /\ view = entry[p] /\ p = current
  <2>1. q \in Proc /\ q > nprocs /\ nprocs' = q /\ p = current /\ view = entry[p]
    BY DEF Clone, Calls, IInv, TypeOK, Proc
  <2>2. current # 0
    BY <2>1 DEF Proc
  <2> QED BY <2>1, <2>2 DEF IInv, HolderInv
<1>3. e \notin inUse /\ e # NoEntry
  BY <1>1 DEF Lowest, Entry, NoEntry
<1>4. p # q /\ entry[p] \in Entry
  BY <1>2 DEF IInv, TypeOK, Held
<1>5. TypeOK'
  BY <1>1, <1>2, <1>4 DEF IInv, TypeOK, Clone
<1>6. EntriesExact'
  <2>1. \A r \in Proc : Held(r)' <=> (Held(r) \/ r = q)
    BY <1>1, <1>2, <1>3 DEF Held, IInv, TypeOK
  <2>2. \A r \in Proc : entry'[r] = IF r = q THEN e ELSE entry[r]
    BY <1>1, <1>2 DEF IInv, TypeOK
  <2>3. inUse' = {entry'[r] : r \in {s \in Proc : Held(s)'}}
    BY <1>1, <1>2, <2>1, <2>2 DEF IInv, EntriesExact
  <2>4. \A r, s \in Proc : Held(r)' /\ entry'[r] = entry'[s] => r = s
    BY <1>3, <2>1, <2>2 DEF IInv, EntriesExact, Held
  <2> QED BY <2>3, <2>4 DEF EntriesExact, Held
<1>7. HolderInv'
  <2>1. \A r \in Proc : r > nprocs' => ~Held(r)'
    BY <1>1, <1>2 DEF IInv, HolderInv, TypeOK, Held, Proc
  <2>2. killed' \subseteq {r \in Proc : Held(r)'}
    BY <1>1, <1>2, <1>3 DEF IInv, HolderInv, TypeOK, Held, Clone
  <2>3. current' = p /\ view' = entry'[p] /\ view' \in Entry /\ Held(p)'
    BY <1>1, <1>2, <1>4 DEF IInv, TypeOK, Held, Clone
  <2> QED BY <2>1, <2>2, <2>3 DEF HolderInv, Held, Proc
<1> QED BY <1>5, <1>6, <1>7 DEF IInv

LEMMA ExecStep ==
  ASSUME IInv, NEW p \in Proc, Exec(p)
  PROVE  IInv'
<1>1. PICK e \in Entry :
        /\ Lowest(inUse \ {entry[p]}, e)
        /\ inUse' = Replaced(p, e)
        /\ registers' = [registers EXCEPT ![e] = Zeroed]
        /\ entry' = [entry EXCEPT ![p] = e]
  BY DEF Exec
<1>2. p = current /\ view = entry[p] /\ Held(p) /\ view \in Entry
  BY DEF Exec, Calls, IInv, HolderInv, Proc
<1>3. e \notin inUse \ {entry[p]} /\ e # NoEntry
  BY <1>1 DEF Lowest, Entry, NoEntry
<1>4. TypeOK'
  BY <1>1, ConstantsAssumption DEF IInv, TypeOK, Exec, Replaced
<1>5. \A r \in Proc : entry'[r] = IF r = p THEN e ELSE entry[r]
  BY <1>1 DEF IInv, TypeOK
<1>6. \A r \in Proc : Held(r)' <=> Held(r)
  BY <1>2, <1>3, <1>5 DEF Held
<1>7. EntriesExact'
  <2>1. inUse \ {entry[p]} = {entry[r] : r \in {s \in Proc : Held(s) /\ s # p}}
    BY <1>2 DEF IInv, EntriesExact
  <2>2. inUse' = {entry'[r] : r \in {s \in Proc : Held(s)}}
    BY <1>1, <1>2, <1>5, <2>1 DEF Replaced
  <2>3. \A r \in Proc : Held(r) /\ r # p => entry[r] # e
    BY <1>3, <2>1
  <2>4. \A r, s \in Proc : Held(r) /\ entry'[r] = entry'[s] => r = s
    BY <1>2, <1>3, <1>5, <2>3 DEF IInv, EntriesExact, Held
  <2> QED BY <1>6, <2>2, <2>4 DEF EntriesExact, Held
<1>8. HolderInv'
  <2>1. view' = view /\ current' = p /\ killed' = killed /\ nprocs' = nprocs
    BY <1>2 DEF Exec
  <2>2. view' # entry'[p] => view' \notin inUse'
    BY <1>1, <1>2, <1>5, <2>1 DEF Replaced
  <2>3. (\A r \in Proc : r > nprocs' => ~Held(r)') /\ killed' \subseteq {r \in Proc : Held(r)'}
    BY <1>6, <2>1 DEF IInv, HolderInv
  <2> QED BY <1>2, <1>6, <2>1, <2>2, <2>3 DEF HolderInv, Held, Proc
<1> QED BY <1>4, <1>7, <1>8 DEF IInv

(* The release of p, of which nothing is running.                          *)
LEMMA ReleasedStep ==
  ASSUME IInv, NEW p \in Proc, Held(p), Released(p), current' = 0, view' = NoEntry
  PROVE  IInv'
<1>1. \A r \in Proc : entry'[r] = IF r = p THEN NoEntry ELSE entry[r]
  BY DEF IInv, TypeOK, Released
<1>2. \A r \in Proc : Held(r)' <=> (Held(r) /\ r # p)
  BY <1>1 DEF Held
<1>3. TypeOK'
  BY DEF IInv, TypeOK, Released
<1>4. EntriesExact'
  <2>1. inUse \ {entry[p]} = {entry[r] : r \in {s \in Proc : Held(s) /\ s # p}}
    BY DEF IInv, EntriesExact
  <2>2. inUse' = {entry'[r] : r \in {s \in Proc : Held(s) /\ s # p}}
    BY <1>1, <2>1 DEF Released
  <2>3. \A r, s \in Proc : Held(r) /\ r # p /\ entry'[r] = entry'[s] => r = s
    BY <1>1 DEF IInv, EntriesExact, Held
  <2> QED BY <1>2, <2>2, <2>3 DEF EntriesExact, Held
<1>5. HolderInv'
  BY <1>2 DEF IInv, HolderInv, Released, Held
<1> QED BY <1>3, <1>4, <1>5 DEF IInv

LEMMA ExitStep ==
  ASSUME IInv, NEW p \in Proc, Exit(p)
  PROVE  IInv'
<1>1. Held(p)
  BY DEF Exit, Calls, IInv, HolderInv, Proc
<1> QED BY <1>1, ReleasedStep DEF Exit

LEMMA KillStep ==
  ASSUME IInv, NEW p \in Proc, Kill(p)
  PROVE  IInv'
<1>1. TypeOK'
  BY DEF IInv, TypeOK, Kill
<1>2. EntriesExact'
  BY SameEntries DEF IInv, Kill
<1>3. HolderInv'
  BY DEF IInv, HolderInv, Kill, Held
<1> QED BY <1>1, <1>2, <1>3 DEF IInv

LEMMA ReleaseStep ==
  ASSUME IInv, NEW p \in Proc, Release(p)
  PROVE  IInv'
<1>1. Held(p)
  BY DEF Release, IInv, HolderInv
<1>2. current' = 0 /\ view' = NoEntry /\ Released(p)
  BY DEF Release, IInv, HolderInv
<1> QED BY <1>1, <1>2, ReleasedStep

LEMMA CloneErrorStep ==
  ASSUME IInv, NEW p \in Proc, CloneError(p)
  PROVE  IInv'
<1>1. TypeOK'
  BY DEF IInv, TypeOK, CloneError
<1>2. EntriesExact'
  BY SameEntries DEF IInv, CloneError
<1>3. HolderInv'
  BY DEF IInv, HolderInv, CloneError, Held
<1> QED BY <1>1, <1>2, <1>3 DEF IInv

LEMMA NextLemma == IInv /\ [Next]_vars => IInv'
<1> SUFFICES ASSUME IInv, [Next]_vars PROVE IInv'
  OBVIOUS
<1>1. CASE UNCHANGED vars
  BY <1>1 DEF vars, IInv, TypeOK, EntriesExact, HolderInv, Held
<1>2. CASE Next
  <2>1. PICK p \in Proc : ProcessStep(p)
    BY <1>2 DEF Next
  <2> QED BY <2>1, EnterStep, InstructionStep, FloatInstructionStep, DoubleInstructionStep,
             LeaveStep, CloneStep, CloneErrorStep, ExecStep,
             ExitStep, KillStep, ReleaseStep DEF ProcessStep
<1> QED BY <1>1, <1>2

LEMMA Invariance == Spec => []IInv
<1>1. Init => IInv
  BY InitLemma
<1>2. IInv /\ [Next]_vars => IInv'
  BY NextLemma
<1> QED BY <1>1, <1>2, PTL DEF Spec

(* Every variable of StateEntries keeps to its type.                       *)
THEOREM EntriesTypeCorrect == Spec => []TypeOK
<1>1. IInv => TypeOK
  BY DEF IInv
<1> QED BY <1>1, Invariance, PTL

(* allocateStateEntry and freeStateEntry are matched: no entry is leaked   *)
(* and no two processes ever share one.                                    *)
THEOREM EntriesCorrect == Spec => []EntriesExact
<1>1. IInv => EntriesExact
  BY DEF IInv
<1> QED BY <1>1, Invariance, PTL

(* What a step does to the registers of processes that do not run.         *)
OthersKept ==
  \A p \in Proc :
    Held(p) /\ p # current /\ registers'[entry[p]] # registers[entry[p]]
      => DoubleInstruction(current) /\ entry[p] = entry[current] + 1

LEMMA OthersKeptLemma ==
  ASSUME IInv, [Next]_vars
  PROVE  OthersKept
<1> SUFFICES ASSUME NEW r \in Proc, Held(r), r # current,
                    ~(DoubleInstruction(current) /\ entry[r] = entry[current] + 1)
             PROVE  registers'[entry[r]] = registers[entry[r]]
  BY DEF OthersKept
<1>1. CASE UNCHANGED registers
  BY <1>1
<1>2. ASSUME NEW p \in Proc, Instruction(p)
      PROVE  registers'[entry[r]] = registers[entry[r]]
  <2>1. current = p /\ p # 0 /\ view \in Entry /\ Held(p)
    BY <1>2 DEF Instruction, IInv, HolderInv, Proc
  <2>2. entry[r] \in inUse /\ entry[r] # entry[p]
    BY <2>1 DEF IInv, EntriesExact
  <2>3. view # entry[r]
    BY <2>1, <2>2 DEF IInv, HolderInv
  <2> QED BY <1>2, <2>3 DEF Instruction, IInv, TypeOK, Held
<1>3. ASSUME NEW p \in Proc, Clone(p)
      PROVE  registers'[entry[r]] = registers[entry[r]]
  <2>1. PICK e \in Entry : /\ Lowest(inUse, e)
                           /\ registers' = [registers EXCEPT ![e] = registers[entry[p]]]
    BY <1>3 DEF Clone
  <2>2. entry[r] \in inUse
    BY DEF IInv, EntriesExact
  <2>3. e # entry[r]
    BY <2>1, <2>2 DEF Lowest
  <2> QED BY <2>1, <2>3 DEF IInv, TypeOK, Held
<1>4. ASSUME NEW p \in Proc, Exec(p)
      PROVE  registers'[entry[r]] = registers[entry[r]]
  <2>1. PICK e \in Entry : /\ Lowest(inUse \ {entry[p]}, e)
                           /\ registers' = [registers EXCEPT ![e] = Zeroed]
    BY <1>4 DEF Exec
  <2>2. p = current /\ Held(p)
    BY <1>4 DEF Exec, Calls, IInv, HolderInv, Proc
  <2>3. entry[r] \in inUse \ {entry[p]}
    BY <2>2 DEF IInv, EntriesExact
  <2>4. e # entry[r]
    BY <2>1, <2>3 DEF Lowest
  <2> QED BY <2>1, <2>4 DEF IInv, TypeOK, Held
<1>5. ASSUME NEW p \in Proc, FloatInstruction(p)
      PROVE  registers'[entry[r]] = registers[entry[r]]
  <2>1. current = p /\ p # 0 /\ Held(p)
    BY <1>5 DEF FloatInstruction, IInv, HolderInv, Proc
  <2>2. entry[r] # entry[p]
    BY <2>1 DEF IInv, EntriesExact
  <2> QED BY <1>5, <2>2 DEF FloatInstruction, IInv, TypeOK, Held
<1>6. ASSUME NEW p \in Proc, DoubleInstruction(p)
      PROVE  registers'[entry[r]] = registers[entry[r]]
  <2>1. current = p /\ entry[r] # entry[p] + 1
    BY <1>6 DEF DoubleInstruction
  <2>2. entry[r] \in Entry
    BY DEF IInv, TypeOK, Held
  <2> QED BY <1>6, <2>1, <2>2 DEF DoubleInstruction
<1>7. CASE Next
  <2>1. PICK p \in Proc : ProcessStep(p)
    BY <1>7 DEF Next
  <2> QED BY <1>1, <1>2, <1>3, <1>4, <1>5, <1>6, <2>1
          DEF ProcessStep, Enter, Leave, CloneError, Exit, Kill, Release, Released
<1>8. CASE UNCHANGED vars
  BY <1>1, <1>8 DEF vars
<1> QED BY <1>7, <1>8

(* The registers of a process change only while it runs, although execve   *)
(* leaves instructions working on an area that was given back, or by a     *)
(* double of the process with the area before its own.                     *)
THEOREM RegistersCorrect == Spec => RegistersPrivate
<1>1. IInv /\ [Next]_vars => [OthersKept]_vars
  BY OthersKeptLemma
<1>2. RegistersPrivate <=> [][OthersKept]_vars
  BY DEF RegistersPrivate, OthersKept
<1> QED BY <1>1, <1>2, Invariance, PTL DEF Spec
==============================================================================
