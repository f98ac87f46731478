----------------------------- MODULE Architecture -----------------------------
(***************************************************************************)
(* What a program may take for granted: MIPS, as its manual has it, with   *)
(* the next program counter npc in place of pending branches, and a kernel *)
(* that is entered by calls and by signals.  There is no interpreter, no   *)
(* quantum and no sleep.                                                   *)
(*                                                                         *)
(* Not promised, because the interpreter does otherwise: bltzal may branch *)
(* whatever its register holds; the remainder of a division may have either*)
(* sign; a branch or a jump to 0 goes nowhere; one in the delay slot of    *)
(* another starts from where that goes; mtc1 exchanges its operands; and a *)
(* comparison changes a bit of the last register for floating point.       *)
(***************************************************************************)
EXTENDS Words

CONSTANTS
  Regs,        \* numbers of registers, Lo and Hi among them
  Lo, Hi,
  Instr,       \* Instr[word]: [op, rs, rt, rd, imm]
  PageLen,
  JumpSpan,    \* 2^28
  Frame,       \* the registers a signal saves, in order: pc is 64, the branch 65
  Return       \* where a handler returns to; if it asked for the siginfo, 8 bytes further

VARIABLES
  cpu,      \* [regs, mem, pc, npc], or NotLoaded
  rights,   \* of pages
  action    \* of a signal: [signo, handler, siginfo, oneshot]

NotLoaded == [pc |-> -1]
IsProcessor(c) ==
  /\ DOMAIN c = {"regs", "mem", "pc", "npc"}
  /\ c.regs \in [Regs -> Word] /\ c.mem \in [Word -> Byte] /\ c.pc \in Word /\ c.npc \in Word

May(a, n, right) ==
  \A i \in 0..(n - 1) : LET g == U(a + i) \div PageLen IN g \in DOMAIN rights /\ right \in rights[g]
Set(regs, d, x) == [regs EXCEPT ![d] = IF d = 0 THEN 0 ELSE U(x)]

Truth(b) == IF b THEN 1 ELSE 0

FlagBit == (23 * W) \div 32     \* of the register 63

Operation(op, s, t, sa) ==
  CASE op \in {"add", "addu", "addi", "addiu"} -> s + t
    [] op \in {"sub", "subu"} -> s - t
    [] op \in {"and", "andi"} -> Number(Bits(s) \cap Bits(t))
    [] op \in {"or", "ori"} -> Number(Bits(s) \cup Bits(t))
    [] op \in {"xor", "xori"} -> Number((Bits(s) \cup Bits(t)) \ (Bits(s) \cap Bits(t)))
    [] op = "nor" -> Number((0..(W - 1)) \ (Bits(s) \cup Bits(t)))
    [] op \in {"slt", "slti"} -> Truth(I(s) < I(t))
    [] op \in {"sltu", "sltiu"} -> Truth(s < t)
    [] op = "lui" -> Number({i + 2 * B : i \in Bits(t)} \cap 0..(W - 1))
    [] op \in {"sll", "sllv"} -> Number({i + sa : i \in Bits(t)} \cap 0..(W - 1))
    [] op \in {"srl", "srlv"} -> Number({i - sa : i \in Bits(t)} \cap 0..(W - 1))
    [] op \in {"sra", "srav"} ->
         Number({i \in 0..(W - 1) : (IF i + sa < W THEN i + sa ELSE W - 1) \in Bits(t)})

Shifts == {"sll", "srl", "sra"}
VariableShifts == {"sllv", "srlv", "srav"}
ThreeRegister == {"add", "addu", "sub", "subu", "and", "or", "xor", "nor", "slt", "sltu"}
SignedImmediate == {"addi", "addiu", "slti", "sltiu"}
Immediate == {"andi", "ori", "xori", "lui"}

(* The sets of <<register, value>> that an instruction may compute.        *)
Computed(i, r, m) ==
  LET s == r[i.rs]
      t == r[i.rt]
      simm == Extended(i.imm, 2 * B)
  IN CASE i.op \in Shifts -> {{<<i.rd, Operation(i.op, s, t, i.imm % W)>>}}
       [] i.op \in VariableShifts -> {{<<i.rd, Operation(i.op, s, t, s % W)>>}}
       [] i.op \in ThreeRegister -> {{<<i.rd, Operation(i.op, s, t, 0)>>}}
       [] i.op \in SignedImmediate -> {{<<i.rt, Operation(i.op, s, U(simm), 0)>>}}
       [] i.op \in Immediate -> {{<<i.rt, Operation(i.op, s, i.imm, 0)>>}}
       [] i.op = "mfhi" -> {{<<i.rd, r[Hi]>>}}
       [] i.op = "mflo" -> {{<<i.rd, r[Lo]>>}}
       [] i.op = "mthi" -> {{<<Hi, s>>}}
       [] i.op = "mtlo" -> {{<<Lo, s>>}}
       [] i.op = "mult" -> {{<<Hi, (I(s) * I(t)) \div Two[W]>>, <<Lo, I(s) * I(t)>>}}
       [] i.op = "multu" -> {{<<Hi, (s * t) \div Two[W]>>, <<Lo, s * t>>}}
       [] i.op = "div" /\ t # 0 ->
            {{<<Lo, Quotient(I(s), I(t))>>, <<Hi, x>>} :
               x \in {y \in {Remainder(I(s), I(t)) + k * I(t) : k \in -1..1} : Abs(y) < Abs(I(t))}}
       [] i.op = "divu" /\ t # 0 -> {{<<Lo, s \div t>>, <<Hi, s % t>>}}
       [] i.op = "mfc1" -> {{<<i.rt, r[32 + i.rd]>>}}
       [] i.op = "mtc1" -> {{<<32 + i.rt, r[i.rd]>>}}
       [] i.op = "c.cond" ->
            {{<<63, Number(Bits(r[63]) \cup {FlagBit})>>}, {<<63, Number(Bits(r[63]) \ {FlagBit})>>}}
       [] i.op \in {"sync", "teq", "tne"} \/ (i.op \in {"div", "divu"} /\ t = 0) -> {{}}
       [] OTHER -> {}

Updated(r, values) == [d \in Regs |-> IF d # 0 /\ \E v \in values : v[1] = d
                                      THEN U((CHOOSE v \in values : v[1] = d)[2]) ELSE r[d]]

(* Loads take n bytes at a, the lowest first.  lwl and lwr take the part of*)
(* the four bytes that is in the word of a, and keep the rest.             *)
Effective(i, r) == U(r[i.rs] + Extended(i.imm, 2 * B))
Taking(m, a, n) == [k \in 0..3 |-> IF k < n THEN m[U(a + k)] ELSE 0]
LoadedValue(i, r, m) ==
  LET a == Effective(i, r)
      old == [k \in 0..3 |-> ByteOf(r[i.rt], k)]
      in(b) == b \div 4 = a \div 4
  IN CASE i.op = "lbu" -> Joined(Taking(m, a, 1))
       [] i.op = "lb" -> Extended(Joined(Taking(m, a, 1)), B)
       [] i.op = "lhu" -> Joined(Taking(m, a, 2))
       [] i.op = "lh" -> Extended(Joined(Taking(m, a, 2)), 2 * B)
       [] i.op \in {"lw", "ll"} -> Joined(Taking(m, a, 4))
       [] i.op = "lwl" -> Joined([k \in 0..3 |-> IF in(a - 3 + k) THEN m[a - 3 + k] ELSE old[k]])
       [] i.op = "lwr" -> Joined([k \in 0..3 |-> IF in(a + k) THEN m[a + k] ELSE old[k]])
Stored(i, r, m) ==
  LET a == Effective(i, r)
      size == CASE i.op = "sb" -> 1 [] i.op = "sh" -> 2 [] OTHER -> 4
      first == IF i.op = "swl" THEN a - 3 ELSE a
      Hit(b) == /\ b \in {U(first + k) : k \in 0..(size - 1)}
                /\ i.op \in {"swl", "swr"} => b \div 4 = a \div 4
  IN [b \in Word |-> IF Hit(b) THEN ByteOf(r[i.rt], U(b - first)) ELSE m[b]]
Loads == {"lb", "lbu", "lh", "lhu", "lw", "ll", "lwl", "lwr"}
Stores == {"sb", "sh", "sw", "sc", "swl", "swr"}

(* Registers for floating point have four bytes; doubles are in two.       *)
FloatLoads == {"lwc1", "ldc1"}
FloatStores == {"swc1", "sdc1"}
FloatWords(i) == IF i.op \in {"ldc1", "sdc1"} THEN 0..1 ELSE {0}
FloatsLoaded(i, r, m) ==
  {<<32 + i.rt + k, Joined(Taking(m, U(Effective(i, r) + 4 * k), 4))>> : k \in FloatWords(i)}
FloatsStored(i, r, m) ==
  [b \in Word |-> LET at == U(b - Effective(i, r))
                  IN IF at \div 4 \in FloatWords(i) THEN ByteOf(r[32 + i.rt + (at \div 4)], at % 4) ELSE m[b]]

(* Branches: whether, where to, and what becomes of the delay slot.        *)
Condition(op, s, t) ==
  CASE op \in {"beq", "beql"} -> {s = t}
    [] op \in {"bne", "bnel"} -> {s # t}
    [] op \in {"blez", "blezl"} -> {I(s) <= 0}
    [] op \in {"bgtz", "bgtzl"} -> {I(s) > 0}
    [] op \in {"bltz", "bltzl"} -> {I(s) < 0}
    [] op \in {"bgez", "bgezl", "bgezal"} -> {I(s) >= 0}
    [] op = "bltzal" -> {I(s) < 0, TRUE}
Likely == {"beql", "bnel", "blezl", "bgtzl", "bltzl", "bgezl"}
Links == {"bltzal", "bgezal", "jal", "jalr"}
Branches == {"beq", "bne", "blez", "bgtz", "bltz", "bgez", "bltzal", "bgezal"} \cup Likely
Jumps == {"j", "jal", "jr", "jalr"}
Linked(i, r, npc) ==
  IF i.op \in Links THEN Set(r, IF i.op = "jalr" THEN i.rd ELSE 31, npc + 4) ELSE r
JumpsTo(i, r, npc) ==
  IF i.op \in {"j", "jal"} THEN (npc - (npc % JumpSpan)) + ((4 * i.imm) % JumpSpan) ELSE r[i.rs]

(* What one instruction may make of the processor.  It is in the word that *)
(* pc is in.                                                               *)
Current(c) == Instr[WordAt(c.mem, Aligned(c.pc))]
After(c) ==
  LET i == Current(c)
      next == U(c.npc + 4)
      Going(target) == IF U(target) = 0 THEN next ELSE target
      Target == Going(c.npc + 4 * Extended(i.imm, 2 * B))
      To(r, m, pc, npc) == [regs |-> r, mem |-> m, pc |-> pc, npc |-> U(npc)]
      a == Effective(i, c.regs)
      n == CASE i.op \in {"lb", "lbu", "sb"} -> 1 [] i.op \in {"lh", "lhu", "sh"} -> 2
             [] i.op \in {"lwl", "lwr", "swl", "swr"} -> 1 [] OTHER -> 4
  IN IF i.op \in Branches
     THEN LET r == Linked(i, c.regs, c.npc)
          IN {IF taken THEN To(r, c.mem, c.npc, Target)
              ELSE IF i.op \in Likely THEN To(r, c.mem, next, next + 4)
              ELSE To(r, c.mem, c.npc, next) : taken \in Condition(i.op, r[i.rs], r[i.rt])}
     ELSE IF i.op = "bc1"
     THEN IF (FlagBit \in Bits(c.regs[63])) = (i.rt % 2 = 1)
          THEN {To(c.regs, c.mem, c.npc, Target)}
          ELSE IF i.rt < 2 THEN {To(c.regs, c.mem, c.npc, next)} ELSE {To(c.regs, c.mem, next, next + 4)}
     ELSE IF i.op \in FloatLoads
     THEN {To(Updated(c.regs, FloatsLoaded(i, c.regs, c.mem)), c.mem, c.npc, next) :
             ok \in {x \in {TRUE} : May(a, 4 * Cardinality(FloatWords(i)), "R")}}
     ELSE IF i.op \in FloatStores
     THEN {To(c.regs, FloatsStored(i, c.regs, c.mem), c.npc, next) :
             ok \in {x \in {TRUE} : May(a, 4 * Cardinality(FloatWords(i)), "W")}}
     ELSE IF i.op \in Jumps
     THEN {To(Linked(i, c.regs, c.npc), c.mem, c.npc, Going(JumpsTo(i, c.regs, c.npc)))}
     ELSE IF i.op \in Loads
     THEN {To(IF i.rt = 0 THEN c.regs ELSE Set(c.regs, i.rt, LoadedValue(i, c.regs, c.mem)), c.mem, c.npc, next) :
             ok \in {x \in {TRUE} : i.rt = 0 \/ May(a, n, "R")}}
     ELSE IF i.op \in Stores
     THEN {To(IF i.op = "sc" THEN Set(c.regs, i.rt, 1) ELSE c.regs, Stored(i, c.regs, c.mem), c.npc, next) :
             ok \in {x \in {TRUE} : May(a, n, "W")}}
     ELSE {To(Updated(c.regs, values), c.mem, c.npc, next) : values \in Computed(i, c.regs, c.mem)}

(* A signal that is neither ignored nor left to the default saves the      *)
(* processor below the stack, so that it can go on from there, and goes to *)
(* the handler: once, if that was asked for.                               *)
Interrupted(c) ==
  LET sp == U(c.regs[29] - 4 * Len(Frame))
      saved(k, branch) == CASE Frame[k] = 64 -> c.pc [] Frame[k] = 65 -> branch [] OTHER -> c.regs[Frame[k]]
      memory(branch) == [b \in Word |-> IF U(b - sp) < 4 * Len(Frame)
                                        THEN ByteOf(saved(U(b - sp) \div 4 + 1, branch), U(b - sp) % 4)
                                        ELSE c.mem[b]]
      regs == [c.regs EXCEPT ![4] = action.signo, ![5] = 0, ![25] = action.handler, ![29] = sp,
                             ![31] = U(Return + (IF action.siginfo THEN 8 ELSE 0))]
  IN {[regs |-> regs, mem |-> memory(branch), pc |-> action.handler, npc |-> U(action.handler + 4)] :
        branch \in {c.npc} \cup {z \in {0} : c.npc = U(c.pc + 4)}}
Delivers(c) ==
  /\ action.handler \notin {0, 1} /\ cpu' \in Interrupted(c)
  /\ action' = IF action.oneshot THEN [action EXCEPT !.handler = 0] ELSE action

(* A call gives a result, and a flag that it is an error; or nothing.      *)
Answers(c, result, error) ==
  LET next == [c EXCEPT !.pc = c.npc, !.npc = U(c.npc + 4)]
  IN {next, [next EXCEPT !.regs = Set(Set(c.regs, 2, result), 7, error)]}
AtCall(c) == Current(c).op = "syscall"

-----------------------------------------------------------------------------
Init == cpu = NotLoaded
Start == cpu = NotLoaded /\ IsProcessor(cpu') /\ UNCHANGED action
Execute ==
  /\ cpu # NotLoaded /\ ~AtCall(cpu) /\ May(cpu.pc, 1, "X") /\ cpu' \in After(cpu)
  /\ UNCHANGED action
Call ==
  /\ cpu # NotLoaded /\ AtCall(cpu) /\ May(cpu.pc, 1, "X") /\ cpu'.regs[7] \in {0, 1, cpu.regs[7]}
  /\ \E c \in Answers(cpu, cpu'.regs[2], cpu'.regs[7]) : (cpu' = c /\ UNCHANGED action) \/ Delivers(c)
Signal == cpu # NotLoaded /\ Delivers(cpu)
Next == (Start \/ Execute \/ Call \/ Signal) /\ (cpu # NotLoaded => UNCHANGED rights)
Spec == Init /\ [][Next]_<<cpu, rights, action>>
===============================================================================
