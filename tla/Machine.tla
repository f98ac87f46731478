------------------------------- MODULE Machine -------------------------------
(***************************************************************************)
(* The interpreter: runInstLoop of src/src/process.js, with the loader of  *)
(* executables, delivery of signals and the restart of calls that block.   *)
(*                                                                         *)
(* One process.  Memory has its contents and the rights of pages (sharing  *)
(* and translation are in PageMemory).  A word of memory is decoded by     *)
(* Decode; imm has half of a word's bits, as in MIPS.  An Error, also that *)
(* of a fault, ends the emulator; what the instruction did before is not   *)
(* looked at.  Registers are numbered as in the code.                      *)
(***************************************************************************)
EXTENDS Loader

CONSTANTS
  Executables,   \* bound: executables, with a field action: what the program sets by sigaction
  SavedOrder,    \* 0..67 in order: registers as a signal saves them; bound: those that are used
  Decode,        \* Decode[w]: [op, rs, rt, rd, imm]
  Region,        \* 2^28: what a jump stays in
  Quanta,        \* 500000; bound: instructions of a quantum
  Results,       \* bound: results of calls
  MaxSignals,    \* bound: signals that are sent
  CallKind       \* CallKind[n]: "simple", "blocking", "signals" or "exit"; other calls are unknown

V0 == 2
A0 == 4
A1 == 5
A3 == 7
T9 == 25
Sp == 29
Ra == 31
PC == 64               \* STATE_PC
PendingBranch == 65    \* STATE_PENDINGBRANCH
Low == 66
High == 67
F(n) == 32 + n         \* a register for floating point
Condition == F(31)     \* where comparisons leave their result
Registers == {SavedOrder[k] : k \in DOMAIN SavedOrder}
SigDfl == 0
SigIgn == 1
NotFatal == {18, 20, 21, 23, 24, 25, 26, 27}    \* signals that by default stop a process or are ignored

VARIABLES
  exe,          \* what is to be loaded, then None
  registers, mem, flags,
  inside,       \* runInstLoop runs
  pc, pending,  \* its local variables
  left,         \* maxInsts - insts
  running, exited,
  queue,        \* signalQueue.length: the same signal is queued once
  sent,         \* signals sent so far
  action,       \* of the signal that is sent: its number, sa_handler and sa_flags
  thrown        \* an Error ended the emulator
vars == <<exe, registers, mem, flags, inside, pc, pending, left, running, exited, queue, sent, action, thrown>>
kernel == <<exe, flags, inside, running, exited, queue, sent, action, thrown>>

None == [type |-> "none"]

Throws ==
  /\ thrown' = TRUE
  /\ UNCHANGED <<exe, registers, mem, flags, inside, pc, pending, left, running, exited, queue, sent, action>>

-----------------------------------------------------------------------------
(* JavaScript's operators on numbers: | & ^ ~ << >> take and give signed   *)
(* words, >>> gives an unsigned one.  Here & | and ^ give the same word,   *)
(* unsigned: what they give is stored.                                     *)
Shl(x, n) == I(I(x) * Two[n])
Sar(x, n) == I(x) \div Two[n]
Shr(x, n) == U(x) \div Two[n]
And(x, y) == Number(Bits(x) \cap Bits(y))
Or(x, y) == Number(Bits(x) \cup Bits(y))
Xor(x, y) == Number((Bits(x) \cup Bits(y)) \ (Bits(x) \cap Bits(y)))
Not(x) == -x - 1

(* A store into the Uint32Array of registers; every case that computes a   *)
(* register's value leaves register 0 alone.                               *)
PutAny(r, d, x) == [r EXCEPT ![d] = U(x)]    \* mutant: register 0 is written
Put(r, d, x) == IF d = 0 THEN r ELSE [r EXCEPT ![d] = U(x)]

ShiftOps == {"sll", "srl", "sra"}
ShiftByOps == {"sllv", "srlv", "srav"}
AluOps == {"add", "addu", "sub", "subu", "and", "or", "xor", "nor", "slt", "sltu"}
ImmOps == {"addi", "addiu", "slti", "sltiu", "andi", "ori", "xori", "lui"}

ShiftValue(op, x, n) ==
  CASE op \in {"sll", "sllv"} -> Shl(x, n)
    [] op \in {"srl", "srlv"} -> Shr(x, n)
    [] op \in {"sra", "srav"} -> Sar(x, n)
Flag(condition) == IF condition THEN 1 ELSE 0
AluValue(op, s, t) ==
  CASE op \in {"add", "addu"} -> t + s
    [] op \in {"sub", "subu"} -> s - t
    [] op = "and" -> And(t, s)
    [] op = "or" -> Or(t, s)
    [] op = "xor" -> Xor(t, s)
    [] op = "nor" -> Not(Or(t, s))
    [] op = "slt" -> Flag(I(s) < I(t))
    [] op = "sltu" -> Flag(s < t)
ImmValue(op, s, imm) ==
  LET simm == Extended(imm, 2 * B)
  IN CASE op \in {"addi", "addiu"} -> s + simm
       [] op = "slti" -> Flag(I(s) < simm)
       [] op = "sltiu" -> Flag(s < U(simm))
       [] op = "andi" -> And(s, imm)
       [] op = "ori" -> Or(s, imm)
       [] op = "xori" -> Xor(s, imm)
       [] op = "lui" -> Shl(imm, 2 * B)

(* signedMult: <<high, low>>, from products of halves.                     *)
HalfBits == 2 * B
Half == Two[HalfBits]
SignedMult(a, b) ==
  LET u1 == a % Half  u0 == Sar(a, HalfBits)
      v1 == b % Half  v0 == Sar(b, HalfBits)
      t1 == U(u1 * v1)
      t2 == U(u0 * v1 + Shr(t1, HalfBits))
      t3 == U(u1 * v0 + (t2 % Half))
      w1 == U(Sar(t2, HalfBits))
      k == U(Sar(t3, HalfBits))
  IN <<U(u0 * v0 + w1 + k), U(Shl(t3, HalfBits) + (t1 % Half))>>

(* unsignedMult: the sum of the middle products may need one bit more.     *)
CarryLost(tmp) == 0    \* mutant
Carry(tmp) == IF tmp > Two[W] - 1 THEN Half ELSE 0
UnsignedMult(a, b) ==
  LET tl == a % Half  th == Shr(a, HalfBits)
      sl == b % Half  sh == Shr(b, HalfBits)
      mid == th * sl + sh * tl
      tmp == mid + Shr(tl * sl, HalfBits)
  IN <<U(th * sh + Shr(tmp, HalfBits) + Carry(tmp)), U(Shl(mid, HalfBits) + tl * sl)>>

SignedDiv(s, t) == <<U(Remainder(Remainder(I(s), I(t)) + I(t), I(t))), U(Quotient(I(s), I(t)))>>
UnsignedDiv(s, t) == <<s % t, s \div t>>

-----------------------------------------------------------------------------
(* The loop.  oldpc is pc, and oldpending is pending, until they change.   *)
(* The instruction is in mem32, which has no words across those.           *)
Instruction == Decode[WordAt(mem, Aligned(pc))]
Allowed(a, n, prot) ==
  \A i \in 0..(n - 1) : PageOf(U(a + i)) \in Page /\ prot \in flags[PageOf(U(a + i))]
Rs == registers[Instruction.rs]
Rt == registers[Instruction.rt]
Simm == Extended(Instruction.imm, 2 * B)

(* Where the loop goes on: a branch is delayed by one instruction.         *)
Following == IF pending # 0 THEN pending ELSE U(pc + 4)

Fetched == ~thrown /\ inside /\ left > 0 /\ Allowed(pc, 1, "X")
Is(ops) == Fetched /\ Instruction.op \in ops

Goes(r, m, nextpc, nextpending) ==
  /\ registers' = r /\ mem' = m
  /\ pc' = nextpc /\ pending' = nextpending
  /\ left' = left - 1
  /\ UNCHANGED kernel
Computes(d, x) == Goes(Put(registers, d, x), mem, Following, 0)

Arithmetic ==
  \/ Is(ShiftOps) /\ Computes(Instruction.rd, ShiftValue(Instruction.op, Rt, Instruction.imm % W))
  \/ Is(ShiftByOps) /\ Computes(Instruction.rd, ShiftValue(Instruction.op, Rt, Rs % W))
  \/ Is(AluOps) /\ Computes(Instruction.rd, AluValue(Instruction.op, Rs, Rt))
  \/ Is(ImmOps) /\ Computes(Instruction.rt, ImmValue(Instruction.op, Rs, Instruction.imm))

SetsHighLow(result) ==
  Goes([registers EXCEPT ![High] = result[1], ![Low] = result[2]], mem, Following, 0)
Nothing == Goes(registers, mem, Following, 0)

MultiplyDivide ==
  \/ Is({"mult"}) /\ SetsHighLow(SignedMult(Rt, Rs))
  \/ Is({"multu"}) /\ SetsHighLow(UnsignedMult(Rt, Rs))
  \/ Is({"div"}) /\ Rt # 0 /\ SetsHighLow(SignedDiv(Rs, Rt))
  \/ Is({"divu"}) /\ Rt # 0 /\ SetsHighLow(UnsignedDiv(Rs, Rt))
  \/ Is({"div", "divu"}) /\ Rt = 0 /\ Nothing

MoveHighLow ==
  \/ Is({"mfhi"}) /\ Computes(Instruction.rd, registers[High])
  \/ Is({"mflo"}) /\ Computes(Instruction.rd, registers[Low])
  \/ Is({"mthi"}) /\ Computes(High, Rs)
  \/ Is({"mtlo"}) /\ Computes(Low, Rs)

-----------------------------------------------------------------------------
LikelyOps == {"beql", "bnel", "blezl", "bgtzl", "bltzl", "bgezl"}
LinkOps == {"bltzal", "bgezal"}
BranchOps == {"beq", "bne", "blez", "bgtz", "bltz", "bgez"} \cup LikelyOps \cup LinkOps

(* bltzal falls through into bgezal, so that it always branches.           *)
Taken(op, s, t) ==
  CASE op \in {"beq", "beql"} -> s = t
    [] op \in {"bne", "bnel"} -> s # t
    [] op \in {"blez", "blezl"} -> I(s) <= 0
    [] op \in {"bgtz", "bgtzl"} -> I(s) > 0
    [] op \in {"bltz", "bltzl"} -> I(s) < 0
    [] op \in {"bgez", "bgezl", "bgezal"} -> I(s) >= 0
    [] op = "bltzal" -> I(s) < 0 \/ I(s) >= 0

SkipsNone(op, next) == next       \* mutant: the delay slot of a likely branch is executed
Skips(op, next) == IF op \in LikelyOps THEN U(next + 4) ELSE next

Branch ==
  /\ Is(BranchOps)
  /\ LET op == Instruction.op
         r == IF op \in LinkOps THEN Put(registers, Ra, Following + 4) ELSE registers
     IN IF Taken(op, r[Instruction.rs], Rt)
        THEN Goes(r, mem, Following, U(Following + Shl(Simm, 2)))
        ELSE Goes(r, mem, Skips(op, Following), 0)

JumpTarget == U((Following \div Region) * Region + ((4 * Instruction.imm) % Region))
Jump ==
  \/ Is({"j"}) /\ Goes(registers, mem, Following, JumpTarget)
  \/ Is({"jal"}) /\ Goes(Put(registers, Ra, Following + 4), mem, Following, JumpTarget)
  \/ Is({"jr"}) /\ Goes(registers, mem, Following, Rs)
  \/ Is({"jalr"}) /\ Goes(Put(registers, Instruction.rd, Following + 4), mem, Following, Rs)

-----------------------------------------------------------------------------
(* Loads and stores.                                                       *)
Addr == U(Rs + Simm)
AlignedOps == {"lwl", "lwr", "swl", "swr"}
Size(op) ==
  CASE op \in {"lb", "lbu", "sb"} -> 1 [] op \in {"lh", "lhu", "sh"} -> 2 [] OTHER -> 4
Place(op) == IF op \in AlignedOps THEN Aligned(Addr) ELSE Addr
LoadOps == {"lb", "lbu", "lh", "lhu", "lwl", "lwr", "lw", "ll"}
StoreOps == {"sb", "sh", "swl", "swr", "sw", "sc"}

(* The others are taken modulo 2^32.  Those that are not are refused below *)
(* 0; past 2^32 they are, unless the cache has page 0, which they then mean*)
BareOps == {"lb", "lbu", "swl", "swr"}
Below == Instruction.op \in BareOps /\ Rs + Simm < 0
Outside == Instruction.op \in BareOps /\ Rs + Simm \notin Word

(* Parts of an aligned word take the place of parts of the register.       *)
LoadLeft(old, value, mask) ==
  IF mask = 3 THEN value
  ELSE Or(And(old, Shr(Two[W] - 1, (1 + mask) * B)), Shl(value, (3 - mask) * B))
LoadRight(old, value, mask) ==
  IF mask = 0 THEN value
  ELSE Or(And(old, U(Shl(Two[W] - 1, (4 - mask) * B))), Shr(value, mask * B))

LoadValue(op) ==
  LET v == WordAt(mem, Place(op))
  IN CASE op = "lbu" -> ByteOf(v, 0)
       [] op = "lb" -> Extended(v, B)
       [] op = "lhu" -> v % Half
       [] op = "lh" -> Extended(v, HalfBits)
       [] op = "lwl" -> LoadLeft(Rt, v, Addr % 4)
       [] op = "lwr" -> LoadRight(Rt, v, Addr % 4)
       [] op \in {"lw", "ll"} -> v

(* swl stores the highest bytes of the register up to an address, swr the  *)
(* lowest ones from it on, in the word that the address is in.             *)
Stored(op) ==
  CASE op = "swl" -> [a \in Address |-> IF a \in Place(op)..Addr THEN ByteOf(Rt, 3 - (Addr - a)) ELSE mem[a]]
    [] op = "swr" -> [a \in Address |-> IF a \in Addr..(Place(op) + 3) THEN ByteOf(Rt, a - Addr) ELSE mem[a]]
    [] OTHER -> WithBytes(mem, Addr, Rt, Size(op))

Load ==
  /\ Is(LoadOps)
  /\ \/ Instruction.rt = 0 /\ Nothing
     \/ /\ Instruction.rt # 0 /\ ~Below /\ Allowed(Place(Instruction.op), Size(Instruction.op), "R")
        /\ Computes(Instruction.rt, LoadValue(Instruction.op))
Store ==
  /\ Is(StoreOps) /\ ~Below /\ Allowed(Place(Instruction.op), Size(Instruction.op), "W")
  /\ Goes(IF Instruction.op = "sc" THEN Put(registers, Instruction.rt, 1) ELSE registers,
          Stored(Instruction.op), Following, 0)

-----------------------------------------------------------------------------
(* Floating point, but for the arithmetic: loads, stores and moves of its  *)
(* registers, comparisons with any result, and branches.                   *)
FloatLoadOps == {"lwc1", "ldc1"}
FloatStoreOps == {"swc1", "sdc1"}
FloatSize(op) == IF op \in {"ldc1", "sdc1"} THEN 8 ELSE 4

FloatLoad ==
  /\ Is(FloatLoadOps) /\ Allowed(Addr, FloatSize(Instruction.op), "R")
  /\ LET first == [registers EXCEPT ![F(Instruction.rt)] = WordAt(mem, Addr)]
     IN Goes(IF Instruction.op = "lwc1" THEN first
             ELSE [first EXCEPT ![F(Instruction.rt + 1)] = WordAt(mem, U(Addr + 4))], mem, Following, 0)

FloatStored ==
  LET first == WithBytes(mem, Addr, registers[F(Instruction.rt)], 4)
  IN IF Instruction.op = "swc1" THEN first
     ELSE WithBytes(first, U(Addr + 4), registers[F(Instruction.rt + 1)], 4)
FloatStore ==
  /\ Is(FloatStoreOps) /\ Allowed(Addr, FloatSize(Instruction.op), "W")
  /\ Goes(registers, FloatStored, Following, 0)

(* mtc1 takes its operands for each other: MIPS has F(rd) get what is in rt.*)
FloatMove ==
  \/ Is({"mfc1"}) /\ Computes(Instruction.rt, registers[F(Instruction.rd)])
  \/ Is({"mtc1"}) /\ Computes(F(Instruction.rt), registers[Instruction.rd])

(* Bit 23 of 32.  It is a bit of the last register for floating point too. *)
ConditionBit == (23 * W) \div 32
Holds(x) == ConditionBit \in Bits(x)
With(x, result) == Number(IF result THEN Bits(x) \cup {ConditionBit} ELSE Bits(x) \ {ConditionBit})
Compare ==
  /\ Is({"c.cond"})
  /\ \E result \in BOOLEAN :
       Goes([registers EXCEPT ![Condition] = With(@, result)], mem, Following, 0)

(* bc1f, bc1t, bc1fl and bc1tl.                                            *)
FloatBranch ==
  /\ Is({"bc1"}) /\ Instruction.rt \in 0..3
  /\ LET taken == Holds(registers[Condition]) = (Instruction.rt \in {1, 3})
         likely == Instruction.rt \in {2, 3}
     IN IF taken THEN Goes(registers, mem, Following, U(Following + Shl(Simm, 2)))
        ELSE Goes(registers, mem, IF likely THEN U(Following + 4) ELSE Following, 0)

(* setupFrameForSignal, on registers that hold PC and PendingBranch.       *)
FrameAt(r) == U(r[Sp] - 4 * Len(SavedOrder))
WithFrame(r, m) == WithWords(m, FrameAt(r), [k \in DOMAIN SavedOrder |-> r[SavedOrder[k]]])
Trampoline == U(VdsoPage * PageSize + (IF action.siginfo THEN 8 ELSE 0))
InHandlerPending(r) ==       \* mutant: the branch that was pending stays so
  [r EXCEPT ![A0] = action.signo, ![A1] = 0, ![Sp] = FrameAt(r), ![Ra] = Trampoline,
            ![T9] = action.handler, ![PC] = action.handler]
InHandler(r) ==
  [r EXCEPT ![A0] = action.signo, ![A1] = 0, ![Sp] = FrameAt(r), ![Ra] = Trampoline,
            ![T9] = action.handler, ![PC] = action.handler, ![PendingBranch] = 0]

(* handleSignal, which ignores all signals without a handler.              *)
Caught == action.handler \notin {SigDfl, SigIgn}
Handles(r, m) == IF Caught THEN <<InHandler(r), WithFrame(r, m)>> ELSE <<r, m>>
Handled == IF Caught /\ action.oneshot THEN [action EXCEPT !.handler = SigDfl] ELSE action
MayHandle ==
  Caught => /\ registers[Sp] >= 4 * Len(SavedOrder)
            /\ Allowed(FrameAt(registers), 4 * Len(SavedOrder), "W")

(* sendSignal ends the process at once.                                    *)
Fatal == action.handler = SigDfl /\ action.signo \notin NotFatal

(* The call that was executed: its result and error flag, and one signal.  *)
WithResult(r, ret) ==
  IF ret < 0 THEN [r EXCEPT ![V0] = U(-ret), ![A3] = 1] ELSE [r EXCEPT ![V0] = U(ret), ![A3] = 0]

Kind == IF registers[V0] \in DOMAIN CallKind THEN CallKind[registers[V0]] ELSE "unknown"
Entered == [registers EXCEPT ![PC] = Following, ![PendingBranch] = 0]

Starts == exe = None /\ ~inside /\ running /\ ~exited

(* Faults, traps, and what is not implemented.                             *)
Known == ShiftOps \cup ShiftByOps \cup AluOps \cup ImmOps \cup BranchOps \cup LoadOps \cup StoreOps
  \cup {"mult", "multu", "div", "divu", "mfhi", "mflo", "mthi", "mtlo", "j", "jal", "jr", "jalr",
        "syscall", "sync", "teq", "tne", "mfc1", "mtc1", "c.cond", "bc1"}
  \cup FloatLoadOps \cup FloatStoreOps
Fails ==
  \/ ~thrown /\ inside /\ left > 0 /\ ~Allowed(pc, 1, "X")
  \/ Is({"teq"}) /\ Rs = Rt
  \/ Is({"tne"}) /\ Rs # Rt
  \/ Is(LoadOps) /\ Instruction.rt # 0 /\ (Outside \/ ~Allowed(Place(Instruction.op), Size(Instruction.op), "R"))
  \/ Is(StoreOps) /\ (Outside \/ ~Allowed(Place(Instruction.op), Size(Instruction.op), "W"))
  \/ Is({"bc1"}) /\ Instruction.rt \notin 0..3
  \/ Is(FloatLoadOps) /\ ~Allowed(Addr, FloatSize(Instruction.op), "R")
  \/ Is(FloatStoreOps) /\ ~Allowed(Addr, FloatSize(Instruction.op), "W")
  \/ Fetched /\ Instruction.op \notin Known
  \/ Is({"syscall"}) /\ Kind = "signals" /\ ~MayHandle
  \/ ~thrown /\ Starts /\ queue = 1 /\ ~MayHandle

Passes ==
  /\ \/ Is({"sync"})
     \/ Is({"teq"}) /\ Rs # Rt
     \/ Is({"tne"}) /\ Rs = Rt
  /\ Nothing

-----------------------------------------------------------------------------
(* The effect of calls.                                                   *)
Finishes(r, m) ==
  /\ registers' = r /\ mem' = m
  /\ pc' = r[PC] /\ pending' = r[PendingBranch]
  /\ left' = left - 1
  /\ UNCHANGED <<exe, flags, inside, queue, running, exited, thrown>>

(* syscall; a call may send its process a signal (a read of the terminal   *)
(* in a browser that finds an INTR), which is handled after it.  An unknown*)
(* call returns before there is a result.                                  *)
Returns ==
  /\ Is({"syscall"}) /\ Kind \in {"simple", "blocking"}
  /\ \E ret \in Results : Finishes(WithResult(Entered, ret), mem)
  /\ UNCHANGED <<sent, action>>
Signals ==
  /\ Is({"syscall"}) /\ Kind = "signals" /\ ~Fatal /\ MayHandle
  /\ \E ret \in Results : LET s == Handles(WithResult(Entered, ret), mem) IN Finishes(s[1], s[2])
  /\ sent < MaxSignals /\ sent' = sent + 1 /\ action' = Handled
Unknown == Is({"syscall"}) /\ Kind = "unknown" /\ Finishes(Entered, mem) /\ UNCHANGED <<sent, action>>

(* A call that cannot go on: running is false, and the loop puts back where*)
(* it was, in a delay slot with the branch, for the call to start again.   *)
RestartedBare == [registers EXCEPT ![PC] = pc, ![PendingBranch] = 0]  \* mutant: without the branch
Restarted == [registers EXCEPT ![PC] = pc, ![PendingBranch] = pending]
Blocks ==
  /\ Is({"syscall"}) /\ Kind = "blocking"
  /\ registers' = Restarted
  /\ inside' = FALSE /\ running' = FALSE
  /\ pc' = 0 /\ pending' = 0 /\ left' = 0
  /\ UNCHANGED <<exe, mem, flags, exited, queue, sent, action, thrown>>

(* exit, or a call that sends a fatal signal: there is no result.          *)
Ends(signals) ==
  /\ registers' = Entered
  /\ inside' = FALSE /\ running' = FALSE /\ exited' = TRUE
  /\ pc' = 0 /\ pending' = 0 /\ left' = 0
  /\ queue' = queue + signals /\ sent' = sent + signals
  /\ UNCHANGED <<exe, mem, flags, action, thrown>>
Exit ==
  /\ Is({"syscall"})
  /\ \/ Kind = "exit" /\ Ends(0)
     \/ Kind = "signals" /\ Fatal /\ sent < MaxSignals /\ Ends(1)

-----------------------------------------------------------------------------
(* The start of a quantum, which handles what is queued, and its end.      *)
Enter ==
  LET s == IF queue = 1 THEN Handles(registers, mem) ELSE <<registers, mem>>
  IN /\ ~thrown /\ Starts
     /\ queue = 1 => MayHandle
     /\ registers' = s[1] /\ mem' = s[2]
     /\ pc' = s[1][PC] /\ pending' = s[1][PendingBranch]
     /\ inside' = TRUE /\ left' \in Quanta
     /\ queue' = 0 /\ action' = IF queue = 1 THEN Handled ELSE action
     /\ UNCHANGED <<exe, flags, running, exited, sent, thrown>>

Expire ==
  /\ ~thrown /\ inside /\ left = 0
  /\ registers' = [registers EXCEPT ![PC] = pc, ![PendingBranch] = pending]
  /\ inside' = FALSE /\ pc' = 0 /\ pending' = 0
  /\ UNCHANGED <<exe, mem, flags, left, running, exited, queue, sent, action, thrown>>

(* sendSignal by somebody else (a second one is dropped), and the callback  *)
(* of a call that blocks.                                                  *)
SendSignal ==
  /\ ~thrown /\ exe = None /\ ~inside /\ ~exited /\ queue = 0 /\ sent < MaxSignals
  /\ queue' = 1 /\ sent' = sent + 1 /\ running' = ~Fatal /\ exited' = Fatal
  /\ UNCHANGED <<exe, registers, mem, flags, inside, pc, pending, left, action, thrown>>
Wake ==
  /\ ~thrown /\ exe = None /\ ~running /\ ~exited
  /\ running' = TRUE
  /\ UNCHANGED <<exe, registers, mem, flags, inside, pc, pending, left, exited, queue, sent, action, thrown>>

-----------------------------------------------------------------------------
Init ==
  /\ exe \in Executables /\ action = exe.action
  /\ registers = [r \in Registers |-> 0]
  /\ mem = Blank.mem /\ flags = Blank.flags
  /\ inside = FALSE /\ pc = 0 /\ pending = 0 /\ left = 0
  /\ running = TRUE /\ exited = FALSE
  /\ queue = 0 /\ sent = 0 /\ thrown = FALSE

Boot ==
  /\ exe # None /\ ~thrown
  /\ LET s == Loaded(exe)
     IN IF s.error THEN Throws
        ELSE /\ registers' = [registers EXCEPT ![PC] = U(StartAddress(exe)), ![Sp] = U(StackPointer(exe))]
             /\ mem' = s.mem /\ flags' = s.flags /\ exe' = None
             /\ UNCHANGED <<inside, pc, pending, left, running, exited, queue, sent, action, thrown>>

Execute == Arithmetic \/ MultiplyDivide \/ MoveHighLow \/ Branch \/ Jump \/ Load \/ Store \/ Passes
  \/ FloatLoad \/ FloatStore \/ FloatMove \/ Compare \/ FloatBranch
Next ==
  \/ Boot \/ Enter \/ Expire \/ SendSignal \/ Wake
  \/ Execute \/ Returns \/ Signals \/ Unknown \/ Blocks \/ Exit
  \/ Fails /\ Throws
Spec == Init /\ [][Next]_vars

-----------------------------------------------------------------------------
(* The registers that a signal saves are all there are, each once, and its *)
(* frame fits the address space.  Instructions name registers; those that  *)
(* are loads or stores of doubles also have the register after it.         *)
Operands(i) ==
  CASE i.op \in FloatLoadOps \cup FloatStoreOps ->
         {i.rs, F(i.rt)} \cup (IF FloatSize(i.op) = 8 THEN {F(i.rt + 1)} ELSE {})
    [] i.op = "mfc1" -> {i.rt, F(i.rd)}
    [] i.op = "mtc1" -> {F(i.rt), i.rd}
    [] i.op \in {"bc1", "c.cond"} \/ i.op \notin Known -> {}
    [] OTHER -> {i.rs, i.rt, i.rd}
IsInstruction(i) ==
  /\ i.rs \in 0..31 /\ i.rt \in 0..31 /\ i.rd \in 0..31 /\ i.imm \in Nat
  /\ Operands(i) \subseteq Registers
  /\ i.op \in FloatLoadOps \cup FloatStoreOps /\ FloatSize(i.op) = 8 => i.rt # 31

Action == [signo : Word, handler : Word, siginfo : BOOLEAN, oneshot : BOOLEAN]
ASSUME MachineAssumption ==
  /\ SavedOrder \in Seq(0..67) /\ 4 * Len(SavedOrder) <= Two[W]
  /\ \A j, k \in DOMAIN SavedOrder : SavedOrder[j] = SavedOrder[k] => j = k
  /\ {0, V0, A0, A1, A3, T9, Sp, Ra, Condition, PC, PendingBranch, Low, High} \subseteq Registers
  /\ \A w \in Word : IsInstruction(Decode[w])
  /\ Region \in Nat \ {0} /\ Quanta \subseteq Nat /\ Results \subseteq Int /\ MaxSignals \in Nat
ASSUME ExecutablesAssumption ==
  None \notin Executables /\ \A e \in Executables : Executable(e) /\ e.action \in Action

TypeOK ==
  /\ registers \in [Registers -> Word] /\ registers[0] = 0
  /\ \A a \in Address : mem[a] \in Byte
  /\ pc \in Word /\ pending \in Word /\ left \in Nat
  /\ action \in Action /\ queue \in {0, 1} /\ sent \in queue..MaxSignals
  /\ inside => running /\ ~exited /\ queue = 0

-----------------------------------------------------------------------------
(* Every step of the interpreter, wherever quanta end, calls block and     *)
(* signals are handled, is a step of the architecture: whatever a branch,  *)
(* its delay slot and what comes between them do to pc and pending.        *)
Processor ==
  IF exe # None THEN [pc |-> -1]
  ELSE LET at == IF inside THEN pc ELSE registers[PC]
           branch == IF inside THEN pending ELSE registers[PendingBranch]
       IN [regs |-> [r \in Registers \ {PC, PendingBranch} |-> registers[r]], mem |-> mem, pc |-> at,
           npc |-> IF branch # 0 THEN branch ELSE U(at + 4)]
Arch == INSTANCE Architecture WITH
  Regs <- Registers \ {PC, PendingBranch}, Lo <- Low, Hi <- High, Instr <- Decode, PageLen <- PageSize,
  JumpSpan <- Region, Frame <- SavedOrder, Return <- VdsoPage * PageSize,
  cpu <- Processor, rights <- flags
ImplementsArchitecture == Arch!Spec

(* All segments, those of the interpreter last, and what they ask for.  The*)
(* vdso's page is there before them, with a frame of its own.              *)
InFile(h, a) == h.type = "load" /\ a \in h.vaddr..(h.vaddr + h.filesz - 1)
InMemory(h, a) == h.type = "load" /\ a \in h.vaddr..(h.vaddr + h.memsz - 1)
AllHeaders(e) == Headers(e) \o (IF e.interp = <<>> THEN <<>> ELSE InterpHeaders(e))
FileOf(e, k) == IF k <= Len(e.headers) THEN e.file ELSE e.interp[1].file
Bytes(g) == (g * PageSize)..(g * PageSize + PageSize - 1)
FilePages(h) == {g \in Page : \E a \in Bytes(g) : InFile(h, a)}
MemoryPages(h) == {g \in Page : \E a \in Bytes(g) : InMemory(h, a)}
Overlaps(e) ==
  LET h == AllHeaders(e)
  IN \E j \in DOMAIN h : \E i \in 1..(j - 1) : \E g \in (FilePages(h[j]) \cap MemoryPages(h[i])) \ {VdsoPage} :
       \A k \in 1..i : g \notin FilePages(h[k])
Contents(e, a) ==
  LET h == AllHeaders(e)
      has == {k \in DOMAIN h : InFile(h[k], a)}
      last == CHOOSE k \in has : \A l \in has : l <= k
  IN IF has = {} THEN 0 ELSE FileOf(e, last)[a - h[last].vaddr + h[last].offset + 1]
Rights(e, g) ==
  LET h == AllHeaders(e)
      has == {k \in DOMAIN h : g \in MemoryPages(h[k])}
  IN IF has = {} THEN {} ELSE h[FirstOf(has)].flags

PastLimit(e) == \E k \in DOMAIN AllHeaders(e) : \E a \in Address : InFile(AllHeaders(e)[k], a) /\ a >= Limit

(* The loader goes byte by byte over pages that it makes as it goes: what  *)
(* it leaves is the file's bytes, those of later segments over earlier     *)
(* ones, zeros in the rest of a page, the first segment's rights (where two*)
(* share a page).  It fails exactly when the type of the executable or of  *)
(* its interpreter is another, a segment has bytes in a page where earlier *)
(* ones have only zeros ("overlap bug"), or past the page table.           *)
SegmentsHold(e, m, rights) ==
  \A g \in Page \ (HeapPages \cup StackPages \cup {ArgPage, VdsoPage}) :
    /\ rights[g] = Rights(e, g)
    /\ \A a \in Bytes(g) : m[a] = Contents(e, a)
SegmentsLoaded ==
  [][exe # None =>
       IF ~Supported(exe) \/ Overlaps(exe) \/ PastLimit(exe) THEN thrown'
       ELSE ~thrown' /\ SegmentsHold(exe, mem', flags')]_vars

(* The frame that a C library reads from the stack pointer upwards gives   *)
(* back the arguments, the environment and the auxiliary vector, and does  *)
(* not reach over the top of the stack.  AT_BASE is the interpreter's, if  *)
(* its headers before its first segment have no third base.                *)
BaseFound(e) ==
  LET h == InterpHeaders(e)
      base == BaseOf(FirstLoad(h))
  IN /\ e.interp # <<>> /\ base # BaseAddress(e)
     /\ \A k \in 1..FirstOf(LoadsOf(h)) : BaseOf(h[k]) \in {base, BaseAddress(e)}
IsString(m, p, s) == (\A k \in DOMAIN s : m[p + k - 1] = s[k]) /\ m[p + Len(s)] = 0
FrameHolds(e, m, sp) ==
  LET at(k) == WordAt(m, sp + 4 * k)
      argc == Len(e.argv)
      aux == argc + Len(e.envp) + 3
  IN /\ sp % 4 = 0 /\ sp + 4 * (aux + 8) <= StackTop
     /\ at(0) = argc /\ at(argc + 1) = 0 /\ at(aux - 1) = 0
     /\ \A k \in DOMAIN e.argv : IsString(m, at(k), e.argv[k])
     /\ \A k \in DOMAIN e.envp : IsString(m, at(argc + 1 + k), e.envp[k])
     /\ at(aux) = 3 /\ at(aux + 2) = 7 /\ at(aux + 4) = 9 /\ at(aux + 6) = 0
     /\ BaseFound(e) => at(aux + 3) = U(InterpBias + BaseOf(FirstLoad(e.interp[1].headers)))
     /\ at(aux + 5) = U(EntryPoint(e))
StartFrame == [][exe # None /\ ~thrown' => FrameHolds(exe, mem', registers'[Sp])]_vars
==============================================================================
