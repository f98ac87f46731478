------------------------------- MODULE MCMachine -------------------------------
(* A small instance of Machine for TLC: words of eight bits, short programs *)
(* that execute every instruction, and executables of every shape.          *)
EXTENDS Machine, SequencesExt

R(op, rd, rs, rt) == [op |-> op, rs |-> rs, rt |-> rt, rd |-> rd, imm |-> 0]
Sh(op, rd, rt, sa) == [op |-> op, rs |-> 0, rt |-> rt, rd |-> rd, imm |-> sa]
M(op, rt, rs, imm) == [op |-> op, rs |-> rs, rt |-> rt, rd |-> 0, imm |-> imm % 16]
J(op, imm) == [op |-> op, rs |-> 0, rt |-> 0, rd |-> 0, imm |-> imm]
Nop == Sh("sll", 0, 0, 0)
SysCall == R("syscall", 0, 0, 0)

SomeRegisters ==
  <<0, V0, A0, A1, A3, 8, 9, T9, Sp, Ra, F(0), F(1), Condition, PC, PendingBranch, Low, High>>

(* Calls, by their numbers.                                                *)
Calls == <<"exit", "simple", "blocking", "signals">>
Do(n) == <<M("addiu", 2, 0, n), SysCall>>
SomeResults == {0, -1}
(* The data of a program, two words at 80, to registers 8 and 9.           *)
GetData == <<M("lui", 5, 0, 5), M("lw", 8, 5, 0), M("lw", 9, 5, 4)>>

Shifting == GetData \o
  <<Sh("sll", 7, 9, 3), Sh("srl", 7, 9, 2), Sh("sra", 7, 9, 2), R("sllv", 7, 8, 9), R("srlv", 7, 8, 9),
    R("srav", 7, 8, 9), R("add", 7, 8, 9), R("addu", 0, 8, 9), R("sub", 7, 8, 9), R("subu", 7, 8, 9)>>
Calculating == GetData \o
  <<R("and", 7, 8, 9), R("or", 7, 8, 9), R("xor", 7, 8, 9), R("nor", 7, 8, 9), R("slt", 7, 8, 9),
    R("sltu", 7, 8, 9), R("mult", 0, 8, 9), R("multu", 0, 8, 9), R("div", 0, 8, 9), R("divu", 0, 8, 9)>>
Moving == GetData \o
  <<R("mthi", 0, 8, 0), R("mtlo", 0, 9, 0), R("mfhi", 7, 0, 0), R("mflo", 4, 0, 0), M("addi", 7, 8, 13),
    M("slti", 7, 8, 14), M("sltiu", 7, 8, 14), M("andi", 7, 8, 11), M("ori", 7, 8, 11),
    M("xori", 7, 8, 11), R("sync", 0, 0, 0)>>
Loading == GetData \o
  <<M("lb", 7, 5, 1), M("lbu", 7, 5, 1), M("lh", 7, 5, 2), M("lhu", 7, 5, 2), M("lwl", 8, 5, 6),
    M("lwr", 8, 5, 3), M("lwl", 9, 5, 7), M("lwr", 9, 5, 4), M("lwl", 7, 5, 4), M("lw", 7, 5, 3),
    M("lb", 0, 9, 0), M("lb", 7, 9, 7), M("lbu", 7, 9, 15)>>
Storing == GetData \o
  <<M("sb", 8, 5, 5), M("sh", 9, 5, 3), M("swl", 8, 5, 6), M("swr", 8, 5, 1), M("swl", 9, 5, 3),
    M("swr", 9, 5, 4), M("sw", 9, 5, 1), M("ll", 7, 5, 4), M("sc", 8, 5, 4), M("swr", 9, 9, 7), M("sw", 9, 9, 0)>>
Fl(op, rt, rd) == [op |-> op, rs |-> 0, rt |-> rt, rd |-> rd, imm |-> 0]
Floating == GetData \o
  <<M("ldc1", 0, 5, 0), M("swc1", 1, 5, 1), Fl("mfc1", 7, 1), Fl("mtc1", 1, 9), M("sdc1", 0, 5, 7),
    M("lwc1", 31, 5, 4), Fl("c.cond", 0, 0), M("ldc1", 0, 9, 0), M("sdc1", 0, 9, 0), Fl("mfc1", 0, 0)>>
FloatBranching(kind) == GetData \o
  <<M("lwc1", 31, 5, 0), M("bc1", kind, 0, 2), M("addiu", 7, 7, 1), M("addiu", 4, 4, 1)>> \o Do(1)
Branching(op) == GetData \o <<M(op, 9, 8, 2), M("addiu", 7, 7, 1), M("addiu", 4, 4, 1)>> \o Do(1)
BranchingBack(op) == <<M("addiu", 9, 0, 2), M("addiu", 8, 8, 1), M(op, 9, 8, 14), M("addiu", 4, 4, 1)>> \o Do(1)
Trapping(op) == GetData \o <<R(op, 0, 8, 9)>> \o Do(1)
BranchingNowhere(op) == <<Nop, M(op, 0, 0, 10), M("addiu", 7, 7, 1), M("addiu", 4, 4, 1)>> \o Do(1)    \* to 0
Jumping == GetData \o <<J("jal", 13), Nop, J("j", 16), Nop, Nop, Nop>> \o
           <<M("addiu", 7, 7, 1), R("jr", 0, 31, 0), Nop>> \o Do(1)
Linking == GetData \o <<R("jalr", 7, 9, 0), M("addiu", 8, 8, 1)>> \o Do(1)
(* Calls, one of them in the delay slot of a branch; then the handler.     *)
Calling(n) == <<M("addiu", 2, 0, n), M("beq", 0, 0, 3), SysCall, Nop, Nop, M("bgezl", 7, 0, 1)>> \o Do(2)
              \o Do(1) \o <<M("sw", 4, 29, 0), R("jr", 0, 31, 0), M("lw", 7, 29, 0)>>

-----------------------------------------------------------------------------
Header(offset, vaddr, filesz, memsz, rights) ==
  [type |-> "load", offset |-> offset, vaddr |-> vaddr, filesz |-> filesz, memsz |-> memsz, flags |-> rights]
Note == [type |-> "note", offset |-> 0, vaddr |-> 0, filesz |-> 0, memsz |-> 0, flags |-> {}]

AllPrograms ==
  {Shifting, Calculating, Moving, Loading, Storing, Floating, Jumping, Linking, <<R("break", 0, 0, 0)>>}
    \cup {Branching(op) : op \in BranchOps} \cup {BranchingBack(op) : op \in {"bne", "bnel"}}
    \cup {BranchingNowhere("beq")} \cup {Trapping(op) : op \in {"teq", "tne"}} \cup {Calling(n) : n \in 2..5}
    \cup {FloatBranching(kind) : kind \in 0..4}
Table == FoldSet(LAMBDA i, t : Append(t, i), <<Nop>>, (UNION {ToSet(p) : p \in AllPrograms}) \ {Nop})
Decoded == LET t == Table IN [w \in Word |-> IF w < Len(t) THEN t[w + 1] ELSE R("bad", 0, 0, 0)]
Codes == LET t == Table IN [i \in ToSet(t) |-> (CHOOSE n \in DOMAIN t : t[n] = i) - 1]
BytesOf(w) == [k \in 1..4 |-> ByteOf(w, k - 1)]
Assembled(program) ==
  LET codes == Codes IN [i \in 1..(4 * Len(program)) |-> BytesOf(codes[program[(i + 3) \div 4]])[((i - 1) % 4) + 1]]

Acts(signo, handler, more) ==
  [signo |-> signo, handler |-> handler, siginfo |-> "siginfo" \in more, oneshot |-> "oneshot" \in more]
Ignored == Acts(3, SigIgn, {})
Actions == {Ignored, Acts(3, SigDfl, {}), Acts(18, SigDfl, {}), Acts(3, 56, {}), Acts(3, 56, {"siginfo", "oneshot"})}

(* Code at 16, after two words of data in the file, which go to 80.        *)
Program(program, a, b) ==
  LET bytes == BytesOf(a) \o BytesOf(b) \o Assembled(program)
  IN [type |-> "exec", entry |-> 16, phoff |-> 4, interp |-> <<>>, argv |-> <<>>, envp |-> <<>>,
      file |-> bytes, action |-> Ignored,
      headers |-> <<Note, Header(8, 16, Len(bytes) - 8, Len(bytes) - 8, {"R", "X"}),
                    Header(0, 80, 8, 8, {"R", "W"})>>]

Wide == {0, 1, 8, 15, 127, 128, 240, 255}
Narrow == {0, 1, 130, 255}
Caller(n, act) ==
  [Program(Calling(n), 0, 0) EXCEPT !.action = act, !.argv = <<<<1, 2>>, <<3>>>>, !.envp = <<<<2>>>>]
(* An executable that is moved, and one that is its interpreter.           *)
Interp == [Program(Trapping("teq"), 1, 2) EXCEPT !.entry = 8, !.headers = <<Header(0, 0, 32, 32, {"R", "X"})>>]
Moveable(headers) ==
  [Program(Linking, 1, 28) EXCEPT !.type = "dyn", !.entry = 8, !.headers = headers, !.argv = <<<<1>>>>]
Text == Header(0, 0, 16, 16, {"R", "X"})
Layouts ==
  {<<Text, Header(16, 16, 4, 20, {"R", "W"})>>, <<Header(0, 0, 16, 24, {"R", "X"}), Header(8, 24, 8, 12, {"R", "W"})>>,
   <<Header(0, 0, 12, 12, {"R", "X"}), Header(8, 12, 8, 8, {"R", "W"})>>,
   <<Header(0, 0, 12, 20, {"R", "X"}), Header(4, 8, 16, 16, {"R", "W"})>>,
   <<Header(0, 4, 12, 14, {"R", "X"}), Header(4, 18, 2, 16, {"R", "W"}), Header(0, 20, 4, 4, {"R"})>>,
   <<Text, Header(0, 78, 8, 8, {"R", "W"})>>, <<Text, Header(0, 220, 4, 20, {"R", "W"})>>,
   <<Text, Header(0, 220, 8, 8, {"R", "W"})>>}

AllExecutables ==
  {Program(p, a, b) : p \in {Shifting, Calculating, Moving}, a \in Wide, b \in Wide}
    \cup {Program(p, a, b) : p \in {Loading, Storing, Floating}, a \in Narrow, b \in Narrow}
    \cup {Program(Branching(op), a, b) : op \in BranchOps \ {"bltzal"}, a \in Narrow, b \in {0, 1}}
    \cup {Program(FloatBranching(kind), a, 0) : kind \in 0..4, a \in {0, 32, 255}}
    \cup {Program(Trapping(op), a, 1) : op \in {"teq", "tne"}, a \in {0, 1}}
    \cup {Program(BranchingBack(op), 0, 0) : op \in {"bne", "bnel"}}
    \cup {Program(BranchingNowhere("beq"), 0, 0), Program(Jumping, 0, 0), Program(<<R("break", 0, 0, 0)>>, 0, 0), [Program(Linking, 0, 0) EXCEPT !.type = "core"]}
    \cup {Program(Linking, 0, b) : b \in {0, 18, 36, 40, 81, 112}}
    \cup {Program(Branching("bltzal"), 255, 0), Program(Branching("bltzal"), 1, 0)}
    \cup {[Program(p, 0, 60) EXCEPT !.action = Acts(3, 56, {})] : p \in {Jumping, Linking, Branching("bnel")}}
    \cup {Caller(n, h) : n \in 2..5, h \in Actions}
    \cup {[Moveable(l) EXCEPT !.interp = i] : l \in Layouts, i \in {<<>>, <<Interp>>}}
    \cup {[Moveable(<<Text>>) EXCEPT !.interp = <<[Interp EXCEPT !.type = "core"]>>]}

================================================================================
