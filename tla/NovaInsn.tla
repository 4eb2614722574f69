----------------------------- MODULE NovaInsn ------------------------------
(***************************************************************************)
(* What the simulator and the RTL core share: words, addresses and the     *)
(* instructions in words.                                                  *)
(*                                                                         *)
(* Word stands for the 64-bit values, Addr for the 65536 addresses; a word *)
(* is an instruction where it is executed.  The decoding of words and the  *)
(* two-operand arithmetic are parameters.                                  *)
(***************************************************************************)
EXTENDS Integers

CONSTANTS
  W, A,           \* values 2^64, addresses MEM_SIZE
  Reg, Sp,        \* register numbers; R7
  Decode,         \* instruction in a word
  Alu,            \* result of a two-operand instruction
  Program         \* memories a program may start with

Word == 0 .. W - 1
Addr == 0 .. A - 1

AluOp  == {"ADD", "SUB", "AND", "OR", "XOR", "SHL", "SHR", "MUL", "DIV"}
StopOp == {"HALT", "ILL"}       \* ILL: an opcode execute() does not know
JumpOp == {"JMP", "JZ", "JNZ"}
Insn   == [op : AluOp \cup StopOp \cup JumpOp
                \cup {"NOP", "LI", "LOAD", "STORE", "CALL", "RET", "OUT", "IN"},
           d : Reg, a : Reg, b : Reg, imm : Word]

ASSUME SizeAssumption == W \in Nat /\ A \in Nat /\ 0 < A /\ A < W
ASSUME RegAssumption  == 0 \in Reg /\ Sp \in Reg /\ Sp # 0
ASSUME InsnAssumption == /\ Decode \in [Word -> Insn]
                         /\ Alu \in [AluOp \X Word \X Word -> Word]
ASSUME ProgramAssumption == Program \subseteq [Addr -> Word]

Low(x) == x % A                                   \* & 0xFFFF

\* R7 after a push and after a pop.
PushedSp(r) == (r[Sp] + W - 1) % W
PoppedSp(r) == (r[Sp] + 1) % W

Taken(i, test) == \/ i.op = "JMP"
                  \/ i.op = "JZ" /\ test = 0
                  \/ i.op = "JNZ" /\ test # 0

\* The second operand; a shift takes its distance from the instruction.
Operand(i, second) == IF i.op \in {"SHL", "SHR"} THEN i.imm ELSE second
=============================================================================
