------------------------------ MODULE NovaIsa ------------------------------
(***************************************************************************)
(* The base instruction set of NOVA-64, one instruction per step: what     *)
(* execute() in sim.c does to registers, memory and ports, with no         *)
(* privilege levels, pipeline or clock.  It is the abstract machine that   *)
(* the simulator's pipeline and the RTL core are compared with.            *)
(***************************************************************************)
EXTENDS NovaInsn

CONSTANT ZeroDivHalts   \* DIV by zero: the trap without handler, or the RTL's 0

VARIABLES
  pc, regs, mem, halted,
  io              \* the last OUT: port and value

isaVars == <<pc, regs, mem, halted, io>>

-----------------------------------------------------------------------------
insn == Decode[mem[pc]]
Eff  == Low(regs[insn.a] + insn.imm)
Goal == (pc + 1 + insn.imm) % W
DividesByZero == insn.op = "DIV" /\ regs[insn.b] = 0

\* Beyond the last cell there is no program: any address, A for those outside memory.
Goto(t) == pc' \in IF t < A THEN {t} ELSE 0 .. A

\* An instruction whose result goes to its register; R0 stays.
Write(v) == /\ regs' = IF insn.d = 0 THEN regs ELSE [regs EXCEPT ![insn.d] = v]
            /\ Goto(pc + 1)
            /\ UNCHANGED <<mem, halted, io>>

-----------------------------------------------------------------------------
Init == /\ pc = 0 /\ regs = [n \in Reg |-> 0] /\ mem \in Program
        /\ halted = FALSE /\ io = << >>

Nop == insn.op = "NOP" /\ Goto(pc + 1) /\ UNCHANGED <<regs, mem, halted, io>>

\* A trap with no handler halts as well.
Stop == /\ insn.op \in StopOp \/ (DividesByZero /\ ZeroDivHalts)
        /\ halted' = TRUE /\ Goto(pc + 1)
        /\ UNCHANGED <<regs, mem, io>>

Arith == /\ insn.op \in AluOp
         /\ ~DividesByZero
         /\ Write(Alu[insn.op, regs[insn.a], Operand(insn, regs[insn.b])])

DivZero == DividesByZero /\ ~ZeroDivHalts /\ Write(0)

Li == insn.op = "LI" /\ Write(insn.imm)

Load == insn.op = "LOAD" /\ Write(mem[Eff])

In == insn.op = "IN" /\ \E v \in Word : Write(v)

Store == /\ insn.op = "STORE"
         /\ mem' = [mem EXCEPT ![Eff] = regs[insn.d]]
         /\ Goto(pc + 1)
         /\ UNCHANGED <<regs, halted, io>>

Out == /\ insn.op = "OUT"
       /\ io' = <<insn.imm, regs[insn.d]>>
       /\ Goto(pc + 1)
       /\ UNCHANGED <<regs, mem, halted>>

Jump == /\ insn.op \in JumpOp
        /\ Goto(IF Taken(insn, regs[insn.d]) THEN Goal ELSE pc + 1)
        /\ UNCHANGED <<regs, mem, halted, io>>

\* Behind the last cell the simulator's pc is 65536, the core's is 0.
Call == /\ insn.op = "CALL"
        /\ regs' = [regs EXCEPT ![Sp] = PushedSp(regs)]
        /\ \E back \in {pc + 1, Low(pc + 1)} :
              mem' = [mem EXCEPT ![Low(PushedSp(regs))] = back]
        /\ Goto(Goal)
        /\ UNCHANGED <<halted, io>>

Ret == /\ insn.op = "RET"
       /\ Goto(mem[Low(regs[Sp])])
       /\ regs' = [regs EXCEPT ![Sp] = PoppedSp(regs)]
       /\ UNCHANGED <<mem, halted, io>>

Execute == \/ Nop \/ Stop \/ Arith \/ DivZero \/ Li \/ Load
           \/ Store \/ Jump \/ Call \/ Ret \/ Out \/ In

\* The reset of the RTL core; memory keeps its contents.
Reset == /\ pc' = 0 /\ regs' = [n \in Reg |-> 0] /\ halted' = FALSE
         /\ UNCHANGED <<mem, io>>

Next == (~halted /\ Execute) \/ Reset

IsaSpec == Init /\ [][Next]_isaVars
=============================================================================
