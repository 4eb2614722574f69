------------------------------ MODULE NovaRtl ------------------------------
(***************************************************************************)
(* The RTL core (cpu.v) with its block RAM (fpga/nova16_bram.v) and the    *)
(* port registers of fpga/nova16_top.v.  One Clock step is one rising      *)
(* edge: the core drives address, data and write enable from its present   *)
(* state (the bus is combinational), the RAM and the ports answer with the *)
(* next edge.  Reset may come between any two edges.                       *)
(*                                                                         *)
(* A register or bus of 16 bits is the low part (Low) of the 64-bit value. *)
(* The counter "cycles" is an output nothing reads and is left out.        *)
(***************************************************************************)
EXTENDS NovaInsn

VARIABLES
  state,          \* S_FETCH, S_EXECUTE, S_LOAD_WAIT, S_RET_WAIT, S_IN_WAIT
  pc, regs, halted,
  wb,             \* wb_dest
  mem, rdata,     \* nova32_bram: mem and rdata
  port0, iordata, \* port0_out, io_rdata
  io              \* what the last OUT drove: io_addr, io_wdata

cpu  == <<state, pc, regs, halted, wb>>
vars == <<cpu, mem, rdata, port0, iordata, io>>

\* The machine this core implements: an instruction takes effect in S_EXECUTE,
\* a word under way to its register, or to pc, counts as arrived.
isaPc   == IF state = "RET_WAIT" THEN rdata % A ELSE pc
isaRegs == CASE state = "LOAD_WAIT" -> IF wb = 0 THEN regs ELSE [regs EXCEPT ![wb] = rdata]
             [] state = "IN_WAIT"   -> IF wb = 0 THEN regs ELSE [regs EXCEPT ![wb] = iordata]
             [] OTHER -> regs
Arch == INSTANCE NovaIsa WITH ZeroDivHalts <- FALSE, pc <- isaPc, regs <- isaRegs

-----------------------------------------------------------------------------
(* Fields and operands, while S_EXECUTE has the instruction in mem_rdata *)

insn == Decode[rdata]
Rv(n) == IF n = 0 THEN 0 ELSE regs[n]               \* rv_fd, rv_fa, rv_fb
WriteReg(n, v) == IF n = 0 THEN regs ELSE [regs EXCEPT ![n] = v]

next_pc    == Low(pc + 1)
branch_dst == Low((pc + 1 + insn.imm) % W)
mem_eff    == Low(Rv(insn.a) + insn.imm)

Executing(ops) == state = "EXECUTE" /\ insn.op \in ops

-----------------------------------------------------------------------------
(* The bus *)

\* Variant: RET puts its stack cell on the bus one state late.
mem_addr_late ==
  CASE Executing({"LOAD", "STORE"}) -> mem_eff
    [] Executing({"CALL"})          -> Low(PushedSp(regs))
    [] state = "RET_WAIT"           -> Low(regs[Sp])
    [] OTHER                        -> pc

mem_addr ==
  CASE Executing({"LOAD", "STORE"}) -> mem_eff
    [] Executing({"CALL"})          -> Low(PushedSp(regs))
    [] Executing({"RET"})           -> Low(regs[Sp])
    [] OTHER                        -> pc
mem_we    == Executing({"STORE", "CALL"})
mem_wdata == IF insn.op = "STORE" THEN Rv(insn.d) ELSE next_pc

Bram == /\ rdata' = mem[mem_addr]
        /\ mem' = IF mem_we THEN [mem EXCEPT ![mem_addr] = mem_wdata] ELSE mem

\* Port 0 is read back; behind every other port a peripheral answers.
io_addr == IF Executing({"OUT", "IN"}) THEN insn.imm ELSE 0
io_we   == Executing({"OUT"})
Ports == /\ io' = IF io_we THEN <<io_addr, Rv(insn.d)>> ELSE io
         /\ port0' = IF io_we /\ io_addr = 0 THEN Rv(insn.d) ELSE port0
         /\ iordata' \in IF io_addr = 0 THEN {port0} ELSE Word

-----------------------------------------------------------------------------
(* The state machine *)

Init == /\ state = "FETCH" /\ pc = 0 /\ regs = [n \in Reg |-> 0]
        /\ halted = FALSE /\ wb = 0
        /\ mem \in Program /\ rdata = 0
        /\ port0 = 0 /\ iordata = 0 /\ io = << >>

Fetch == /\ state = "FETCH"
         /\ state' = "EXECUTE"
         /\ UNCHANGED <<pc, regs, halted, wb>>

Result ==
  CASE insn.op = "LI" -> insn.imm
    [] insn.op = "DIV" /\ Rv(insn.b) = 0 -> 0
    [] OTHER -> Alu[insn.op, Rv(insn.a), Operand(insn, Rv(insn.b))]

Written ==
  CASE insn.op \in AluOp \cup {"LI"} -> WriteReg(insn.d, Result)
    [] insn.op = "CALL" -> [regs EXCEPT ![Sp] = PushedSp(regs)]
    [] insn.op = "RET"  -> [regs EXCEPT ![Sp] = PoppedSp(regs)]
    [] OTHER -> regs

Branches == insn.op = "CALL" \/ Taken(insn, Rv(insn.d))

Execute ==
  /\ state = "EXECUTE"
  /\ state' = CASE insn.op = "LOAD" -> "LOAD_WAIT"
                [] insn.op = "RET"  -> "RET_WAIT"
                [] insn.op = "IN"   -> "IN_WAIT"
                [] OTHER -> "FETCH"
  /\ pc' = IF Branches THEN branch_dst ELSE next_pc
  /\ regs' = Written
  /\ halted' = (insn.op \in StopOp)
  /\ wb' = IF insn.op \in {"LOAD", "IN"} THEN insn.d ELSE wb

LoadWait == /\ state = "LOAD_WAIT"
            /\ regs' = WriteReg(wb, rdata) /\ state' = "FETCH"
            /\ UNCHANGED <<pc, halted, wb>>

\* Variant: the next word is taken from the bus at once, as after a LOAD it could be.
RetWaitFast == /\ state = "RET_WAIT"
               /\ pc' = Low(rdata) /\ state' = "EXECUTE"
               /\ UNCHANGED <<regs, halted, wb>>

RetWait == /\ state = "RET_WAIT"
           /\ pc' = Low(rdata) /\ state' = "FETCH"
           /\ UNCHANGED <<regs, halted, wb>>

InWait == /\ state = "IN_WAIT"
          /\ regs' = WriteReg(wb, iordata) /\ state' = "FETCH"
          /\ UNCHANGED <<pc, halted, wb>>

Clock == /\ Bram /\ Ports
         /\ IF halted THEN UNCHANGED cpu
            ELSE Fetch \/ Execute \/ LoadWait \/ RetWait \/ InWait

Reset == /\ state' = "FETCH" /\ pc' = 0 /\ regs' = [n \in Reg |-> 0]
         /\ halted' = FALSE /\ wb' = 0
         /\ port0' = 0 /\ iordata' = 0
         /\ rdata' \in {rdata, mem[0]}      \* clock edges while reset is held
         /\ UNCHANGED <<mem, io>>

Next == Clock \/ Reset

Spec == Init /\ [][Next]_vars

-----------------------------------------------------------------------------
(* Properties *)

\* Registers and memory hold words, pc an address; a halted core rests in S_FETCH,
\* where it drives no write (P4 of formal/nova32_props.v).
TypeOK ==
  /\ state \in {"FETCH", "EXECUTE", "LOAD_WAIT", "RET_WAIT", "IN_WAIT"}
  /\ pc \in Addr /\ wb \in Reg /\ halted \in BOOLEAN
  /\ regs \in [Reg -> Word] /\ mem \in [Addr -> Word]
  /\ rdata \in Word /\ port0 \in Word /\ iordata \in Word
  /\ (halted => state = "FETCH")

\* The word the core decodes is the one pc names, whatever was on the bus for the
\* previous instruction, a reset in its middle included (cpu.v:126-163).
FetchedWord == state = "EXECUTE" => rdata = mem[pc]

\* P1: no instruction, and no word that arrives late, changes R0.
R0Zero == regs[0] = 0

\* The core implements the instruction set: bus, RAM delay and wait states add nothing
\* and lose nothing (CONTRIBUTING.md:29-32: always identical to sim.c).
IsaSpec == Arch!IsaSpec
=============================================================================
