--------------------------- MODULE NovaRtlProofs ---------------------------
(***************************************************************************)
(* The RTL core implements the instruction set, for every word size,       *)
(* memory, register set, decoding and program.                             *)
(*                                                                         *)
(* IInv says that S_EXECUTE sees the word pc names and that R0 is 0.  With *)
(* it a step of the core is a step of NovaIsa in S_EXECUTE, and changes    *)
(* nothing NovaIsa sees in every other state.                              *)
(***************************************************************************)
EXTENDS NovaRtl, TLAPS

IInv == TypeOK /\ FetchedWord /\ R0Zero

-----------------------------------------------------------------------------
(* Words, addresses, registers *)

LEMMA ModFact ==
  ASSUME NEW x \in Int, NEW n \in Nat, n > 0
  PROVE  x % n \in 0 .. n - 1
BY Z3

LEMMA SmallMod ==
  ASSUME NEW x \in Nat, NEW n \in Nat, x < n
  PROVE  x % n = x
BY Z3

USE SizeAssumption, RegAssumption, InsnAssumption, ProgramAssumption
    DEF Word, Addr

LEMMA LowFact ==
  ASSUME NEW x \in Int
  PROVE  Low(x) \in Addr
BY ModFact DEF Low

LEMMA LowOfAddr ==
  ASSUME NEW x \in Addr
  PROVE  Low(x) = x
<1>1. x \in Nat /\ x < A
  OBVIOUS
<1> QED BY <1>1, SmallMod DEF Low

\* What the decoder hands to S_EXECUTE.
LEMMA InsnFact ==
  ASSUME TypeOK
  PROVE  /\ insn \in Insn
         /\ insn.d \in Reg /\ insn.a \in Reg /\ insn.b \in Reg /\ insn.imm \in Word
         /\ insn.op \in AluOp \cup StopOp \cup JumpOp
                        \cup {"NOP", "LI", "LOAD", "STORE", "CALL", "RET", "OUT", "IN"}
<1>1. insn \in Insn
  BY DEF TypeOK, insn
<1> QED BY <1>1 DEF Insn

\* The core reads R0 as 0 without looking, the simulator finds 0 in it.
LEMMA RvFact ==
  ASSUME IInv, NEW n \in Reg
  PROVE  Rv(n) = regs[n] /\ Rv(n) \in Word
BY DEF IInv, TypeOK, R0Zero, Rv

LEMMA WriteRegFact ==
  ASSUME IInv, NEW n \in Reg, NEW v \in Word
  PROVE  WriteReg(n, v) \in [Reg -> Word] /\ WriteReg(n, v)[0] = 0
BY DEF IInv, TypeOK, R0Zero, WriteReg

LEMMA SpFact ==
  ASSUME TypeOK
  PROVE  PushedSp(regs) \in Word /\ PoppedSp(regs) \in Word
<1>1. regs[Sp] + W - 1 \in Int /\ regs[Sp] + 1 \in Int
  BY DEF TypeOK
<1> QED BY <1>1, ModFact DEF PushedSp, PoppedSp

\* The result of arithmetic is a word.
LEMMA ResultFact ==
  ASSUME IInv, insn.op \in AluOp \cup {"LI"}
  PROVE  Result \in Word
<1>1. /\ insn.imm \in Word
      /\ Rv(insn.a) \in Word /\ Rv(insn.b) \in Word
  BY InsnFact, RvFact DEF IInv
<1>2. CASE insn.op = "LI"
  BY <1>1, <1>2 DEF Result
<1>3. CASE insn.op = "DIV" /\ Rv(insn.b) = 0
  <2>1. Result = 0
    BY <1>3 DEF Result
  <2> QED BY <2>1
<1>4. CASE insn.op # "LI" /\ ~(insn.op = "DIV" /\ Rv(insn.b) = 0)
  <2>1. Operand(insn, Rv(insn.b)) \in Word
    BY <1>1 DEF Operand
  <2>2. Alu[insn.op, Rv(insn.a), Operand(insn, Rv(insn.b))] \in Word
    BY <1>1, <1>4, <2>1
  <2>3. Result = Alu[insn.op, Rv(insn.a), Operand(insn, Rv(insn.b))]
    BY <1>4 DEF Result
  <2> QED BY <2>2, <2>3
<1> QED BY <1>2, <1>3, <1>4

LEMMA WrittenFact ==
  ASSUME IInv
  PROVE  Written \in [Reg -> Word] /\ Written[0] = 0
<1>1. CASE insn.op \in AluOp \cup {"LI"}
  <2>1. Written = WriteReg(insn.d, Result)
    BY <1>1 DEF Written, AluOp
  <2> QED BY <1>1, <2>1, ResultFact, InsnFact, WriteRegFact DEF IInv
<1>2. CASE insn.op = "CALL"
  <2>1. Written = [regs EXCEPT ![Sp] = PushedSp(regs)]
    BY <1>2 DEF Written, AluOp
  <2> QED BY <2>1, SpFact DEF IInv, TypeOK, R0Zero
<1>3. CASE insn.op = "RET"
  <2>1. Written = [regs EXCEPT ![Sp] = PoppedSp(regs)]
    BY <1>3 DEF Written, AluOp
  <2> QED BY <2>1, SpFact DEF IInv, TypeOK, R0Zero
<1>4. CASE insn.op \notin AluOp \cup {"LI", "CALL", "RET"}
  <2>1. Written = regs
    BY <1>4 DEF Written
  <2> QED BY <2>1 DEF IInv, TypeOK, R0Zero
<1> QED BY <1>1, <1>2, <1>3, <1>4

\* The bus names a cell and carries a word.
LEMMA BusFact ==
  ASSUME IInv
  PROVE  /\ mem_addr \in Addr
         /\ next_pc \in Addr /\ branch_dst \in Addr
         /\ mem_wdata \in Word
<1>1. /\ insn.imm \in Word /\ Rv(insn.a) \in Word /\ Rv(insn.d) \in Word
      /\ pc \in Addr /\ regs[Sp] \in Word
  BY InsnFact, RvFact DEF IInv, TypeOK
<1>2. next_pc \in Addr
  <2>1. pc + 1 \in Int
    BY <1>1
  <2> QED BY <2>1, LowFact DEF next_pc
<1>3. branch_dst \in Addr
  <2>1. (pc + 1 + insn.imm) % W \in Word
    BY <1>1, ModFact
  <2> QED BY <2>1, LowFact DEF branch_dst
<1>4. mem_eff \in Addr
  <2>1. Rv(insn.a) + insn.imm \in Int
    BY <1>1
  <2> QED BY <2>1, LowFact DEF mem_eff
<1>5. Low(PushedSp(regs)) \in Addr /\ Low(regs[Sp]) \in Addr
  <2>1. PushedSp(regs) \in Int /\ regs[Sp] \in Int
    BY <1>1, SpFact DEF IInv
  <2> QED BY <2>1, LowFact
<1>6. mem_addr \in Addr
  BY <1>1, <1>4, <1>5 DEF mem_addr
<1>7. mem_wdata \in Word
  BY <1>1, <1>2 DEF mem_wdata
<1> QED BY <1>2, <1>3, <1>6, <1>7

-----------------------------------------------------------------------------
(* The invariant *)

\* Outside S_EXECUTE the RAM and the ports are only read.
LEMMA BramFact ==
  ASSUME IInv, Bram
  PROVE  /\ rdata' = mem[mem_addr] /\ rdata' \in Word
         /\ mem' \in [Addr -> Word]
         /\ (state # "EXECUTE" => mem' = mem /\ mem_addr = pc)
<1>1. rdata' = mem[mem_addr] /\ rdata' \in Word
  BY BusFact DEF Bram, IInv, TypeOK
<1>2. mem' \in [Addr -> Word]
  BY BusFact DEF Bram, IInv, TypeOK
<1>3. ASSUME state # "EXECUTE" PROVE mem' = mem /\ mem_addr = pc
  BY <1>3 DEF Bram, mem_we, mem_addr, Executing
<1> QED BY <1>1, <1>2, <1>3

LEMMA PortsFact ==
  ASSUME IInv, Ports
  PROVE  port0' \in Word /\ iordata' \in Word /\ (state # "EXECUTE" => io' = io)
<1>1. Rv(insn.d) \in Word
  BY InsnFact, RvFact DEF IInv
<1>2. port0' \in Word /\ iordata' \in Word
  BY <1>1 DEF Ports, IInv, TypeOK
<1>3. ASSUME state # "EXECUTE" PROVE io' = io
  BY <1>3 DEF Ports, io_we, Executing
<1> QED BY <1>2, <1>3

LEMMA InitInv == Init => IInv
<1> SUFFICES ASSUME Init PROVE IInv
  OBVIOUS
<1>1. mem \in [Addr -> Word]
  BY DEF Init
<1>2. regs \in [Reg -> Word] /\ regs[0] = 0
  BY DEF Init
<1>3. /\ state = "FETCH" /\ pc \in Addr /\ wb \in Reg /\ halted = FALSE
      /\ rdata \in Word /\ port0 \in Word /\ iordata \in Word
  BY DEF Init
<1>4. TypeOK
  BY <1>1, <1>2, <1>3 DEF TypeOK
<1> QED BY <1>2, <1>3, <1>4 DEF IInv, FetchedWord, R0Zero

\* Only S_FETCH leads to S_EXECUTE, with mem[pc] on the bus.
LEMMA NextInv == IInv /\ [Next]_vars => IInv'
<1> SUFFICES ASSUME IInv, [Next]_vars PROVE IInv'
  OBVIOUS
<1> USE DEF IInv
<1>1. CASE Bram /\ Ports /\ halted /\ UNCHANGED cpu
  <2>1. state = "FETCH"
    BY <1>1 DEF TypeOK
  <2> QED BY <1>1, <2>1, BramFact, PortsFact DEF cpu, TypeOK, FetchedWord, R0Zero
<1>2. CASE Bram /\ Ports /\ ~halted /\ Fetch
  BY <1>2, BramFact, PortsFact DEF Fetch, TypeOK, FetchedWord, R0Zero
<1>3. CASE Bram /\ Ports /\ ~halted /\ Execute
  <2>1. pc' \in Addr
    BY <1>3, BusFact DEF Execute
  <2>2. wb' \in Reg
    BY <1>3, InsnFact DEF Execute, TypeOK
  <2>3. /\ state' \in {"FETCH", "LOAD_WAIT", "RET_WAIT", "IN_WAIT"}
        /\ halted' \in BOOLEAN
        /\ (halted' => state' = "FETCH")
    <3>1. halted' = (insn.op \in StopOp)
      BY <1>3 DEF Execute
    <3>2. CASE insn.op \in {"LOAD", "RET", "IN"}
      <4>1. state' \in {"LOAD_WAIT", "RET_WAIT", "IN_WAIT"}
        BY <1>3, <3>2 DEF Execute
      <4>2. ~halted'
        BY <3>1, <3>2 DEF StopOp
      <4> QED BY <3>1, <4>1, <4>2
    <3>3. CASE insn.op \notin {"LOAD", "RET", "IN"}
      <4>1. state' = "FETCH"
        BY <1>3, <3>3 DEF Execute
      <4> QED BY <3>1, <4>1
    <3> QED BY <3>2, <3>3
  <2>4. regs' \in [Reg -> Word] /\ regs'[0] = 0
    BY <1>3, WrittenFact DEF Execute
  <2>5. TypeOK'
    BY <1>3, <2>1, <2>2, <2>3, <2>4, BramFact, PortsFact DEF TypeOK
  <2> QED BY <2>3, <2>4, <2>5 DEF FetchedWord, R0Zero
<1>4. CASE Bram /\ Ports /\ ~halted /\ LoadWait
  <2>1. regs' \in [Reg -> Word] /\ regs'[0] = 0
    BY <1>4, WriteRegFact DEF LoadWait, TypeOK
  <2> QED BY <1>4, <2>1, BramFact, PortsFact DEF LoadWait, TypeOK, FetchedWord, R0Zero
<1>5. CASE Bram /\ Ports /\ ~halted /\ RetWait
  <2>1. pc' \in Addr
    BY <1>5, LowFact DEF RetWait, TypeOK
  <2> QED BY <1>5, <2>1, BramFact, PortsFact DEF RetWait, TypeOK, FetchedWord, R0Zero
<1>6. CASE Bram /\ Ports /\ ~halted /\ InWait
  <2>1. regs' \in [Reg -> Word] /\ regs'[0] = 0
    BY <1>6, WriteRegFact DEF InWait, TypeOK
  <2> QED BY <1>6, <2>1, BramFact, PortsFact DEF InWait, TypeOK, FetchedWord, R0Zero
<1>7. CASE Reset
  <2>1. rdata' \in Word
    BY <1>7 DEF Reset, TypeOK
  <2>2. regs' \in [Reg -> Word] /\ regs'[0] = 0
    BY <1>7 DEF Reset
  <2>3. /\ state' = "FETCH" /\ pc' \in Addr /\ wb' \in Reg /\ halted' = FALSE
        /\ port0' \in Word /\ iordata' \in Word /\ mem' = mem
    BY <1>7 DEF Reset
  <2>4. TypeOK'
    BY <2>1, <2>2, <2>3 DEF TypeOK
  <2> QED BY <2>2, <2>3, <2>4 DEF FetchedWord, R0Zero
<1>8. CASE UNCHANGED vars
  BY <1>8 DEF vars, cpu, TypeOK, FetchedWord, R0Zero
<1>9. CASE Clock
  <2>1. Bram /\ Ports
    BY <1>9 DEF Clock
  <2>2. CASE halted
    BY <1>1, <1>9, <2>1, <2>2 DEF Clock
  <2>3. CASE ~halted
    <3>1. Fetch \/ Execute \/ LoadWait \/ RetWait \/ InWait
      BY <1>9, <2>3 DEF Clock
    <3> QED BY <1>2, <1>3, <1>4, <1>5, <1>6, <2>1, <2>3, <3>1
  <2> QED BY <2>2, <2>3
<1> QED BY <1>7, <1>8, <1>9 DEF Next

LEMMA Invariance == Spec => []IInv
BY InitInv, NextInv, PTL DEF Spec

\* The state is well-typed and a halted core drives no write.
THEOREM TypeCorrect == Spec => []TypeOK
BY Invariance, PTL DEF IInv

\* The core decodes the word its program counter names, always.
THEOREM FetchSafe == Spec => []FetchedWord
BY Invariance, PTL DEF IInv

\* R0 is 0 in every state, P1 of formal/nova32_props.v.
THEOREM R0Safe == Spec => []R0Zero
BY Invariance, PTL DEF IInv

-----------------------------------------------------------------------------
(* The instruction set *)

LEMMA GoFact ==
  ASSUME NEW t \in Nat
  PROVE  Low(t) \in IF t < A THEN {t} ELSE 0 .. A
BY LowFact, LowOfAddr

\* Between two instructions NovaIsa sees the core's own pc and registers.
LEMMA SeenFact ==
  /\ state \in {"FETCH", "EXECUTE"} => isaPc = pc /\ isaRegs = regs
  /\ state = "RET_WAIT" => isaRegs = regs
BY DEF isaPc, isaRegs

LEMMA SeenNextFact ==
  /\ state' = "FETCH" => isaPc' = pc' /\ isaRegs' = regs'
  /\ state' = "RET_WAIT" => isaPc' = rdata' % A /\ isaRegs' = regs'
  /\ state' = "LOAD_WAIT" => /\ isaPc' = pc'
                             /\ isaRegs' = IF wb' = 0 THEN regs'
                                           ELSE [regs' EXCEPT ![wb'] = rdata']
  /\ state' = "IN_WAIT" => /\ isaPc' = pc'
                           /\ isaRegs' = IF wb' = 0 THEN regs'
                                         ELSE [regs' EXCEPT ![wb'] = iordata']
BY DEF isaPc, isaRegs

LEMMA InitImplements == Init => Arch!Init
BY SeenFact DEF Init, Arch!Init
LEMMA SameInsn ==
  ASSUME IInv, state = "EXECUTE"
  PROVE  Arch!insn = insn /\ isaPc = pc /\ isaRegs = regs
BY SeenFact DEF IInv, FetchedWord, Arch!insn, insn

\* What S_EXECUTE leaves alone, by kind of instruction.
LEMMA ExecuteFact ==
  ASSUME IInv, Bram, Ports, Execute
  PROVE  /\ (insn.op \notin {"STORE", "CALL"} => mem' = mem)
         /\ (insn.op # "OUT" => io' = io)
         /\ (insn.op \notin {"LOAD", "RET", "IN"} => state' = "FETCH")
         /\ (insn.op \notin JumpOp \cup {"CALL"} => pc' = next_pc)
         /\ (insn.op \notin AluOp \cup {"LI", "CALL", "RET"} => regs' = regs)
         /\ (insn.op \notin StopOp => halted' = FALSE)
<1>1. state = "EXECUTE"
  BY DEF Execute
<1>2. ASSUME insn.op \notin {"STORE", "CALL"} PROVE mem' = mem
  BY <1>2 DEF Bram, mem_we, Executing
<1>3. ASSUME insn.op # "OUT" PROVE io' = io
  BY <1>3 DEF Ports, io_we, Executing
<1>4. ASSUME insn.op \notin {"LOAD", "RET", "IN"} PROVE state' = "FETCH"
  BY <1>4 DEF Execute
<1>5. ASSUME insn.op \notin JumpOp \cup {"CALL"} PROVE pc' = next_pc
  <2>1. ~Branches
    BY <1>5 DEF Branches, Taken, JumpOp
  <2> QED BY <2>1 DEF Execute
<1>6. ASSUME insn.op \notin AluOp \cup {"LI", "CALL", "RET"} PROVE regs' = regs
  BY <1>6 DEF Execute, Written
<1>7. ASSUME insn.op \notin StopOp PROVE halted' = FALSE
  <2>1. halted' = (insn.op \in StopOp)
    BY DEF Execute
  <2>2. halted' \in BOOLEAN
    BY <2>1
  <2>3. ~halted'
    BY <1>7, <2>1 DEF StopOp
  <2> QED BY <2>2, <2>3
<1> QED BY <1>2, <1>3, <1>4, <1>5, <1>6, <1>7

LEMMA NextPcFact ==
  ASSUME IInv
  PROVE  next_pc \in IF pc + 1 < A THEN {pc + 1} ELSE 0 .. A
<1>1. pc + 1 \in Nat
  BY DEF IInv, TypeOK
<1> QED BY <1>1, GoFact DEF next_pc

LEMMA BranchFact ==
  ASSUME IInv, state = "EXECUTE"
  PROVE  branch_dst \in IF Arch!Goal < A THEN {Arch!Goal} ELSE 0 .. A
<1>1. insn.imm \in Word /\ pc \in Addr
  BY InsnFact DEF IInv, TypeOK
<1>2. pc + 1 + insn.imm \in Int
  BY <1>1
<1>3. (pc + 1 + insn.imm) % W \in Nat
  BY <1>2, ModFact
<1>4. Arch!Goal = (pc + 1 + insn.imm) % W
  BY SameInsn DEF Arch!Goal
<1> QED BY <1>3, <1>4, GoFact DEF branch_dst

\* Every instruction, in S_EXECUTE, is its action of NovaIsa.
LEMMA ExecuteImplements ==
  ASSUME IInv, Bram, Ports, ~halted, Execute
  PROVE  Arch!Next
<1>1. state = "EXECUTE"
  BY DEF Execute
<1>2. Arch!insn = insn /\ isaPc = pc /\ isaRegs = regs
  BY <1>1, SameInsn
<1>3. /\ Rv(insn.d) = regs[insn.d] /\ Rv(insn.a) = regs[insn.a]
      /\ Rv(insn.b) = regs[insn.b]
  BY InsnFact, RvFact DEF IInv
<1>4. rdata' = mem[mem_addr]
  BY BramFact
<1>5. halted = FALSE
  BY DEF IInv, TypeOK
<1> SUFFICES Arch!Execute
  BY DEF Arch!Next
<1>6. CASE insn.op \in {"NOP", "STORE", "OUT"} \cup StopOp
  <2>1. /\ state' = "FETCH" /\ pc' = next_pc /\ regs' = regs
    BY <1>6, ExecuteFact DEF StopOp, JumpOp, AluOp
  <2>2. isaPc' \in (IF isaPc + 1 < A THEN {isaPc + 1} ELSE 0 .. A) /\ isaRegs' = isaRegs
    BY <1>2, <2>1, SeenNextFact, NextPcFact
  <2>3. CASE insn.op = "NOP"
    <3>1. mem' = mem /\ io' = io /\ halted' = halted
      BY <2>3, <1>5, ExecuteFact DEF StopOp
    <3>2. Arch!Nop
      BY <1>2, <2>2, <2>3, <3>1 DEF Arch!Nop, Arch!Goto, Arch!Addr, Addr
    <3> QED BY <3>2 DEF Arch!Execute
  <2>4. CASE insn.op \in StopOp
    <3>1. mem' = mem /\ io' = io /\ halted' = TRUE
      BY <2>4, ExecuteFact DEF StopOp, Execute
    <3>2. Arch!Stop
      BY <1>2, <2>2, <2>4, <3>1
         DEF Arch!Stop, Arch!Goto, Arch!Addr, Addr, Arch!StopOp, StopOp
    <3> QED BY <3>2 DEF Arch!Execute
  <2>5. CASE insn.op = "STORE"
    <3>1. io' = io /\ halted' = halted
      BY <2>5, <1>5, ExecuteFact DEF StopOp
    <3>2. mem_addr = Arch!Eff
      BY <1>1, <1>2, <1>3, <2>5
         DEF mem_addr, Executing, mem_eff, Arch!Eff, Arch!Low, Low
    <3>3. mem' = [mem EXCEPT ![Arch!Eff] = regs[insn.d]]
      BY <1>1, <1>3, <2>5, <3>2 DEF Bram, mem_we, mem_wdata, Executing
    <3>4. Arch!Store
      BY <1>2, <2>2, <2>5, <3>1, <3>3 DEF Arch!Store, Arch!Goto, Arch!Addr, Addr
    <3> QED BY <3>4 DEF Arch!Execute
  <2>6. CASE insn.op = "OUT"
    <3>1. mem' = mem /\ halted' = halted
      BY <2>6, <1>5, ExecuteFact DEF StopOp
    <3>2. io' = <<insn.imm, regs[insn.d]>>
      BY <1>1, <1>3, <2>6 DEF Ports, io_we, io_addr, Executing
    <3>3. Arch!Out
      BY <1>2, <2>2, <2>6, <3>1, <3>2 DEF Arch!Out, Arch!Goto, Arch!Addr, Addr
    <3> QED BY <3>3 DEF Arch!Execute
  <2> QED BY <1>6, <2>3, <2>4, <2>5, <2>6

\* Instructions with a result: now, or with the word under way.
<1>7. CASE insn.op \in AluOp \cup {"LI", "LOAD", "IN"}
  <2>1. pc' = next_pc /\ mem' = mem /\ io' = io /\ halted' = halted
    BY <1>5, <1>7, ExecuteFact DEF StopOp, JumpOp, AluOp
  <2>2. isaPc' = pc'
    <3>1. state' \in {"FETCH", "LOAD_WAIT", "IN_WAIT"}
      BY <1>7 DEF Execute, AluOp
    <3> QED BY <3>1, SeenNextFact
  <2>3. isaPc' \in IF isaPc + 1 < A THEN {isaPc + 1} ELSE 0 .. A
    BY <1>2, <2>1, <2>2, NextPcFact
  <2> DEFINE Put(v) == isaRegs' = IF insn.d = 0 THEN isaRegs ELSE [isaRegs EXCEPT ![insn.d] = v]
  <2>4. CASE insn.op \in AluOp \cup {"LI"}
    <3>1. Put(Result)
      BY <1>2, <2>4, ExecuteFact, SeenNextFact DEF Execute, Written, WriteReg, AluOp
    <3>2. CASE insn.op = "LI"
      <4>1. Result = insn.imm
        BY <3>2 DEF Result
      <4>2. Arch!Li
        BY <1>2, <2>1, <2>3, <3>1, <3>2, <4>1
           DEF Arch!Li, Arch!Write, Arch!Goto, Arch!Addr, Addr
      <4> QED BY <4>2 DEF Arch!Execute
    <3>3. CASE insn.op = "DIV" /\ Rv(insn.b) = 0
      <4>1. Result = 0
        BY <3>3 DEF Result
      <4>2. Arch!DivZero
        BY <1>2, <1>3, <2>1, <2>3, <3>1, <3>3, <4>1
           DEF Arch!DivZero, Arch!DividesByZero, Arch!Write, Arch!Goto, Arch!Addr, Addr
      <4> QED BY <4>2 DEF Arch!Execute
    <3>4. CASE insn.op \in AluOp /\ ~(insn.op = "DIV" /\ Rv(insn.b) = 0)
      <4>1. Result = Alu[insn.op, regs[insn.a], Operand(insn, regs[insn.b])]
        BY <1>3, <3>4 DEF Result, AluOp
      <4>2. Operand(insn, regs[insn.b]) = Arch!Operand(insn, regs[insn.b])
        BY DEF Operand, Arch!Operand
      <4>3. Put(Alu[insn.op, regs[insn.a], Arch!Operand(insn, regs[insn.b])])
        BY <3>1, <4>1, <4>2
      <4>4. Arch!Arith
        BY <1>2, <1>3, <2>1, <2>3, <3>4, <4>3
           DEF Arch!Arith, Arch!DividesByZero, Arch!Write, Arch!Goto, Arch!Addr, Addr,
               Arch!AluOp, AluOp
      <4> QED BY <4>4 DEF Arch!Execute
    <3> QED BY <2>4, <3>2, <3>3, <3>4
  <2>5. CASE insn.op = "LOAD"
    <3>1. state' = "LOAD_WAIT" /\ wb' = insn.d /\ regs' = regs
      BY <2>5, ExecuteFact DEF Execute, AluOp
    <3>2. Put(rdata')
      BY <1>2, <3>1, SeenNextFact
    <3>3. mem_addr = Arch!Eff
      BY <1>1, <1>2, <1>3, <2>5
         DEF mem_addr, Executing, mem_eff, Arch!Eff, Arch!Low, Low
    <3>4. Arch!Load
      BY <1>2, <1>4, <2>1, <2>3, <2>5, <3>2, <3>3
         DEF Arch!Load, Arch!Write, Arch!Goto, Arch!Addr, Addr
    <3> QED BY <3>4 DEF Arch!Execute
  <2>6. CASE insn.op = "IN"
    <3>1. state' = "IN_WAIT" /\ wb' = insn.d /\ regs' = regs
      BY <2>6, ExecuteFact DEF Execute, AluOp
    <3>2. Put(iordata') /\ iordata' \in Word
      BY <1>2, <3>1, SeenNextFact, PortsFact
    <3>3. Arch!In
      BY <1>2, <2>1, <2>3, <2>6, <3>2
         DEF Arch!In, Arch!Write, Arch!Goto, Arch!Addr, Addr, Arch!Word, Word
    <3> QED BY <3>3 DEF Arch!Execute
  <2> QED BY <1>7, <2>4, <2>5, <2>6

<1>8. CASE insn.op \in JumpOp
  <2>1. mem' = mem /\ io' = io /\ halted' = halted /\ regs' = regs /\ state' = "FETCH"
    BY <1>5, <1>8, ExecuteFact DEF StopOp, JumpOp, AluOp
  <2>2. isaPc' = pc' /\ isaRegs' = isaRegs
    BY <1>2, <2>1, SeenNextFact
  <2>3. Branches <=> Arch!Taken(insn, regs[insn.d])
    BY <1>3, <1>8 DEF Branches, Taken, Arch!Taken, JumpOp
  <2>4. CASE Branches
    <3>1. pc' \in IF Arch!Goal < A THEN {Arch!Goal} ELSE 0 .. A
      BY <1>1, <2>4, BranchFact DEF Execute
    <3>2. Arch!Jump
      BY <1>2, <1>8, <2>1, <2>2, <2>3, <2>4, <3>1
         DEF Arch!Jump, Arch!Goto, Arch!Addr, Addr, Arch!JumpOp, JumpOp
    <3> QED BY <3>2 DEF Arch!Execute
  <2>5. CASE ~Branches
    <3>1. pc' \in IF pc + 1 < A THEN {pc + 1} ELSE 0 .. A
      BY <2>5, NextPcFact DEF Execute
    <3>2. Arch!Jump
      BY <1>2, <1>8, <2>1, <2>2, <2>3, <2>5, <3>1
         DEF Arch!Jump, Arch!Goto, Arch!Addr, Addr, Arch!JumpOp, JumpOp
    <3> QED BY <3>2 DEF Arch!Execute
  <2> QED BY <2>4, <2>5

<1>9. CASE insn.op = "CALL"
  <2>1. io' = io /\ halted' = halted /\ state' = "FETCH"
    BY <1>5, <1>9, ExecuteFact DEF StopOp
  <2>2. isaPc' \in IF Arch!Goal < A THEN {Arch!Goal} ELSE 0 .. A
    BY <1>1, <1>9, <2>1, SeenNextFact, BranchFact DEF Execute, Branches
  <2>3. isaRegs' = [isaRegs EXCEPT ![Sp] = Arch!PushedSp(isaRegs)]
    BY <1>2, <1>9, <2>1, SeenNextFact
       DEF Execute, Written, AluOp, PushedSp, Arch!PushedSp
  <2>4. mem_addr = Arch!Low(Arch!PushedSp(isaRegs))
    BY <1>1, <1>2, <1>9
       DEF mem_addr, Executing, PushedSp, Arch!PushedSp, Low, Arch!Low
  <2>5. mem_wdata = Arch!Low(isaPc + 1)
    BY <1>2, <1>9 DEF mem_wdata, next_pc, Low, Arch!Low
  <2>6. mem' = [mem EXCEPT ![mem_addr] = mem_wdata]
    BY <1>1, <1>9 DEF Bram, mem_we, Executing
  <2>7. Arch!Call
    BY <1>2, <1>9, <2>1, <2>2, <2>3, <2>4, <2>5, <2>6
       DEF Arch!Call, Arch!Goto, Arch!Addr, Addr
  <2> QED BY <2>7 DEF Arch!Execute

\* The address that is still on its way is pc already.
<1>10. CASE insn.op = "RET"
  <2>1. mem' = mem /\ io' = io /\ halted' = halted
    BY <1>5, <1>10, ExecuteFact DEF StopOp
  <2>2. state' = "RET_WAIT"
    BY <1>10 DEF Execute
  <2>3. isaPc' = Low(rdata')
    BY <2>2, SeenNextFact DEF Low
  <2>4. rdata' \in Nat
    BY BramFact
  <2>5. isaPc' \in IF rdata' < A THEN {rdata'} ELSE 0 .. A
    BY <2>3, <2>4, GoFact
  <2>6. isaRegs' = [isaRegs EXCEPT ![Sp] = Arch!PoppedSp(isaRegs)]
    BY <1>2, <1>10, <2>2, SeenNextFact
       DEF Execute, Written, AluOp, PoppedSp, Arch!PoppedSp
  <2>7. rdata' = mem[Arch!Low(isaRegs[Sp])]
    BY <1>1, <1>2, <1>4, <1>10 DEF mem_addr, Executing, Low, Arch!Low
  <2>8. Arch!Ret
    BY <1>2, <1>10, <2>1, <2>5, <2>6, <2>7 DEF Arch!Ret, Arch!Goto, Arch!Addr, Addr
  <2> QED BY <2>8 DEF Arch!Execute

<1>11. insn.op \in AluOp \cup StopOp \cup JumpOp
          \cup {"NOP", "LI", "LOAD", "STORE", "CALL", "RET", "OUT", "IN"}
  BY InsnFact DEF IInv
<1> QED BY <1>6, <1>7, <1>8, <1>9, <1>10, <1>11

\* In every other state an edge changes nothing that NovaIsa sees.
LEMMA StepImplements ==
  ASSUME IInv, [Next]_vars
  PROVE  [Arch!Next]_Arch!isaVars
<1>1. CASE Bram /\ Ports /\ halted /\ UNCHANGED cpu
  <2>1. state = "FETCH" /\ state' = "FETCH" /\ pc' = pc /\ regs' = regs /\ halted' = halted
    BY <1>1 DEF cpu, IInv, TypeOK
  <2>2. mem' = mem /\ io' = io
    BY <1>1, <2>1, BramFact, PortsFact
  <2> QED BY <2>1, <2>2, SeenFact, SeenNextFact DEF Arch!isaVars
<1>2. CASE Bram /\ Ports /\ ~halted /\ Execute
  BY <1>2, ExecuteImplements
<1>3. CASE Bram /\ Ports /\ ~halted /\ (Fetch \/ LoadWait \/ RetWait \/ InWait)
  <2>1. state # "EXECUTE" /\ halted' = halted
    BY <1>3 DEF Fetch, LoadWait, RetWait, InWait
  <2>2. mem' = mem /\ io' = io
    BY <1>3, <2>1, BramFact, PortsFact
  <2>3. isaPc' = isaPc
    BY <1>3 DEF Fetch, LoadWait, RetWait, InWait, isaPc, Low
  <2>4. isaRegs' = isaRegs
    BY <1>3 DEF Fetch, LoadWait, RetWait, InWait, isaRegs, WriteReg
  <2> QED BY <2>1, <2>2, <2>3, <2>4 DEF Arch!isaVars
<1>4. CASE Reset
  <2>1. isaPc' = 0 /\ isaRegs' = [n \in Reg |-> 0]
    BY <1>4, SeenNextFact DEF Reset
  <2>2. Arch!Reset
    BY <1>4, <2>1 DEF Reset, Arch!Reset
  <2> QED BY <2>2 DEF Arch!Next
<1>5. CASE UNCHANGED vars
  BY <1>5 DEF vars, cpu, Arch!isaVars, isaPc, isaRegs
<1>6. CASE Clock
  <2>1. Bram /\ Ports
    BY <1>6 DEF Clock
  <2>2. CASE halted
    BY <1>1, <1>6, <2>1, <2>2 DEF Clock
  <2>3. CASE ~halted
    <3>1. Fetch \/ Execute \/ LoadWait \/ RetWait \/ InWait
      BY <1>6, <2>3 DEF Clock
    <3> QED BY <1>2, <1>3, <2>1, <2>3, <3>1
  <2> QED BY <2>2, <2>3
<1> QED BY <1>4, <1>5, <1>6 DEF Next

\* The clocked core implements the instruction set: no edge, wait state or reset does
\* anything that is not an instruction or a reset of NovaIsa.
THEOREM IsaImplemented == Spec => IsaSpec
BY Invariance, InitImplements, StepImplements, PTL DEF Spec, IsaSpec, Arch!IsaSpec
=============================================================================
