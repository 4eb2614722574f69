--------------------------- MODULE GdbStubProofs ---------------------------
(***************************************************************************)
(* The simulator's pipeline, and the stub that debugs it.                  *)
(*                                                                         *)
(* The first part is about cpu_step() alone, for every word size, memory,  *)
(* register set, decoding, program and debugger: what the pipeline adds to *)
(* the instruction set.  TypeOK is inductive, and the two action           *)
(* properties follow from it step by step: an instruction that goes on has *)
(* read ahead from the memory before it, and one that does not go on has   *)
(* flushed.                                                                *)
(*                                                                         *)
(* The second part is about what the stub may do to that machine, for      *)
(* every client, and what the client may rely on.  TypeOK is inductive     *)
(* under the stub's steps too, with what the channel may hold: only a G,   *)
(* M, s, c or k packet touches the machine.  LinkInv counts the packets    *)
(* and answers on their way; InStep says that a client that nothing has    *)
(* confused knows the breakpoint table.                                    *)
(***************************************************************************)
EXTENDS GdbStub, FiniteSetTheorems, FunctionTheorems, SequenceTheorems, TLAPS

-----------------------------------------------------------------------------
(* The pipeline *)

LEMMA ModFact ==
  ASSUME NEW x \in Int, NEW n \in Nat, n > 0
  PROVE  x % n \in 0 .. n - 1
BY Z3

USE SizeAssumption, RegAssumption, InsnAssumption, ProgramAssumption
    DEF Word, Addr, NoWord

\* The word to execute is a word, and its fields are in range.
LEMMA FetchFact ==
  ASSUME TypeOK, NEW w \in Fetched
  PROVE  /\ w \in Word
         /\ Decode[w] \in Insn
         /\ Decode[w].d \in Reg /\ Decode[w].a \in Reg /\ Decode[w].b \in Reg
         /\ Decode[w].imm \in Word
         /\ Decode[w].op \in AluOp \cup StopOp \cup JumpOp
              \cup {"NOP", "LI", "LOAD", "STORE", "CALL", "RET", "OUT", "IN"}
<1>1. w \in Word
  BY DEF TypeOK, Fetched
<1>2. Decode[w] \in Insn
  BY <1>1
<1> QED BY <1>1, <1>2 DEF Insn

LEMMA AheadFact ==
  ASSUME TypeOK
  PROVE  /\ NextPc \in 0 .. A
         /\ Prefetched \in Word \cup {NoWord}
         /\ (Prefetched # NoWord => NextPc < A /\ Prefetched = mem[NextPc])
<1>1. NextPc \in 0 .. A
  BY DEF TypeOK, NextPc
<1>2. CASE NextPc < A
  BY <1>1, <1>2 DEF TypeOK, Prefetched
<1>3. CASE ~(NextPc < A)
  BY <1>1, <1>3 DEF Prefetched
<1> QED BY <1>1, <1>2, <1>3

LEMMA LowFact ==
  ASSUME NEW x \in Int
  PROVE  Low(x) \in Addr
BY ModFact DEF Low

LEMMA AddressFact ==
  ASSUME TypeOK, NEW i \in Insn
  PROVE  /\ Eff(i) \in Addr
         /\ PushedSp(regs) \in Word /\ Low(PushedSp(regs)) \in Addr
         /\ PoppedSp(regs) \in Word /\ Low(regs[Sp]) \in Addr
         /\ Target(i) \subseteq 0 .. A
<1>1. i.a \in Reg /\ i.imm \in Word
  BY DEF Insn
<1>2. regs[i.a] + i.imm \in Int /\ regs[Sp] + W - 1 \in Int /\ regs[Sp] + 1 \in Int
  BY <1>1 DEF TypeOK
<1>3. Eff(i) \in Addr
  BY <1>2, LowFact DEF Eff
<1>4. PushedSp(regs) \in Word /\ PoppedSp(regs) \in Word
  BY <1>2, ModFact DEF PushedSp, PoppedSp
<1>5. Low(PushedSp(regs)) \in Addr /\ Low(regs[Sp]) \in Addr
  <2>1. PushedSp(regs) \in Int /\ regs[Sp] \in Int
    BY <1>4 DEF TypeOK
  <2> QED BY <2>1, LowFact
<1>6. Target(i) \subseteq 0 .. A
  <2>1. pc + 1 + i.imm \in Int
    BY <1>1 DEF TypeOK
  <2>2. (pc + 1 + i.imm) % W \in Word
    BY <2>1, ModFact
  <2> QED BY <2>2 DEF Target
<1> QED BY <1>3, <1>4, <1>5, <1>6

LEMMA ResultFact ==
  ASSUME TypeOK, NEW i \in Insn, i.op \in AluOp \cup {"LI", "LOAD"}
  PROVE  Result(i) \in Word
<1>1. /\ i.a \in Reg /\ i.b \in Reg /\ i.imm \in Word
      /\ regs[i.a] \in Word /\ regs[i.b] \in Word
  BY DEF Insn, TypeOK
<1>2. CASE i.op = "LI"
  BY <1>1, <1>2 DEF Result
<1>3. CASE i.op = "LOAD"
  BY <1>3, AddressFact DEF Result, TypeOK
<1>4. CASE i.op \in AluOp
  <2>1. Operand(i, regs[i.b]) \in Word
    BY <1>1 DEF Operand
  <2>2. Alu[i.op, regs[i.a], Operand(i, regs[i.b])] \in Word
    BY <1>1, <1>4, <2>1
  <2>3. Result(i) = Alu[i.op, regs[i.a], Operand(i, regs[i.b])]
    BY <1>4 DEF Result, AluOp
  <2> QED BY <2>2, <2>3
<1> QED BY <1>2, <1>3, <1>4
-----------------------------------------------------------------------------
(* Types, and what the pipeline holds after a step *)

\* The latch after a step: a well-typed word of the cell pc names, as memory had it.
Latched == /\ pc' \in 0 .. A /\ pipe' \in Word \cup {NoWord}
           /\ (pipe' # NoWord => pc' < A /\ pipe' = mem[pc'])

LEMMA AdvanceFact ==
  ASSUME TypeOK, Advance
  PROVE  Latched
BY AheadFact DEF Advance, Latched

LEMMA FlushFact ==
  ASSUME Flush, pc' \in 0 .. A
  PROVE  Latched
BY DEF Flush, Latched

LEMMA StepLatched ==
  ASSUME TypeOK, NEW i \in Insn, Execute(i)
  PROVE  Latched
<1>1. CASE Nop(i) \/ Compute(i) \/ In(i) \/ Out(i) \/ Store(i)
  <2>1. Advance
    BY <1>1 DEF Nop, Compute, In, Out, Store
  <2> QED BY <2>1, AdvanceFact
<1>2. CASE Stop(i)
  BY <1>2, AheadFact, FlushFact DEF Stop
<1>3. CASE Jump(i)
  <2>1. CASE Taken(i, regs[i.d])
    <3>1. pc' \in Target(i) /\ Flush
      BY <1>3, <2>1 DEF Jump
    <3> QED BY <3>1, AddressFact, FlushFact
  <2>2. CASE ~Taken(i, regs[i.d])
    BY <1>3, <2>2, AdvanceFact DEF Jump
  <2> QED BY <2>1, <2>2
<1>4. CASE Call(i)
  BY <1>4, AddressFact, FlushFact DEF Call
<1>5. CASE Ret(i)
  <2>1. mem[Low(regs[Sp])] \in Word
    BY AddressFact DEF TypeOK
  <2>2. pc' \in 0 .. A
    BY <1>5, <2>1 DEF Ret, Returned
  <2> QED BY <1>5, <2>2, FlushFact DEF Ret
<1> QED BY <1>1, <1>2, <1>3, <1>4, <1>5 DEF Execute

LEMMA StepData ==
  ASSUME TypeOK, NEW i \in Insn, halted = FALSE, Execute(i)
  PROVE  regs' \in [Reg -> Word] /\ mem' \in [Addr -> Word] /\ halted' \in BOOLEAN
<1>1. i.d \in Reg /\ i.a \in Reg /\ i.b \in Reg /\ regs[i.d] \in Word
  BY DEF Insn, TypeOK
<1>2. ASSUME NEW v \in Word, WriteReg(i.d, v) PROVE regs' \in [Reg -> Word]
  BY <1>1, <1>2 DEF WriteReg, TypeOK
<1>3. CASE Nop(i) \/ Out(i) \/ Jump(i)
  BY <1>3 DEF Nop, Out, Jump, TypeOK
<1>4. CASE Stop(i)
  BY <1>4 DEF Stop, TypeOK
<1>5. CASE Compute(i)
  <2>1. i.op \in AluOp \cup {"LI", "LOAD"} /\ WriteReg(i.d, Result(i))
    BY <1>5 DEF Compute
  <2>2. regs' \in [Reg -> Word]
    BY <1>2, <2>1, ResultFact
  <2> QED BY <1>5, <2>2 DEF Compute, TypeOK
<1>6. CASE In(i)
  <2>1. PICK v \in Word : WriteReg(i.d, v)
    BY <1>6 DEF In
  <2>2. regs' \in [Reg -> Word]
    BY <1>2, <2>1
  <2> QED BY <1>6, <2>2 DEF In, TypeOK
<1>7. CASE Store(i)
  <2>1. mem' \in [Addr -> Word]
    BY <1>1, <1>7, AddressFact DEF Store, TypeOK
  <2> QED BY <1>7, <2>1 DEF Store, TypeOK
<1>8. CASE Call(i)
  <2>1. NextPc \in Word
    BY AheadFact
  <2>2. mem' \in [Addr -> Word] /\ regs' \in [Reg -> Word]
    BY <1>8, <2>1, AddressFact DEF Call, TypeOK
  <2> QED BY <1>8, <2>2 DEF Call, TypeOK
<1>9. CASE Ret(i)
  <2>1. regs' \in [Reg -> Word]
    BY <1>9, AddressFact DEF Ret, TypeOK
  <2> QED BY <1>9, <2>1 DEF Ret, TypeOK
<1> QED BY <1>3, <1>4, <1>5, <1>6, <1>7, <1>8, <1>9 DEF Execute

LEMMA CpuStepFact ==
  ASSUME TypeOK, CpuStep
  PROVE  TypeOK' /\ Latched
<1>1. PICK w \in Fetched : Execute(Decode[w])
  BY DEF CpuStep
<1>2. halted = FALSE
  BY DEF CpuStep, TypeOK
<1>3. Decode[w] \in Insn
  BY FetchFact
<1>4. Latched
  BY <1>1, <1>3, StepLatched
<1>5. regs' \in [Reg -> Word] /\ mem' \in [Addr -> Word] /\ halted' \in BOOLEAN
  BY <1>1, <1>2, <1>3, StepData
<1> QED BY <1>4, <1>5 DEF TypeOK, Latched

LEMMA InitType == Init => TypeOK
<1> SUFFICES ASSUME Init PROVE TypeOK
  OBVIOUS
<1>1. regs \in [Reg -> Word]
  BY DEF Init
<1>2. mem \in [Addr -> Word]
  BY DEF Init
<1>3. pc \in 0 .. A /\ halted = FALSE /\ pipe = NoWord
  BY DEF Init
<1> QED BY <1>1, <1>2, <1>3 DEF TypeOK

LEMMA NextType == TypeOK /\ [CpuStep]_vars => TypeOK'
<1>1. ASSUME TypeOK, CpuStep PROVE TypeOK'
  BY <1>1, CpuStepFact
<1>2. ASSUME TypeOK, UNCHANGED vars PROVE TypeOK'
  BY <1>2 DEF vars, TypeOK
<1> QED BY <1>1, <1>2

\* The word read ahead always belongs to a pc in memory.
THEOREM TypeCorrect == Spec => []TypeOK
BY InitType, NextType, PTL DEF Spec
-----------------------------------------------------------------------------
(* Where a stale word comes from *)

StaleStep == Stale' => \/ mem'[pc'] # mem[pc']
                       \/ Stale /\ UNCHANGED <<pc, pipe>> /\ ~CpuStep

LEMMA StaleStepFact ==
  ASSUME TypeOK, CpuStep
  PROVE  StaleStep
BY CpuStepFact DEF StaleStep, Stale, Latched

\* Only a write to the very cell that was read ahead makes the latch differ from
\* memory, and the next step ends it.
THEOREM StaleSafe == Spec => StaleByWrite
<1>1. TypeOK /\ [CpuStep]_vars => [StaleStep]_vars
  BY StaleStepFact
<1>2. Spec => [][StaleStep]_vars
  BY <1>1, TypeCorrect, PTL DEF Spec
<1> QED BY <1>2 DEF StaleStep, StaleByWrite

-----------------------------------------------------------------------------
(* The instruction set *)

\* A pc beyond memory is any pc to NovaIsa.
LEMMA GotoFact ==
  ASSUME NEW t \in Nat, NEW p \in 0 .. A, t < A => p = t
  PROVE  p \in IF t < A THEN {t} ELSE 0 .. A
OBVIOUS

LEMMA InstructionFact ==
  ASSUME TypeOK, pc < A, ~Stale, CpuStep
  PROVE  Arch!Next
<1>1. PICK w \in Fetched : Execute(Decode[w])
  BY DEF CpuStep
<1> DEFINE i == Decode[w]
<1>2. w = mem[pc]
  BY DEF Stale, Fetched
<1>3. Arch!insn = i
  BY <1>2 DEF Arch!insn
<1>4. i \in Insn /\ i.d \in Reg /\ i.a \in Reg /\ i.b \in Reg /\ i.imm \in Word
  BY FetchFact
<1>5. Execute(i)
  BY <1>1
<1> HIDE DEF i
<1>6. halted = FALSE
  BY DEF CpuStep, TypeOK
<1>7. pc' \in 0 .. A
  BY CpuStepFact DEF TypeOK
<1>8. ASSUME pc' = NextPc PROVE pc' \in IF pc + 1 < A THEN {pc + 1} ELSE 0 .. A
  <2>1. pc + 1 \in Nat
    BY DEF TypeOK
  <2>2. pc + 1 < A => pc' = pc + 1
    BY <1>8 DEF NextPc
  <2> QED BY <1>7, <2>1, <2>2, GotoFact
<1>9. ASSUME pc' \in Target(i)
      PROVE  pc' \in IF Arch!Goal < A THEN {Arch!Goal} ELSE 0 .. A
  <2>1. Arch!Goal = (pc + 1 + i.imm) % W
    BY <1>3 DEF Arch!Goal
  <2>2. pc + 1 + i.imm \in Int
    BY <1>4 DEF TypeOK
  <2>3. (pc + 1 + i.imm) % W \in Nat
    BY <2>2, ModFact
  <2>4. Arch!Goal < A => pc' = Arch!Goal
    BY <1>9, <2>1, <2>3 DEF Target, TypeOK
  <2> QED BY <1>7, <2>1, <2>3, <2>4, GotoFact
<1>10. Arch!Eff = Eff(i)
  BY <1>3 DEF Arch!Eff, Eff, Arch!Low, Low
<1> USE <1>3, <1>6
<1> SUFFICES Arch!Execute
  BY DEF Arch!Next
<1>11. CASE Nop(i)
  <2>1. Arch!Nop
    BY <1>8, <1>11 DEF Nop, Advance, Arch!Nop, Arch!Goto
  <2> QED BY <2>1 DEF Arch!Execute
<1>12. CASE Stop(i)
  <2>1. Arch!Stop
    BY <1>8, <1>12 DEF Stop, Arch!Stop, Arch!Goto, Arch!DividesByZero, Arch!StopOp, StopOp
  <2> QED BY <2>1 DEF Arch!Execute
<1>13. CASE Compute(i)
  <2>1. /\ i.op \in AluOp \cup {"LI", "LOAD"} /\ WriteReg(i.d, Result(i))
        /\ ~(i.op = "DIV" /\ regs[i.b] = 0)
        /\ pc' = NextPc /\ UNCHANGED <<mem, halted, io>>
    BY <1>13 DEF Compute, Advance
  <2>2. CASE i.op = "LI"
    <3>1. Arch!Li
      BY <1>8, <2>1, <2>2 DEF WriteReg, Result, Arch!Li, Arch!Write, Arch!Goto
    <3> QED BY <3>1 DEF Arch!Execute
  <2>3. CASE i.op = "LOAD"
    <3>1. Arch!Load
      BY <1>8, <1>10, <2>1, <2>3 DEF WriteReg, Result, Arch!Load, Arch!Write, Arch!Goto
    <3> QED BY <3>1 DEF Arch!Execute
  <2>4. CASE i.op \in AluOp
    <3> DEFINE v == Alu[i.op, regs[i.a], Operand(i, regs[i.b])]
    <3>1. Result(i) = v
      BY <2>4 DEF Result, AluOp
    <3>2. Operand(i, regs[i.b]) = Arch!Operand(i, regs[i.b])
      BY DEF Operand, Arch!Operand
    <3>3. v = Alu[i.op, regs[i.a], Arch!Operand(i, regs[i.b])]
      BY <3>2
    <3> HIDE DEF v
    <3>4. Arch!Arith
      BY <1>8, <2>1, <2>4, <3>1, <3>3
         DEF WriteReg, Arch!Arith, Arch!DividesByZero, Arch!Write, Arch!Goto, Arch!AluOp, AluOp
    <3> QED BY <3>4 DEF Arch!Execute
  <2> QED BY <2>1, <2>2, <2>3, <2>4
<1>14. CASE In(i)
  <2>1. Arch!In
    BY <1>8, <1>14 DEF In, Advance, WriteReg, Arch!In, Arch!Write, Arch!Goto, Arch!Word
  <2> QED BY <2>1 DEF Arch!Execute
<1>15. CASE Out(i)
  <2>1. Arch!Out
    BY <1>8, <1>15 DEF Out, Advance, Arch!Out, Arch!Goto
  <2> QED BY <2>1 DEF Arch!Execute
<1>16. CASE Store(i)
  <2>1. Arch!Store
    BY <1>8, <1>10, <1>16 DEF Store, Advance, Arch!Store, Arch!Goto
  <2> QED BY <2>1 DEF Arch!Execute
<1>17. CASE Jump(i)
  <2>1. Taken(i, regs[i.d]) <=> Arch!Taken(i, regs[i.d])
    BY DEF Taken, Arch!Taken
  <2>2. CASE Taken(i, regs[i.d])
    <3>1. pc' \in Target(i)
      BY <1>17, <2>2 DEF Jump
    <3>2. Arch!Jump
      BY <1>9, <1>17, <2>1, <2>2, <3>1 DEF Jump, Arch!Jump, Arch!Goto, Arch!JumpOp, JumpOp
    <3> QED BY <3>2 DEF Arch!Execute
  <2>3. CASE ~Taken(i, regs[i.d])
    <3>1. pc' = NextPc
      BY <1>17, <2>3 DEF Jump, Advance
    <3>2. Arch!Jump
      BY <1>8, <1>17, <2>1, <2>3, <3>1 DEF Jump, Arch!Jump, Arch!Goto, Arch!JumpOp, JumpOp
    <3> QED BY <3>2 DEF Arch!Execute
  <2> QED BY <2>2, <2>3
<1>18. CASE Call(i)
  <2>1. NextPc = pc + 1
    BY DEF NextPc
  <2>2. Low(PushedSp(regs)) = Arch!Low(Arch!PushedSp(regs))
        /\ PushedSp(regs) = Arch!PushedSp(regs)
    BY DEF Low, Arch!Low, PushedSp, Arch!PushedSp
  <2>3. Arch!Call
    BY <1>9, <1>18, <2>1, <2>2 DEF Call, Arch!Call, Arch!Goto
  <2> QED BY <2>3 DEF Arch!Execute
<1>19. CASE Ret(i)
  <2>1. Low(regs[Sp]) = Arch!Low(regs[Sp]) /\ PoppedSp(regs) = Arch!PoppedSp(regs)
    BY DEF Low, Arch!Low, PoppedSp, Arch!PoppedSp
  <2>2. Arch!Ret
    BY <1>19, <2>1 DEF Ret, Returned, Arch!Ret, Arch!Goto
  <2> QED BY <2>2 DEF Arch!Execute
<1> QED BY <1>5, <1>11, <1>12, <1>13, <1>14, <1>15, <1>16, <1>17, <1>18, <1>19 DEF Execute

\* With a current word in the latch, a step of the simulator is one instruction.
THEOREM InstructionSafe == Spec => StepIsInstruction
<1>1. TypeOK /\ [CpuStep]_vars => [CpuStep /\ pc < A /\ ~Stale => Arch!Next]_vars
  BY InstructionFact
<1> QED BY <1>1, TypeCorrect, PTL DEF Spec, StepIsInstruction

HIDE SizeAssumption
HIDE RegAssumption
HIDE InsnAssumption
HIDE ProgramAssumption
HIDE DEF Word, Addr, NoWord

-----------------------------------------------------------------------------
(* The stub *)

ChannelOK == session \in Session /\ cmd \in Command /\ down \in Seq(Command)

IInv == TypeOK /\ ChannelOK

LEMMA CommandFact ==
  ASSUME NEW c \in Command
  PROVE  c.addr \in 0 .. A /\ c.reg \in Reg /\ c.val \in Word
<1>1. CASE c = Nothing
  BY <1>1, SizeAssumption, RegAssumption DEF Nothing, Word
<1>2. CASE c # Nothing
  BY <1>2, StubAssumption DEF Command
<1> QED BY <1>1, <1>2

-----------------------------------------------------------------------------
(* Types *)

LEMMA ClientChannel ==
  ASSUME ChannelOK, Client
  PROVE  ChannelOK'
<1>1. Nothing \in Command
  BY DEF Command
<1>2. UNCHANGED session
  BY DEF Client
<1>3. CASE \E c \in session.commands : Send(c)
  <2>1. PICK c \in session.commands : Send(c)
    BY <1>3
  <2>2. c \in Command
    BY DEF Command, ChannelOK
  <2> QED BY <1>2, <2>1, <2>2 DEF Send, ChannelOK
<1>4. ASSUME Resend, UNCHANGED cmd PROVE ChannelOK'
  BY <1>2, <1>4 DEF Resend, ChannelOK
<1>5. CASE Timeout
  BY <1>4, <1>5 DEF Timeout, Resend
<1>6. CASE TakeAck
  <2>1. CASE Resend
    BY <1>4, <2>1 DEF Resend
  <2>2. CASE GiveUp
    BY <1>1, <1>2, <2>2 DEF GiveUp, Ready, ChannelOK
  <2>3. CASE UNCHANGED <<cmd, down>>
    BY <1>2, <2>3 DEF ChannelOK
  <2> QED BY <1>6, <2>1, <2>2, <2>3 DEF TakeAck, clientVars
<1>7. CASE TakeAnswer
  BY <1>1, <1>2, <1>7 DEF TakeAnswer, Ready, ChannelOK
<1>8. CASE HangUp
  BY <1>1, <1>2, <1>8 DEF HangUp, ChannelOK
<1> QED BY <1>3, <1>5, <1>6, <1>7, <1>8 DEF Client

LEMMA ReceiveFact ==
  ASSUME ChannelOK, NEW c, Receive(c)
  PROVE  ChannelOK' /\ c \in Command
<1>1. down # << >> /\ c = Head(down) /\ down' = Tail(down) /\ UNCHANGED clientVars
  BY DEF Receive
<1>2. c \in Command /\ down' \in Seq(Command)
  BY <1>1 DEF ChannelOK
<1> QED BY <1>1, <1>2 DEF ChannelOK, clientVars

\* A step of the machine, or one of the debugger's writes.
Touches(c) == \/ WriteRegs(c) \/ WriteSomeRegs(c) \/ WriteMem(c) \/ CpuStep \/ Kill
              \/ UNCHANGED vars

LEMMA HandleFact ==
  ASSUME NEW c, Handle(c)
  PROVE  Receive(c) /\ Touches(c)
<1>1. CASE Refuse(c)
  BY <1>1 DEF Refuse, Idle, Touches
<1>2. CASE Ask(c)
  BY <1>2 DEF Ask, Accept, Idle, Touches
<1>3. CASE WriteRegs(c) \/ WriteSomeRegs(c)
  BY <1>3 DEF WriteRegs, WriteSomeRegs, Accept, Touches
<1>4. CASE WriteMem(c)
  BY <1>4 DEF WriteMem, Accept, Touches
<1>5. CASE Step(c)
  BY <1>5 DEF Step, Accept, Touches
<1>6. CASE bp_add(c) \/ bp_remove(c) \/ Continue(c)
  BY <1>6 DEF bp_add, bp_remove, Continue, Accept, Touches
<1>7. CASE KillAnswer(c)
  BY <1>7 DEF KillAnswer, Accept, Touches
<1> QED BY <1>1, <1>2, <1>3, <1>4, <1>5, <1>6, <1>7 DEF Handle

LEMMA TouchType ==
  ASSUME TypeOK, NEW c \in Command, Touches(c)
  PROVE  TypeOK'
<1>1. c.addr \in 0 .. A /\ c.reg \in Reg /\ c.val \in Word
  BY CommandFact
<1>2. CASE WriteRegs(c)
  <2>1. regs' \in [Reg -> Word]
    BY <1>1, <1>2 DEF WriteRegs, WriteReg, TypeOK
  <2>2. pc' \in 0 .. A
    BY <1>1, <1>2 DEF WriteRegs, TypeOK
  <2> QED BY <1>2, <2>1, <2>2 DEF WriteRegs, Flush, TypeOK
<1>3. CASE WriteMem(c)
  <2>1. mem' \in [Addr -> Word]
    BY <1>1, <1>3 DEF WriteMem, TypeOK
  <2> QED BY <1>3, <2>1 DEF WriteMem, TypeOK
<1>4. CASE CpuStep
  BY <1>4, CpuStepFact
<1>5. CASE Kill
  BY <1>5 DEF Kill, TypeOK
<1>6. CASE UNCHANGED vars
  BY <1>6 DEF vars, TypeOK
<1>7. CASE WriteSomeRegs(c)
  <2>1. regs' \in [Reg -> Word]
    BY <1>1, <1>7 DEF WriteSomeRegs, WriteReg, TypeOK
  <2> QED BY <1>7, <2>1 DEF WriteSomeRegs, TypeOK
<1> QED BY <1>2, <1>3, <1>4, <1>5, <1>6, <1>7 DEF Touches

\* Every step of the session, as the machine sees it.
LEMMA StepFact ==
  ASSUME IInv, StubNext
  PROVE  ChannelOK' /\ \E c \in Command : Touches(c)
<1>1. CASE Client
  BY <1>1, ClientChannel DEF Client, IInv, Touches, Command
<1>2. CASE \E c \in {down[k] : k \in DOMAIN down} : Handle(c)
  BY <1>2, HandleFact, ReceiveFact DEF IInv
<1>3. CASE ContinueStep
  <2>1. Nothing \in Command /\ ChannelOK'
    BY <1>3 DEF ContinueStep, Command, IInv, ChannelOK, clientVars
  <2> QED BY <1>3, <2>1 DEF ContinueStep, Touches
<1>4. CASE EndOfStream
  <2>1. Nothing \in Command /\ ChannelOK'
    BY <1>4 DEF EndOfStream, Command, IInv, ChannelOK, clientVars
  <2> QED BY <1>4, <2>1 DEF EndOfStream, Touches
<1> QED BY <1>1, <1>2, <1>3, <1>4 DEF StubNext

\* The client, whatever it sends, leaves the machine well typed: a latched word always
\* belongs to a pc in memory.
THEOREM StubTypeCorrect == StubSpec => []IInv
<1>1. StubInit => IInv
  <2>1. StubInit => Nothing \in Command /\ << >> \in Seq(Command)
    BY DEF Command
  <2> QED BY <2>1, InitType DEF StubInit, IInv, ChannelOK
<1>2. IInv /\ [StubNext]_allVars => IInv'
  <2> SUFFICES ASSUME IInv, [StubNext]_allVars PROVE IInv'
    OBVIOUS
  <2>1. CASE StubNext
    BY <2>1, StepFact, TouchType DEF IInv
  <2>2. CASE UNCHANGED allVars
    BY <2>2 DEF allVars, stubVars, clientVars, vars, IInv, TypeOK, ChannelOK
  <2> QED BY <2>1, <2>2
<1> QED BY <1>1, <1>2, PTL DEF StubSpec

-----------------------------------------------------------------------------
(* The pipeline under the stub *)

LEMMA TouchStale ==
  ASSUME TypeOK, NEW c \in Command, Touches(c)
  PROVE  StaleStep
<1>1. CASE WriteRegs(c)
  BY <1>1 DEF WriteRegs, Flush, StaleStep, Stale
<1>2. CASE CpuStep
  BY <1>2, StaleStepFact
<1>3. CASE WriteSomeRegs(c) \/ WriteMem(c) \/ Kill \/ UNCHANGED vars
  <2>1. UNCHANGED <<pc, pipe>>
    BY <1>3 DEF WriteSomeRegs, WriteMem, Kill, vars
  <2>2. CASE CpuStep
    BY <2>2, StaleStepFact
  <2>3. CASE ~CpuStep
    BY <2>1, <2>3 DEF StaleStep, Stale
  <2> QED BY <2>2, <2>3
<1> QED BY <1>1, <1>2, <1>3 DEF Touches

\* Whatever the client sends and however often, the word read ahead is stale only where
\* its own cell was written.
THEOREM StubStaleSafe == StubSpec => StaleByWrite
<1>1. IInv /\ [StubNext]_allVars => [StaleStep]_vars
  BY StepFact, TouchStale DEF IInv, allVars, stubVars, vars
<1>2. StubSpec => [][StaleStep]_vars
  BY <1>1, StubTypeCorrect, PTL DEF StubSpec
<1> QED BY <1>2 DEF StaleStep, StaleByWrite

\* A step the debugger asks for is one instruction, unless it wrote the word read ahead.
THEOREM StubInstructionSafe == StubSpec => StepIsInstruction
<1>1. IInv /\ [StubNext]_allVars => [CpuStep /\ pc < A /\ ~Stale => Arch!Next]_vars
  BY InstructionFact DEF IInv
<1> QED BY <1>1, StubTypeCorrect, PTL DEF StubSpec, StepIsInstruction

-----------------------------------------------------------------------------
(* Counting the elements of a sequence that lie in a set *)

LEMMA CountType ==
  ASSUME NEW S, NEW s \in Seq(S), NEW X
  PROVE  Count(s, X) \in Nat /\ IsFiniteSet({k \in DOMAIN s : s[k] \in X})
<1>1. DOMAIN s = 1 .. Len(s) /\ Len(s) \in Nat
  OBVIOUS
<1>2. IsFiniteSet(DOMAIN s)
  BY <1>1, FS_Interval
<1>3. IsFiniteSet({k \in DOMAIN s : s[k] \in X})
  BY <1>2, FS_Subset
<1> QED BY <1>3, FS_CardinalityType DEF Count

LEMMA CountNone ==
  ASSUME NEW S, NEW s \in Seq(S), NEW X
  PROVE  Count(s, X) = 0 <=> \A k \in DOMAIN s : s[k] \notin X
<1> DEFINE P == {k \in DOMAIN s : s[k] \in X}
<1>1. IsFiniteSet(P)
  BY CountType
<1>2. Cardinality(P) = 0 <=> P = {}
  BY <1>1, FS_EmptySet
<1> QED BY <1>2 DEF Count

LEMMA CountAppend ==
  ASSUME NEW S, NEW s \in Seq(S), NEW x \in S, NEW X
  PROVE  Count(Append(s, x), X) = Count(s, X) + (IF x \in X THEN 1 ELSE 0)
<1> DEFINE P == {k \in DOMAIN s : s[k] \in X}
           t == Append(s, x)
           Q == {k \in DOMAIN t : t[k] \in X}
<1>1. IsFiniteSet(P) /\ Cardinality(P) \in Nat
  BY CountType DEF Count
<1>2. /\ DOMAIN s = 1 .. Len(s) /\ Len(s) \in Nat /\ DOMAIN t = 1 .. Len(s) + 1
      /\ t[Len(s) + 1] = x /\ \A k \in 1 .. Len(s) : t[k] = s[k]
  OBVIOUS
<1>3. CASE x \in X
  <2>1. Q = P \cup {Len(s) + 1} /\ Len(s) + 1 \notin P
    BY <1>2, <1>3
  <2>2. Cardinality(Q) = Cardinality(P) + 1
    BY <2>1, <1>1, FS_AddElement
  <2> QED BY <2>2, <1>3 DEF Count
<1>4. CASE x \notin X
  <2>1. Q = P
    BY <1>2, <1>4
  <2>2. Cardinality(Q) = Cardinality(P)
    BY <2>1
  <2> HIDE DEF P, Q
  <2>3. Cardinality(Q) = Cardinality(P) + (IF x \in X THEN 1 ELSE 0)
    BY <2>2, <1>1, <1>4
  <2> QED BY <2>3 DEF Count, P, Q
<1> QED BY <1>3, <1>4

\* The positions of the tail are those of the sequence behind the first, less one.
LEMMA CountTail ==
  ASSUME NEW S, NEW s \in Seq(S), s # << >>, NEW X
  PROVE  Count(Tail(s), X) = Count(s, X) - (IF Head(s) \in X THEN 1 ELSE 0)
<1> DEFINE P == {k \in DOMAIN s : s[k] \in X}
           t == Tail(s)
           Q == {k \in DOMAIN t : t[k] \in X}
           R == P \ {1}
           f == [k \in Q |-> k + 1]
<1>1. IsFiniteSet(P) /\ Cardinality(P) \in Nat
  BY CountType DEF Count
<1>2. /\ DOMAIN s = 1 .. Len(s) /\ Len(s) \in Nat \ {0} /\ t \in Seq(S)
      /\ DOMAIN t = 1 .. Len(s) - 1 /\ \A k \in 1 .. Len(s) - 1 : t[k] = s[k + 1]
      /\ Head(s) = s[1]
  OBVIOUS
<1>3. IsFiniteSet(Q)
  BY <1>2, CountType
<1>4. f \in Bijection(Q, R)
  <2>1. \A k \in Q : k \in Int /\ k + 1 \in R
    BY <1>2
  <2>2. \A r \in R : \E k \in Q : r = k + 1
    <3> SUFFICES ASSUME NEW r \in R PROVE r - 1 \in Q /\ r = (r - 1) + 1
      OBVIOUS
    <3> QED BY <1>2
  <2>3. f \in [Q -> R]
    BY <2>1
  <2>4. \A a, b \in Q : f[a] = f[b] => a = b
    BY <2>1
  <2>5. \A r \in R : \E k \in Q : f[k] = r
    BY <2>2
  <2> QED BY <2>3, <2>4, <2>5 DEF Bijection, Injection, Surjection, IsInjective
<1>5. Cardinality(Q) = Cardinality(R)
  <2>1. ExistsBijection(Q, R)
    BY <1>4, Fun_ExistsBij
  <2> QED BY <2>1, <1>3, FS_Bijection
<1>6. Cardinality(R) = IF 1 \in P THEN Cardinality(P) - 1 ELSE Cardinality(P)
  BY <1>1, FS_RemoveElement
<1>7. 1 \in P <=> Head(s) \in X
  BY <1>2
<1> HIDE DEF P, Q, R
<1>8. Cardinality(Q) = Cardinality(P) - (IF Head(s) \in X THEN 1 ELSE 0)
  BY <1>1, <1>5, <1>6, <1>7
<1> QED BY <1>8 DEF Count, P, Q

-----------------------------------------------------------------------------
(* The answers on their way *)

Distinct == \A i, j \in DOMAIN bp_table : bp_table[i] = bp_table[j] => i = j

LinkOK ==
  /\ up \in Seq(Acks \cup Replies)
  /\ bp_table \in Seq(0 .. A) /\ Distinct
  /\ surplus \in Int /\ confused \in BOOLEAN
  /\ client \in {"idle", "ack", "answer", "gone"}
  /\ stub \in {"recv", "continue", "closed"}

\* The breakpoints a client believes in, who had B and got the answer a to c.
Applied(c, a, B) ==
  IF a # "OK" THEN B
  ELSE IF c.op = "Z" THEN B \cup {c.addr}
  ELSE IF c.op = "z" THEN B \ {c.addr} ELSE B

\* While nothing was repeated, the table is what the client believes, or will
\* believe when it has taken the one answer on its way.
InStep ==
  ~confused /\ stub # "closed" =>
    /\ surplus = 0 /\ client # "gone"
    /\ \A k \in DOMAIN down : down[k] \in Fitting => down[k] = cmd
    /\ (\A k \in DOMAIN up : up[k] \notin Replies) => Breakpoints = believed
    /\ \A k \in DOMAIN up : up[k] \in Replies => Breakpoints = Applied(cmd, up[k], believed)

LEMMA AcksApart == \A x \in Acks : x \notin Replies
BY DEF Acks, Replies

LEMMA FittingFact == \A c \in Command : c.long \in BOOLEAN /\ (c \in Fitting <=> ~c.long)
<1>1. Nothing.long = FALSE
  BY DEF Nothing
<1>2. \A k \in Session : \A c \in k.commands : c.long \in BOOLEAN
  BY StubAssumption
<1>3. ASSUME NEW c \in Command PROVE c.long \in BOOLEAN
  <2>1. CASE c = Nothing
    BY <1>1, <2>1
  <2>2. CASE c # Nothing
    BY <1>2, <2>2 DEF Command
  <2> QED BY <2>1, <2>2
<1> QED BY <1>3 DEF Fitting

\* AnswersCounted of the next state, written out.
CountedNext ==
  stub' # "closed" /\ client' # "gone" =>
     Count(down', Fitting) + (IF stub' = "continue" THEN 1 ELSE 0) + Count(up', Replies)
       = surplus' + (IF client' \in {"ack", "answer"} /\ ~cmd'.long THEN 1 ELSE 0)

LEMMA CountedNextFact == AnswersCounted' <=> CountedNext
BY DEF AnswersCounted, CountedNext, Count, Fitting, Command, Nothing, Replies

\* Repeating a packet adds as much to what is on its way as to what is surplus.
LEMMA ResendFact ==
  ASSUME ChannelOK, LinkOK, Resend
  PROVE  /\ Count(down', Fitting) - surplus' = Count(down, Fitting) - surplus
         /\ down' = Append(down, cmd) /\ UNCHANGED <<client, cmd, believed>>
         /\ surplus' \in Int /\ confused' \in BOOLEAN
         /\ cmd.long => UNCHANGED <<surplus, confused>>
         /\ ~cmd.long => confused'
<1>1. cmd \in Command /\ down \in Seq(Command) /\ surplus \in Int
  BY DEF ChannelOK, LinkOK
<1>2. Count(down', Fitting) = Count(down, Fitting) + (IF cmd \in Fitting THEN 1 ELSE 0)
  BY <1>1, CountAppend DEF Resend
<1>3. Count(down, Fitting) \in Nat
  BY <1>1, CountType
<1>4. surplus' = surplus + (IF cmd \in Fitting THEN 1 ELSE 0)
  BY <1>1, FittingFact DEF Resend
<1>5. Count(down', Fitting) - surplus' = Count(down, Fitting) - surplus /\ surplus' \in Int
  BY <1>1, <1>2, <1>3, <1>4
<1>6. /\ confused' \in BOOLEAN
      /\ cmd.long => UNCHANGED <<surplus, confused>>
      /\ ~cmd.long => confused'
  BY <1>1, FittingFact DEF Resend, LinkOK
<1> QED BY <1>5, <1>6 DEF Resend

\* What a packet that is taken from the channel does to the counts.
LEMMA UpFact ==
  ASSUME LinkOK, up # << >>, up' = Tail(up)
  PROVE  /\ up' \in Seq(Acks \cup Replies)
         /\ Count(up, Replies) \in Nat /\ Count(up', Replies) \in Nat
         /\ Head(up) \in Acks => Count(up', Replies) = Count(up, Replies)
         /\ Head(up) \notin Acks =>
              Count(up', Replies) = Count(up, Replies) - 1 /\ Head(up) \in Replies
<1>1. up \in Seq(Acks \cup Replies) /\ up' \in Seq(Acks \cup Replies)
      /\ Head(up) \in Acks \cup Replies
  BY DEF LinkOK
<1>2. Count(up, Replies) \in Nat /\ Count(up', Replies) \in Nat
  BY <1>1, CountType
<1>3. Count(up', Replies) = Count(up, Replies) - (IF Head(up) \in Replies THEN 1 ELSE 0)
  BY <1>1, CountTail
<1> QED BY <1>1, <1>2, <1>3, AcksApart

LEMMA ClientCounts ==
  ASSUME ChannelOK, LinkOK, AnswersCounted, Client
  PROVE  LinkOK' /\ AnswersCounted'
<1>0. UNCHANGED <<stub, bp_table>> /\ Distinct' /\ cmd \in Command /\ surplus \in Int
      /\ cmd.long \in BOOLEAN
      /\ Count(down, Fitting) \in Nat /\ Count(up, Replies) \in Nat
  BY CountType, FittingFact DEF Client, LinkOK, Distinct, ChannelOK
<1>1. CASE \E c \in session.commands : Send(c) /\ UNCHANGED up
  <2>1. PICK c \in session.commands : Send(c) /\ UNCHANGED up
    BY <1>1
  <2>2. c \in Command /\ down \in Seq(Command)
    BY DEF Command, ChannelOK
  <2>3. Count(down', Fitting) = Count(down, Fitting) + (IF c \in Fitting THEN 1 ELSE 0)
    BY <2>1, <2>2, CountAppend DEF Send
  <2>4. c \in Fitting <=> ~c.long
    BY <2>2, FittingFact
  <2>5. /\ stub' = stub /\ surplus' = surplus /\ cmd' = c /\ client = "idle" /\ client' = "ack"
        /\ Count(up', Replies) = Count(up, Replies)
    BY <1>0, <2>1 DEF Send
  <2>6. CountedNext
    BY <1>0, <2>3, <2>4, <2>5 DEF AnswersCounted, CountedNext
  <2> QED BY <1>0, <2>1, <2>6, CountedNextFact DEF LinkOK, Send
<1>2. CASE Timeout
  <2>1. Resend /\ UNCHANGED up
    BY <1>2 DEF Timeout
  <2>2. CountedNext
    <3>1. Count(down', Fitting) \in Nat
      <4>1. down' \in Seq(Command)
        BY <1>0, <2>1, ResendFact DEF ChannelOK
      <4> QED BY <4>1, CountType
    <3>2. /\ Count(down', Fitting) - surplus' = Count(down, Fitting) - surplus
          /\ surplus' \in Int /\ client' = client /\ cmd' = cmd /\ stub' = stub
          /\ Count(up', Replies) = Count(up, Replies)
      BY <1>0, <2>1, ResendFact
    <3> QED BY <1>0, <3>1, <3>2 DEF AnswersCounted, CountedNext
  <2> QED BY <1>0, <2>1, <2>2, ResendFact, CountedNextFact DEF LinkOK
<1>3. CASE TakeAck
  <2>1. up # << >> /\ Head(up) \in Acks /\ up' = Tail(up)
    BY <1>3 DEF TakeAck
  <2>2. up' \in Seq(Acks \cup Replies) /\ Count(up', Replies) = Count(up, Replies)
    BY <2>1, UpFact
  <2>3. CASE Resend
    <3>1. Count(down', Fitting) \in Nat
      <4>1. down' \in Seq(Command)
        BY <1>0, <2>3, ResendFact DEF ChannelOK
      <4> QED BY <4>1, CountType
    <3>2. /\ Count(down', Fitting) - surplus' = Count(down, Fitting) - surplus
          /\ surplus' \in Int /\ client' = client /\ cmd' = cmd /\ stub' = stub
          /\ Count(up', Replies) = Count(up, Replies)
      BY <1>0, <2>2, <2>3, ResendFact
    <3>3. CountedNext
      BY <1>0, <3>1, <3>2 DEF AnswersCounted, CountedNext
    <3> QED BY <1>0, <2>2, <2>3, <3>3, ResendFact, CountedNextFact DEF LinkOK
  <2>4. CASE client = "ack" /\ GiveUp
    <3>1. /\ client' = "idle" /\ down' = down
          /\ surplus' = IF cmd.long THEN surplus ELSE surplus + 1
          /\ confused' = (confused \/ ~cmd.long)
      BY <2>4 DEF GiveUp, Ready
    <3>2. surplus' \in Int /\ confused' \in BOOLEAN
      BY <1>0, <3>1 DEF LinkOK
    <3>3. CountedNext
      BY <1>0, <2>2, <2>4, <3>1 DEF AnswersCounted, CountedNext
    <3> QED BY <1>0, <2>2, <3>1, <3>2, <3>3, CountedNextFact DEF LinkOK
  <2>5. CASE /\ client' = "answer" /\ client \in {"ack", "answer"}
             /\ UNCHANGED <<cmd, surplus, confused, down>>
    BY <1>0, <2>2, <2>5, CountedNextFact DEF AnswersCounted, CountedNext, LinkOK
  <2>6. CASE client = "answer" /\ UNCHANGED <<clientVars, down>>
    BY <2>5, <2>6 DEF clientVars
  <2> QED BY <1>3, <2>3, <2>4, <2>5, <2>6 DEF TakeAck
<1>4. CASE TakeAnswer
  <2>1. /\ client = "answer" /\ client' = "idle" /\ up # << >> /\ Head(up) \notin Acks
        /\ up' = Tail(up) /\ surplus' = IF cmd.long THEN surplus - 1 ELSE surplus
        /\ UNCHANGED <<confused, down>>
    BY <1>4 DEF TakeAnswer, Ready
  <2>2. up' \in Seq(Acks \cup Replies) /\ Count(up', Replies) = Count(up, Replies) - 1
    BY <2>1, UpFact
  <2>3. /\ Count(down', Fitting) = Count(down, Fitting) /\ stub' = stub
        /\ surplus' = (IF cmd.long THEN surplus - 1 ELSE surplus)
        /\ client = "answer" /\ client' = "idle"
        /\ Count(up', Replies) = Count(up, Replies) - 1
    BY <1>0, <2>1, <2>2
  <2>4. CountedNext
    <3>1. CASE cmd.long
      <4>1. surplus' = surplus - 1 /\ surplus' \in Int /\ client # "gone"
        BY <1>0, <2>3, <3>1
      <4>2. SUFFICES ASSUME stub' # "closed"
                     PROVE  Count(down', Fitting) + (IF stub' = "continue" THEN 1 ELSE 0)
                              + Count(up', Replies) = surplus'
        BY <2>3, <4>1 DEF CountedNext
      <4>3. Count(down, Fitting) + (IF stub = "continue" THEN 1 ELSE 0) + Count(up, Replies)
              = surplus
        BY <1>0, <2>3, <3>1, <4>1, <4>2 DEF AnswersCounted
      <4>4. CASE stub = "continue"
        BY <1>0, <2>3, <4>1, <4>3, <4>4
      <4>5. CASE stub # "continue"
        BY <1>0, <2>3, <4>1, <4>3, <4>5
      <4> QED BY <4>4, <4>5
    <3>2. CASE ~cmd.long
      BY <1>0, <2>3, <3>2 DEF AnswersCounted, CountedNext
    <3> QED BY <3>1, <3>2
  <2> QED BY <1>0, <2>1, <2>2, <2>4, CountedNextFact DEF LinkOK
<1>5. CASE HangUp
  BY <1>0, <1>5, CountedNextFact DEF HangUp, CountedNext, LinkOK
<1> QED BY <1>1, <1>2, <1>3, <1>4, <1>5 DEF Client

-----------------------------------------------------------------------------
(* The breakpoint table *)

LEMMA AddedFact ==
  ASSUME LinkOK, NEW a \in 0 .. A, a \notin Breakpoints, bp_table' = Append(bp_table, a)
  PROVE  bp_table' \in Seq(0 .. A) /\ Distinct' /\ Breakpoints' = Breakpoints \cup {a}
<1>1. bp_table \in Seq(0 .. A) /\ Distinct
  BY DEF LinkOK
<1> DEFINE n == Len(bp_table)
<1>2. /\ n \in Nat /\ DOMAIN bp_table = 1 .. n /\ DOMAIN bp_table' = 1 .. n + 1
      /\ bp_table'[n + 1] = a /\ \A k \in 1 .. n : bp_table'[k] = bp_table[k]
  BY <1>1
<1>3. \A k \in 1 .. n : bp_table[k] # a
  BY <1>2 DEF Breakpoints
<1> HIDE DEF n
<1>4. Distinct'
  BY <1>1, <1>2, <1>3 DEF Distinct
<1>5. Breakpoints' = Breakpoints \cup {a}
  BY <1>2 DEF Breakpoints
<1> QED BY <1>1, <1>4, <1>5

\* The last entry moves into the hole, so that exactly the breakpoint named is gone.
LEMMA RemovedFact ==
  ASSUME LinkOK, NEW k \in DOMAIN bp_table, bp_table' = Removed(k)
  PROVE  /\ bp_table' \in Seq(0 .. A) /\ Distinct'
         /\ Breakpoints' = Breakpoints \ {bp_table[k]}
<1>1. bp_table \in Seq(0 .. A) /\ Distinct
  BY DEF LinkOK
<1> DEFINE n == Len(bp_table)
<1>2. n \in Nat \ {0} /\ DOMAIN bp_table = 1 .. n /\ k \in 1 .. n
  BY <1>1
<1>3. /\ Shortened \in Seq(0 .. A) /\ DOMAIN Shortened = 1 .. n - 1
      /\ \A j \in 1 .. n - 1 : Shortened[j] = bp_table[j]
  <2>1. \A j \in 1 .. n - 1 : bp_table[j] \in 0 .. A
    <3>1. \A j \in 1 .. n : bp_table[j] \in 0 .. A
      BY <1>1, ElementOfSeq
    <3>2. \A j \in 1 .. n - 1 : j \in 1 .. n
      BY <1>2
    <3> QED BY <3>1, <3>2
  <2>2. /\ SubSeq(bp_table, 1, n - 1) \in Seq(0 .. A)
        /\ Len(SubSeq(bp_table, 1, n - 1)) = n - 1
        /\ \A j \in 1 .. n - 1 : SubSeq(bp_table, 1, n - 1)[j] = bp_table[j]
    BY <1>1, <1>2, <2>1, SubSeqProperties
  <2> QED BY <1>2, <2>2, LenProperties DEF Shortened
<1>4. bp_table[n] \in 0 .. A
  <2>1. n \in 1 .. n
    BY <1>2
  <2> QED BY <1>1, <2>1, ElementOfSeq
<1> HIDE DEF n
<1>5. /\ bp_table' \in Seq(0 .. A) /\ DOMAIN bp_table' = 1 .. n - 1
      /\ \A j \in 1 .. n - 1 : bp_table'[j] = IF j = k THEN bp_table[n] ELSE bp_table[j]
  <2>1. CASE k = n
    BY <1>2, <1>3, <2>1 DEF Removed, n
  <2>2. CASE k # n
    <3>1. bp_table' = [Shortened EXCEPT ![k] = bp_table[n]]
      BY <2>2 DEF Removed, n
    <3>2. bp_table' \in Seq(0 .. A)
      BY <3>1, <1>2, <1>3, <1>4, <2>2, ExceptSeq
    <3> QED BY <3>1, <3>2, <1>2, <1>3
  <2> QED BY <2>1, <2>2
<1>6. Distinct'
  <2> SUFFICES ASSUME NEW i \in 1 .. n - 1, NEW j \in 1 .. n - 1, bp_table'[i] = bp_table'[j]
               PROVE  i = j
    BY <1>5 DEF Distinct
  <2> QED BY <1>1, <1>2, <1>5 DEF Distinct
<1>7. Breakpoints' = Breakpoints \ {bp_table[k]}
  <2>1. \A j \in 1 .. n - 1 : bp_table'[j] \in Breakpoints \ {bp_table[k]}
    BY <1>1, <1>2, <1>5 DEF Distinct, Breakpoints
  <2>2. \A j \in 1 .. n : bp_table[j] # bp_table[k] => \E i \in 1 .. n - 1 : bp_table'[i] = bp_table[j]
    <3> SUFFICES ASSUME NEW j \in 1 .. n, bp_table[j] # bp_table[k]
                 PROVE  \E i \in 1 .. n - 1 : bp_table'[i] = bp_table[j]
      OBVIOUS
    <3>1. CASE j = n
      <4>1. k \in 1 .. n - 1 /\ bp_table'[k] = bp_table[j]
        BY <1>2, <1>5, <3>1
      <4> QED BY <4>1
    <3>2. CASE j # n
      <4>1. j \in 1 .. n - 1 /\ bp_table'[j] = bp_table[j]
        BY <1>2, <1>5, <3>2
      <4> QED BY <4>1
    <3> QED BY <3>1, <3>2
  <2>3. Breakpoints' \subseteq Breakpoints \ {bp_table[k]}
    BY <1>5, <2>1 DEF Breakpoints
  <2>4. Breakpoints \ {bp_table[k]} \subseteq Breakpoints'
    BY <1>2, <1>5, <2>2 DEF Breakpoints
  <2> QED BY <2>3, <2>4
<1> QED BY <1>5, <1>6, <1>7

-----------------------------------------------------------------------------
(* What a handler does to the link *)

Refused(c) == c.long /\ Sent(<<"-">>) /\ UNCHANGED <<stub, bp_table>>
Answered(c, r) == /\ ~c.long /\ Answer(r) /\ UNCHANGED stub
                  /\ bp_table' \in Seq(0 .. A) /\ Distinct'
                  /\ Breakpoints' = Applied(c, r, Breakpoints)
Started(c) == /\ ~c.long /\ Sent(<<"+">>) /\ stub' = "continue" /\ UNCHANGED bp_table
Closed == Sent(<<"+", "+">>) /\ stub' = "closed" /\ UNCHANGED bp_table

LEMMA UnchangedTable ==
  ASSUME LinkOK, UNCHANGED bp_table
  PROVE  bp_table' \in Seq(0 .. A) /\ Distinct' /\ Breakpoints' = Breakpoints
BY DEF LinkOK, Distinct, Breakpoints

LEMMA HandleOutcome ==
  ASSUME ChannelOK, LinkOK, NEW c, Handle(c)
  PROVE  /\ Receive(c) /\ stub = "recv" /\ c \in Command
         /\ Refused(c) \/ (\E r \in Replies : Answered(c, r)) \/ Started(c) \/ Closed
<1>1. Receive(c) /\ stub = "recv" /\ c \in Command /\ c.addr \in 0 .. A
  <2>1. Receive(c)
    BY HandleFact
  <2> QED BY <2>1, ReceiveFact, CommandFact DEF Receive
<1>0. SUFFICES Refused(c) \/ (\E r \in Replies : Answered(c, r)) \/ Started(c) \/ Closed
  BY <1>1
<1>2. ASSUME NEW r \in Replies, NEW op, Accept(c, op), op \notin {"Z", "z"}, Answer(r),
             UNCHANGED <<stub, bp_table>>
      PROVE  Answered(c, r)
  BY <1>2, UnchangedTable DEF Answered, Accept, Applied
<1>3. CASE Refuse(c)
  BY <1>3 DEF Refuse, Refused, Idle
<1>4. CASE Ask(c)
  BY <1>2, <1>4 DEF Ask, Idle, Replies
<1>5. CASE WriteRegs(c) \/ WriteSomeRegs(c)
  BY <1>2, <1>5 DEF WriteRegs, WriteSomeRegs, Replies
<1>6. CASE WriteMem(c)
  BY <1>2, <1>6 DEF WriteMem, Replies
<1>7. CASE Step(c)
  BY <1>2, <1>7 DEF Step, Replies
<1>8. CASE bp_add(c)
  <2>1. c.op = "Z" /\ ~c.long /\ UNCHANGED stub
    BY <1>8 DEF bp_add, Accept
  <2>2. CASE c.addr \in Breakpoints /\ Answer("OK") /\ UNCHANGED bp_table
    BY <2>1, <2>2, UnchangedTable DEF Answered, Applied, Replies
  <2>3. CASE Answer("E01") /\ UNCHANGED bp_table
    BY <2>1, <2>3, UnchangedTable DEF Answered, Applied, Replies
  <2>4. CASE /\ c.addr \notin Breakpoints /\ Answer("OK")
             /\ bp_table' = Append(bp_table, c.addr)
    BY <1>1, <2>1, <2>4, AddedFact DEF Answered, Applied, Replies
  <2> QED BY <1>8, <2>2, <2>3, <2>4 DEF bp_add
<1>9. CASE bp_remove(c)
  <2>1. c.op = "z" /\ ~c.long /\ UNCHANGED stub
    BY <1>9 DEF bp_remove, Accept
  <2>2. CASE Answer("E01") /\ UNCHANGED bp_table
    BY <2>1, <2>2, UnchangedTable DEF Answered, Applied, Replies
  <2>3. CASE \E k \in DOMAIN bp_table :
               bp_table[k] = c.addr /\ Answer("OK") /\ bp_table' = Removed(k)
    BY <2>1, <2>3, RemovedFact DEF Answered, Applied, Replies
  <2> QED BY <1>9, <2>2, <2>3 DEF bp_remove
<1>10. CASE Continue(c)
  <2>1. CASE halted
    BY <1>2, <1>10, <2>1 DEF Continue, Replies
  <2>2. CASE ~halted
    BY <1>10, <2>2 DEF Continue, Started, Accept
  <2> QED BY <2>1, <2>2
<1>11. CASE KillAnswer(c)
  BY <1>11 DEF KillAnswer, Closed
<1> QED BY <1>1, <1>3, <1>4, <1>5, <1>6, <1>7, <1>8, <1>9, <1>10, <1>11 DEF Handle

\* What is sent arrives behind what is on its way.
LEMMA SentFact ==
  ASSUME LinkOK, client # "gone"
  PROVE  /\ \A x \in Acks : Sent(<<x>>) =>
              /\ up' \in Seq(Acks \cup Replies) /\ Count(up', Replies) = Count(up, Replies)
              /\ up' = Append(up, x)
         /\ \A r \in Replies : Sent(<<r>>) =>
              /\ up' \in Seq(Acks \cup Replies)
              /\ Count(up', Replies) = Count(up, Replies) + 1
              /\ up' = Append(up, r)
         /\ \A r \in Replies : Answer(r) =>
              /\ up' \in Seq(Acks \cup Replies)
              /\ Count(up', Replies) = Count(up, Replies) + 1
              /\ up' = Append(Append(up, "+"), r)
<1>1. up \in Seq(Acks \cup Replies) /\ Count(up, Replies) \in Nat
  BY CountType DEF LinkOK
<1>2. \A x \in Acks : x \notin Replies
  BY AcksApart
<1>3. ASSUME NEW x \in Acks
      PROVE  /\ Append(up, x) \in Seq(Acks \cup Replies)
             /\ Count(Append(up, x), Replies) = Count(up, Replies)
             /\ Sent(<<x>>) => up' = Append(up, x)
  <2>1. Count(Append(up, x), Replies) = Count(up, Replies) + (IF x \in Replies THEN 1 ELSE 0)
    BY <1>1, <1>3, CountAppend
  <2>2. Sent(<<x>>) => up' = Append(up, x)
    BY <1>1, <1>3, AppendIsConcat DEF Sent
  <2> QED BY <1>1, <1>2, <2>1, <2>2
<1>4. ASSUME NEW r \in Replies
      PROVE  Sent(<<r>>) => /\ up' \in Seq(Acks \cup Replies)
                            /\ Count(up', Replies) = Count(up, Replies) + 1
                            /\ up' = Append(up, r)
  <2>1. Count(Append(up, r), Replies) = Count(up, Replies) + (IF r \in Replies THEN 1 ELSE 0)
    BY <1>1, CountAppend
  <2>2. Sent(<<r>>) => up' = Append(up, r)
    BY <1>1, AppendIsConcat DEF Sent
  <2>3. Append(up, r) \in Seq(Acks \cup Replies) /\ Count(Append(up, r), Replies) = Count(up, Replies) + 1
    BY <1>1, <2>1
  <2> QED BY <2>2, <2>3
<1>5. ASSUME NEW r \in Replies
      PROVE  Answer(r) => /\ up' \in Seq(Acks \cup Replies)
                          /\ Count(up', Replies) = Count(up, Replies) + 1
                          /\ up' = Append(Append(up, "+"), r)
  <2> DEFINE t == Append(up, "+")
  <2>1. "+" \in Acks
    BY DEF Acks
  <2>2. t \in Seq(Acks \cup Replies) /\ Count(t, Replies) = Count(up, Replies)
    BY <1>3, <2>1
  <2>3. Count(Append(t, r), Replies) = Count(t, Replies) + (IF r \in Replies THEN 1 ELSE 0)
    <3> HIDE DEF t
    <3> QED BY <2>2, CountAppend
  <2>4. Answer(r) => up' = Append(t, r)
    <3>1. up \o <<"+", r>> = Append(t, r)
      BY <1>1, <2>1
    <3> QED BY <3>1 DEF Answer, Sent
  <2> HIDE DEF t
  <2>5. Append(t, r) \in Seq(Acks \cup Replies) /\ Count(Append(t, r), Replies) = Count(up, Replies) + 1
    BY <1>1, <2>2, <2>3
  <2> QED BY <2>4, <2>5 DEF t
<1> QED BY <1>3, <1>4, <1>5

\* Taking a packet from the channel.
LEMMA DownFact ==
  ASSUME ChannelOK, NEW c, Receive(c)
  PROVE  /\ Count(down, Fitting) \in Nat
         /\ Count(down', Fitting) = Count(down, Fitting) - (IF c.long THEN 0 ELSE 1)
         /\ UNCHANGED <<client, cmd, believed, surplus, confused>>
<1>1. down \in Seq(Command) /\ down # << >> /\ c = Head(down) /\ down' = Tail(down)
      /\ c \in Command
  BY ReceiveFact DEF Receive, ChannelOK
<1>2. Count(down, Fitting) \in Nat
  BY <1>1, CountType
<1>3. Count(down', Fitting) = Count(down, Fitting) - (IF c \in Fitting THEN 1 ELSE 0)
  BY <1>1, CountTail
<1>4. c \in Fitting <=> ~c.long
  BY <1>1, FittingFact
<1> QED BY <1>2, <1>3, <1>4 DEF Receive, clientVars

LEMMA HandleCounts ==
  ASSUME ChannelOK, LinkOK, AnswersCounted, NEW c, Handle(c)
  PROVE  LinkOK' /\ AnswersCounted'
<1>1. /\ Receive(c) /\ stub = "recv" /\ c \in Command
      /\ Refused(c) \/ (\E r \in Replies : Answered(c, r)) \/ Started(c) \/ Closed
  BY HandleOutcome
<1>2. /\ Count(down, Fitting) \in Nat
      /\ Count(down', Fitting) = Count(down, Fitting) - (IF c.long THEN 0 ELSE 1)
      /\ UNCHANGED <<client, cmd, believed, surplus, confused>>
  BY <1>1, DownFact
<1>3. Count(up, Replies) \in Nat /\ surplus \in Int
  BY CountType DEF LinkOK
<1>4. CASE Closed
  <2>1. up' \in Seq(Acks \cup Replies)
    <3>1. up \in Seq(Acks \cup Replies) /\ <<"+", "+">> \in Seq(Acks \cup Replies)
      BY DEF LinkOK, Acks
    <3>2. up \o <<"+", "+">> \in Seq(Acks \cup Replies)
      BY <3>1, ConcatProperties
    <3> QED BY <1>4, <3>1, <3>2 DEF Closed, Sent
  <2>2. bp_table' \in Seq(0 .. A) /\ Distinct'
    BY <1>4, UnchangedTable DEF Closed
  <2>3. stub' = "closed"
    BY <1>4 DEF Closed
  <2> QED BY <1>2, <2>1, <2>2, <2>3, CountedNextFact DEF LinkOK, CountedNext
<1>5. CASE client = "gone" /\ ~Closed
  <2>1. up' = up /\ stub' \in {"recv", "continue"}
    BY <1>1, <1>5 DEF Refused, Answered, Started, Answer, Sent
  <2>2. bp_table' \in Seq(0 .. A) /\ Distinct'
    BY <1>1, <1>5, UnchangedTable DEF Refused, Answered, Started
  <2> QED BY <1>2, <1>5, <2>1, <2>2, CountedNextFact DEF LinkOK, CountedNext
<1>6. CASE client # "gone" /\ Refused(c)
  <2>1. up' \in Seq(Acks \cup Replies) /\ Count(up', Replies) = Count(up, Replies)
    BY <1>6, SentFact DEF Refused, Acks
  <2>2. stub' = stub /\ c.long /\ bp_table' \in Seq(0 .. A) /\ Distinct'
    BY <1>6, UnchangedTable DEF Refused
  <2>3. Count(down', Fitting) = Count(down, Fitting) /\ Count(up', Replies) = Count(up, Replies)
    BY <1>2, <2>1, <2>2
  <2>4. CountedNext
    BY <1>1, <1>2, <1>3, <2>2, <2>3 DEF AnswersCounted, CountedNext
  <2> QED BY <1>2, <2>1, <2>2, <2>4, CountedNextFact DEF LinkOK
<1>7. CASE client # "gone" /\ \E r \in Replies : Answered(c, r)
  <2>1. PICK r \in Replies : Answered(c, r)
    BY <1>7
  <2>2. up' \in Seq(Acks \cup Replies) /\ Count(up', Replies) = Count(up, Replies) + 1
    BY <1>7, <2>1, SentFact DEF Answered
  <2>3. stub' = stub /\ ~c.long /\ bp_table' \in Seq(0 .. A) /\ Distinct'
    BY <2>1 DEF Answered
  <2>4. /\ Count(down', Fitting) = Count(down, Fitting) - 1
        /\ Count(up', Replies) = Count(up, Replies) + 1
    BY <1>2, <2>2, <2>3
  <2>5. CountedNext
    BY <1>1, <1>2, <1>3, <2>3, <2>4 DEF AnswersCounted, CountedNext
  <2> QED BY <1>2, <2>2, <2>3, <2>5, CountedNextFact DEF LinkOK
<1>8. CASE client # "gone" /\ Started(c)
  <2>1. up' \in Seq(Acks \cup Replies) /\ Count(up', Replies) = Count(up, Replies)
    BY <1>8, SentFact DEF Started, Acks
  <2>2. stub' = "continue" /\ ~c.long /\ bp_table' \in Seq(0 .. A) /\ Distinct'
    BY <1>8, UnchangedTable DEF Started
  <2>3. /\ Count(down', Fitting) = Count(down, Fitting) - 1
        /\ Count(up', Replies) = Count(up, Replies)
    BY <1>2, <2>1, <2>2
  <2>4. CountedNext
    BY <1>1, <1>2, <1>3, <2>2, <2>3 DEF AnswersCounted, CountedNext
  <2> QED BY <1>2, <2>1, <2>2, <2>4, CountedNextFact DEF LinkOK
<1> QED BY <1>1, <1>4, <1>5, <1>6, <1>7, <1>8

\* One turn of the continue loop.
LEMMA ContinueFact ==
  ASSUME LinkOK, ContinueStep
  PROVE  /\ stub = "continue" /\ UNCHANGED <<clientVars, down, bp_table>>
         /\ \/ stub' = "recv" /\ Sent(<<"S05">>)
            \/ UNCHANGED <<stub, up>>
         /\ pc' \in Breakpoints => stub' = "recv"
BY DEF ContinueStep

LEMMA ContinueCounts ==
  ASSUME ChannelOK, LinkOK, AnswersCounted, ContinueStep
  PROVE  LinkOK' /\ AnswersCounted'
<1>1. /\ stub = "continue" /\ UNCHANGED <<client, cmd, surplus, confused, down, bp_table>>
      /\ \/ stub' = "recv" /\ Sent(<<"S05">>)
         \/ UNCHANGED <<stub, up>>
  BY ContinueFact DEF clientVars
<1>2. bp_table' \in Seq(0 .. A) /\ Distinct'
  BY <1>1, UnchangedTable
<1>3. /\ Count(up, Replies) \in Nat /\ surplus \in Int /\ Count(down, Fitting) \in Nat
      /\ Count(down', Fitting) = Count(down, Fitting)
  BY <1>1, CountType DEF LinkOK, ChannelOK
<1>4. CASE UNCHANGED <<stub, up>>
  <2>1. Count(up', Replies) = Count(up, Replies)
    BY <1>4
  <2>2. CountedNext
    BY <1>1, <1>3, <1>4, <2>1 DEF AnswersCounted, CountedNext
  <2> QED BY <1>1, <1>2, <1>4, <2>2, CountedNextFact DEF LinkOK
<1>5. CASE client = "gone" /\ stub' = "recv" /\ Sent(<<"S05">>)
  BY <1>1, <1>2, <1>5, CountedNextFact DEF LinkOK, Sent, CountedNext
<1>6. CASE client # "gone" /\ stub' = "recv" /\ Sent(<<"S05">>)
  <2>1. up' \in Seq(Acks \cup Replies) /\ Count(up', Replies) = Count(up, Replies) + 1
    BY <1>6, SentFact DEF Replies
  <2>2. Count(up', Replies) = Count(up, Replies) + 1
    BY <2>1
  <2>3. CountedNext
    BY <1>1, <1>3, <1>6, <2>2 DEF AnswersCounted, CountedNext
  <2> QED BY <1>1, <1>2, <1>6, <2>1, <2>3, CountedNextFact DEF LinkOK
<1> QED BY <1>1, <1>4, <1>5, <1>6

LinkInv == IInv /\ LinkOK /\ AnswersCounted

LEMMA StepCounts ==
  ASSUME LinkInv, [StubNext]_allVars
  PROVE  LinkOK' /\ AnswersCounted'
<1>0. ChannelOK /\ LinkOK /\ AnswersCounted
  BY DEF LinkInv, IInv
<1>1. CASE Client
  BY <1>0, <1>1, ClientCounts
<1>2. CASE \E c \in {down[k] : k \in DOMAIN down} : Handle(c)
  BY <1>0, <1>2, HandleCounts
<1>3. CASE ContinueStep
  BY <1>0, <1>3, ContinueCounts
<1>4. CASE EndOfStream
  <2>1. stub' = "closed" /\ UNCHANGED <<clientVars, up, bp_table>>
    BY <1>4 DEF EndOfStream
  <2> QED BY <1>0, <2>1, UnchangedTable, CountedNextFact DEF LinkOK, CountedNext, clientVars
<1>5. CASE UNCHANGED allVars
  BY <1>0, <1>5, UnchangedTable, CountedNextFact
     DEF allVars, stubVars, clientVars, LinkOK, AnswersCounted, CountedNext
<1> QED BY <1>1, <1>2, <1>3, <1>4, <1>5 DEF StubNext

LEMMA CountEmpty == \A X : Count(<< >>, X) = 0
<1> TAKE X
<1>1. \A k \in DOMAIN << >> : FALSE
  <2>1. Len(<< >>) = 0 /\ DOMAIN << >> = 1 .. Len(<< >>)
    BY EmptySeq, LenProperties
  <2> QED BY <2>1
<1>2. {k \in DOMAIN << >> : << >>[k] \in X} = {}
  BY <1>1, Zenon
<1>3. Cardinality({}) = 0
  BY FS_EmptySet
<1> QED BY <1>2, <1>3, Zenon DEF Count

LEMMA InitCounts == StubInit => LinkOK /\ AnswersCounted
<1> SUFFICES ASSUME StubInit PROVE LinkOK /\ AnswersCounted
  OBVIOUS
<1>0. << >> \in Seq(Acks \cup Replies) /\ << >> \in Seq(0 .. A) /\ Len(<< >>) = 0
  BY EmptySeq
<1>1. LinkOK
  <2>1. up = << >> /\ bp_table = << >> /\ stub = "recv" /\ client = "idle" /\ surplus = 0
        /\ cmd = Nothing /\ confused = FALSE
    BY DEF StubInit
  <2>2. Distinct
    <3>1. DOMAIN bp_table = 1 .. 0
      BY <1>0, <2>1, LenProperties
    <3> QED BY <3>1 DEF Distinct
  <2>4. up \in Seq(Acks \cup Replies) /\ bp_table \in Seq(0 .. A)
    BY <1>0, <2>1
  <2>5. confused \in BOOLEAN
    BY <2>1, Zenon
  <2>6. surplus \in Int /\ client \in {"idle", "ack", "answer", "gone"}
        /\ stub \in {"recv", "continue", "closed"}
    <3> HIDE DEF Nothing
    <3>1. surplus = 0 /\ client = "idle" /\ stub = "recv"
      BY <2>1
    <3> QED BY <3>1
  <2> QED BY <2>2, <2>4, <2>5, <2>6, Zenon DEF LinkOK
<1>2. Count(up, Replies) = 0 /\ Count(down, Fitting) = 0
  BY CountEmpty DEF StubInit
<1>3. AnswersCounted
  BY <1>2 DEF StubInit, AnswersCounted
<1> QED BY <1>1, <1>3

LEMMA LinkInvariant == StubSpec => []LinkInv
<1>1. StubInit => LinkOK /\ AnswersCounted
  BY InitCounts
<1>2. IInv /\ LinkOK /\ AnswersCounted /\ [StubNext]_allVars => LinkOK' /\ AnswersCounted'
  BY StepCounts DEF LinkInv
<1>3. StubSpec => [](LinkOK /\ AnswersCounted)
  BY <1>1, <1>2, StubTypeCorrect, PTL DEF StubSpec
<1> QED BY <1>3, StubTypeCorrect, PTL DEF LinkInv

\* However often the client repeats a packet, gives one up or is refused one, the link
\* neither loses nor doubles an answer: what is on its way is what somebody waits for
\* and one stale answer for each repetition.
THEOREM StubAnswersCounted == StubSpec => []AnswersCounted
<1>1. LinkInv => AnswersCounted
  BY DEF LinkInv
<1> QED BY <1>1, LinkInvariant, PTL

-----------------------------------------------------------------------------
(* The table and what the client believes *)

NoneDown == \A k \in DOMAIN down : down[k] \notin Fitting
NoneUp == \A k \in DOMAIN up : up[k] \notin Replies
Owed == client \in {"ack", "answer"} /\ ~cmd.long

LEMMA TailElements ==
  ASSUME NEW S, NEW s \in Seq(S), s # << >>
  PROVE  /\ 1 \in DOMAIN s /\ Head(s) = s[1] /\ Tail(s) \in Seq(S)
         /\ \A k \in DOMAIN Tail(s) : k + 1 \in DOMAIN s /\ Tail(s)[k] = s[k + 1]
         /\ \A k \in DOMAIN s : k = 1 \/ (k - 1 \in DOMAIN Tail(s) /\ Tail(s)[k - 1] = s[k])
OBVIOUS

LEMMA AppendElements ==
  ASSUME NEW S, NEW s \in Seq(S), NEW x
  PROVE  LET t == Append(s, x) IN
         /\ \A k \in DOMAIN t : (k \in DOMAIN s /\ t[k] = s[k]) \/ t[k] = x
         /\ \A k \in DOMAIN s : k \in DOMAIN t /\ t[k] = s[k]
         /\ \E k \in DOMAIN t : t[k] = x
<1> DEFINE t == Append(s, x)
<1>1. /\ DOMAIN s = 1 .. Len(s) /\ Len(s) \in Nat /\ DOMAIN t = 1 .. Len(s) + 1
      /\ t[Len(s) + 1] = x /\ \A k \in 1 .. Len(s) : t[k] = s[k]
  OBVIOUS
<1>2. Len(s) + 1 \in DOMAIN t
  BY <1>1
<1> HIDE DEF t
<1>3. \A k \in DOMAIN t : k \in DOMAIN s \/ k = Len(s) + 1
  BY <1>1
<1>4. \A k \in DOMAIN s : k \in DOMAIN t
  BY <1>1
<1>5. /\ \A k \in DOMAIN t : (k \in DOMAIN s /\ t[k] = s[k]) \/ t[k] = x
      /\ \A k \in DOMAIN s : k \in DOMAIN t /\ t[k] = s[k]
      /\ \E k \in DOMAIN t : t[k] = x
  BY <1>1, <1>2, <1>3, <1>4
<1> QED BY <1>5 DEF t

\* As long as nothing was repeated there is one answer to come at most.
LEMMA OneAnswer ==
  ASSUME LinkInv, InStep, ~confused, stub # "closed"
  PROVE  /\ ~Owed => NoneDown /\ NoneUp /\ stub # "continue"
         /\ ~NoneDown \/ stub = "continue" => NoneUp
         /\ up # << >> /\ Head(up) \in Replies =>
              NoneDown /\ Owed /\ \A k \in DOMAIN Tail(up) : Tail(up)[k] \notin Replies
<1>1. /\ down \in Seq(Command) /\ up \in Seq(Acks \cup Replies) /\ surplus = 0
      /\ client # "gone" /\ AnswersCounted
  BY DEF LinkInv, IInv, ChannelOK, LinkOK, InStep
<1>2. /\ Count(down, Fitting) \in Nat /\ Count(up, Replies) \in Nat
      /\ Count(down, Fitting) = 0 <=> NoneDown
      /\ Count(up, Replies) = 0 <=> NoneUp
  BY <1>1, CountType, CountNone DEF NoneDown, NoneUp
<1>3. Count(down, Fitting) + Count(up, Replies) =< 1
  <2>1. CASE stub = "continue"
    BY <1>1, <1>2, <2>1 DEF AnswersCounted
  <2>2. CASE stub # "continue"
    BY <1>1, <1>2, <2>2 DEF AnswersCounted
  <2> QED BY <2>1, <2>2
<1>4. stub = "continue" => Count(down, Fitting) = 0 /\ Count(up, Replies) = 0 /\ Owed
  BY <1>1, <1>2 DEF AnswersCounted, Owed
<1>5. ~Owed /\ stub # "continue" => Count(down, Fitting) = 0 /\ Count(up, Replies) = 0
  BY <1>1, <1>2 DEF AnswersCounted, Owed
<1>6. ASSUME up # << >>, Head(up) \in Replies
      PROVE  NoneDown /\ Owed /\ \A k \in DOMAIN Tail(up) : Tail(up)[k] \notin Replies
  <2>1. ~NoneUp
    BY <1>1, <1>6, TailElements DEF NoneUp
  <2>2. Count(down, Fitting) = 0 /\ Count(up, Replies) = 1
    BY <1>2, <1>3, <2>1
  <2>3. Count(Tail(up), Replies) = Count(up, Replies) - 1
    BY <1>1, <1>6, CountTail
  <2>4. Count(Tail(up), Replies) = 0
    BY <2>2, <2>3
  <2>5. \A k \in DOMAIN Tail(up) : Tail(up)[k] \notin Replies
    <3>1. Tail(up) \in Seq(Acks \cup Replies)
      BY <1>1, <1>6, TailElements
    <3> QED BY <2>4, <3>1, CountNone
  <2>6. Owed
    BY <1>4, <1>5, <2>2
  <2> QED BY <1>2, <2>2, <2>5, <2>6
<1>7. ~NoneDown => NoneUp
  BY <1>2, <1>3
<1>8. stub = "continue" => NoneUp
  BY <1>2, <1>4
<1>9. ~Owed => NoneDown /\ NoneUp /\ stub # "continue"
  BY <1>2, <1>4, <1>5
<1> QED BY <1>6, <1>7, <1>8, <1>9

\* The same of the next state, spelled out.
LEMMA InStepFact ==
  /\ InStep /\ ~confused /\ stub # "closed" =>
       /\ surplus = 0 /\ client # "gone"
       /\ \A k \in DOMAIN down : down[k] \in Fitting => down[k] = cmd
       /\ NoneUp => Breakpoints = believed
       /\ \A k \in DOMAIN up : up[k] \in Replies => Breakpoints = Applied(cmd, up[k], believed)
  /\ (~confused' /\ stub' # "closed" =>
       /\ surplus' = 0 /\ client' # "gone"
       /\ \A k \in DOMAIN down' : down'[k] \in Fitting => down'[k] = cmd'
       /\ (\A k \in DOMAIN up' : up'[k] \notin Replies) => Breakpoints' = believed'
       /\ \A k \in DOMAIN up' :
            up'[k] \in Replies => Breakpoints' = Applied(cmd', up'[k], believed'))
     => InStep'
BY DEF InStep, NoneUp, Fitting, Replies, Command, Applied, Nothing

LEMMA ClientInStep ==
  ASSUME LinkInv, InStep, Client
  PROVE  InStep'
<1>0. /\ stub' = stub /\ Breakpoints' = Breakpoints
      /\ down \in Seq(Command) /\ up \in Seq(Acks \cup Replies) /\ cmd \in Command
      /\ ChannelOK /\ LinkOK
  BY DEF LinkInv, IInv, Client, ChannelOK, LinkOK, Breakpoints
<1> SUFFICES ASSUME ~confused', stub # "closed"
             PROVE  InStep'
  BY <1>0, InStepFact
<1> DEFINE S(x) == x => /\ surplus = 0 /\ client # "gone"
                        /\ \A k \in DOMAIN down : down[k] \in Fitting => down[k] = cmd
                        /\ NoneUp => Breakpoints = believed
                        /\ \A k \in DOMAIN up :
                             up[k] \in Replies => Breakpoints = Applied(cmd, up[k], believed)
<1>1. S(~confused)
  BY InStepFact
<1>2. ~confused => /\ ~Owed => NoneDown /\ NoneUp
                   /\ up # << >> /\ Head(up) \in Replies =>
                        NoneDown /\ Owed /\ \A k \in DOMAIN Tail(up) : Tail(up)[k] \notin Replies
  BY OneAnswer
<1>3. CASE \E c \in session.commands : Send(c) /\ UNCHANGED up
  <2>1. PICK c \in session.commands : Send(c) /\ UNCHANGED up
    BY <1>3
  <2>2. /\ client = "idle" /\ client' = "ack" /\ cmd' = c /\ down' = Append(down, c)
        /\ up' = up /\ believed' = believed /\ surplus' = surplus /\ confused' = confused
    BY <2>1 DEF Send
  <2>3. ~Owed /\ NoneDown /\ NoneUp
    BY <1>2, <2>2 DEF Owed
  <2>4. \A k \in DOMAIN down' : down'[k] \in Fitting => down'[k] = cmd'
    BY <1>0, <2>2, <2>3, AppendElements DEF NoneDown
  <2> QED BY <1>0, <1>1, <2>2, <2>3, <2>4, InStepFact DEF NoneUp
<1>4. ASSUME Resend, up' = up \/ (up # << >> /\ Head(up) \in Acks /\ up' = Tail(up))
      PROVE  InStep'
  <2>1. /\ down' = Append(down, cmd) /\ client' = client /\ cmd' = cmd /\ believed' = believed
        /\ cmd.long /\ surplus' = surplus /\ ~confused
    <3>1. cmd.long
      BY <1>0, <1>4, ResendFact, FittingFact
    <3> QED BY <1>0, <1>4, <3>1, ResendFact DEF Resend
  <2>2. ~Owed /\ NoneDown /\ NoneUp
    BY <1>2, <2>1 DEF Owed
  <2>3. \A k \in DOMAIN down' : down'[k] \in Fitting => down'[k] = cmd'
    BY <1>0, <2>1, <2>2, AppendElements DEF NoneDown
  <2>4. \A k \in DOMAIN up' : up'[k] \notin Replies
    BY <1>0, <1>4, <2>2, TailElements DEF NoneUp
  <2> QED BY <1>0, <1>1, <2>1, <2>2, <2>3, <2>4, InStepFact
<1>5. CASE Timeout
  BY <1>4, <1>5 DEF Timeout
<1>6. CASE TakeAck
  <2>1. up # << >> /\ Head(up) \in Acks /\ up' = Tail(up)
    BY <1>6 DEF TakeAck
  <2>2. /\ Head(up) \notin Replies /\ Head(up) = up[1]
        /\ \A k \in DOMAIN up' : k + 1 \in DOMAIN up /\ up'[k] = up[k + 1]
        /\ \A k \in DOMAIN up : k = 1 \/ (k - 1 \in DOMAIN up' /\ up'[k - 1] = up[k])
    BY <1>0, <2>1, TailElements, AcksApart
  <2>3. (\A k \in DOMAIN up' : up'[k] \notin Replies) => NoneUp
    BY <2>2 DEF NoneUp
  <2>4. CASE client' # "gone" /\ UNCHANGED <<cmd, believed, surplus, confused, down>>
    <3>1. \A k \in DOMAIN up' :
            up'[k] \in Replies => Breakpoints' = Applied(cmd', up'[k], believed')
      BY <1>0, <1>1, <2>2, <2>4
    <3>2. \A k \in DOMAIN down' : down'[k] \in Fitting => down'[k] = cmd'
      BY <1>1, <2>4
    <3> QED BY <1>0, <1>1, <2>3, <2>4, <3>1, <3>2, InStepFact
  <2>5. CASE Resend
    BY <1>4, <2>1, <2>5
  <2>6. CASE GiveUp
    <3>1. /\ cmd.long /\ ~confused /\ surplus' = surplus /\ client' = "idle"
          /\ down' = down /\ believed' = believed
      BY <1>0, <2>6, FittingFact DEF GiveUp, Ready
    <3>2. ~Owed /\ NoneDown /\ NoneUp
      BY <1>2, <3>1 DEF Owed
    <3>3. \A k \in DOMAIN up' : up'[k] \notin Replies
      BY <2>2, <3>2 DEF NoneUp
    <3>4. \A k \in DOMAIN down' : down'[k] \notin Fitting
      BY <3>1, <3>2 DEF NoneDown
    <3> QED BY <1>0, <1>1, <3>1, <3>2, <3>3, <3>4, InStepFact
  <2> QED BY <1>6, <2>4, <2>5, <2>6 DEF TakeAck, clientVars
<1>7. CASE TakeAnswer
  <2>1. /\ client = "answer" /\ client' = "idle" /\ up # << >> /\ Head(up) \notin Acks
        /\ up' = Tail(up) /\ surplus' = IF cmd.long THEN surplus - 1 ELSE surplus
        /\ down' = down /\ ~confused /\ believed' = Applied(cmd, Head(up), believed)
    BY <1>7 DEF TakeAnswer, Ready, Applied
  <2>2. Head(up) \in Replies /\ Head(up) = up[1] /\ 1 \in DOMAIN up
    BY <1>0, <2>1, TailElements
  <2>3. NoneDown /\ Owed /\ \A k \in DOMAIN up' : up'[k] \notin Replies
    BY <1>2, <2>1, <2>2
  <2>4. Breakpoints = Applied(cmd, Head(up), believed)
    BY <1>1, <2>1, <2>2
  <2>5. surplus' = 0
    BY <1>1, <2>1, <2>3 DEF Owed
  <2>6. \A k \in DOMAIN down' : down'[k] \notin Fitting
    BY <2>1, <2>3 DEF NoneDown
  <2> QED BY <1>0, <2>1, <2>3, <2>4, <2>5, <2>6, InStepFact
<1>8. CASE HangUp
  BY <1>8 DEF HangUp
<1> QED BY <1>3, <1>5, <1>6, <1>7, <1>8 DEF Client

LEMMA HandleInStep ==
  ASSUME LinkInv, InStep, NEW c, Handle(c)
  PROVE  InStep'
<1>0. /\ down \in Seq(Command) /\ up \in Seq(Acks \cup Replies) /\ ChannelOK /\ LinkOK
  BY DEF LinkInv, IInv, ChannelOK, LinkOK
<1>1. /\ Receive(c) /\ stub = "recv" /\ c \in Command
      /\ Refused(c) \/ (\E r \in Replies : Answered(c, r)) \/ Started(c) \/ Closed
  BY <1>0, HandleOutcome
<1>2. down # << >> /\ c = Head(down) /\ down' = Tail(down)
      /\ UNCHANGED <<client, cmd, believed, surplus, confused>>
  BY <1>1 DEF Receive, clientVars
<1> SUFFICES ASSUME ~confused, stub' # "closed"
             PROVE  InStep'
  BY <1>2, InStepFact
<1>3. /\ surplus = 0 /\ client # "gone"
      /\ \A k \in DOMAIN down : down[k] \in Fitting => down[k] = cmd
      /\ NoneUp => Breakpoints = believed
      /\ \A k \in DOMAIN up : up[k] \in Replies => Breakpoints = Applied(cmd, up[k], believed)
  BY <1>1, InStepFact
<1>4. c \in Fitting => c = cmd /\ NoneUp
  <2>1. ~NoneDown => NoneUp
    BY <1>1, OneAnswer
  <2>2. c = down[1] /\ 1 \in DOMAIN down
    BY <1>0, <1>2, TailElements
  <2> QED BY <1>3, <2>1, <2>2 DEF NoneDown
<1>5. \A k \in DOMAIN down' : down'[k] \in Fitting => down'[k] = cmd'
  BY <1>0, <1>2, <1>3, TailElements
<1>6. ASSUME NEW x \in Acks, up' = Append(up, x), UNCHANGED bp_table
      PROVE  InStep'
  <2>1. Breakpoints' = Breakpoints /\ x \notin Replies
    BY <1>0, <1>6, UnchangedTable, AcksApart
  <2>2. (\A k \in DOMAIN up' : up'[k] \notin Replies) => NoneUp
    BY <1>0, <1>6, AppendElements DEF NoneUp
  <2>3. \A k \in DOMAIN up' :
          up'[k] \in Replies => Breakpoints' = Applied(cmd', up'[k], believed')
    BY <1>0, <1>2, <1>3, <1>6, <2>1, AppendElements
  <2> QED BY <1>2, <1>3, <1>5, <2>1, <2>2, <2>3, InStepFact
<1>7. CASE Refused(c)
  <2>1. "-" \in Acks /\ up' = Append(up, "-") /\ UNCHANGED bp_table
    BY <1>0, <1>3, <1>7, SentFact DEF Refused, Acks
  <2> QED BY <1>6, <2>1
<1>8. CASE Started(c)
  <2>1. "+" \in Acks /\ up' = Append(up, "+") /\ UNCHANGED bp_table
    BY <1>0, <1>3, <1>8, SentFact DEF Started, Acks
  <2> QED BY <1>6, <2>1
<1>9. CASE \E r \in Replies : Answered(c, r)
  <2>1. PICK r \in Replies : Answered(c, r)
    BY <1>9
  <2>2. c = cmd /\ NoneUp
    BY <1>1, <1>4, <2>1, FittingFact DEF Answered
  <2>3. up' = Append(Append(up, "+"), r) /\ Append(up, "+") \in Seq(Acks \cup Replies)
    BY <1>0, <1>3, <2>1, SentFact DEF Answered, Acks
  <2>4. Breakpoints' = Applied(cmd', r, believed')
    BY <1>2, <1>3, <2>1, <2>2 DEF Answered
  <2>5. \A k \in DOMAIN Append(up, "+") : Append(up, "+")[k] \notin Replies
    BY <1>0, <2>2, AppendElements DEF NoneUp, Replies
  <2>6. /\ \A k \in DOMAIN up' : up'[k] \in Replies => up'[k] = r
        /\ \E k \in DOMAIN up' : up'[k] \in Replies
    BY <2>3, <2>5, AppendElements
  <2> QED BY <1>2, <1>3, <1>5, <2>4, <2>6, InStepFact
<1>10. CASE Closed
  BY <1>10 DEF Closed
<1> QED BY <1>1, <1>7, <1>8, <1>9, <1>10

LEMMA ContinueInStep ==
  ASSUME LinkInv, InStep, ContinueStep
  PROVE  InStep'
<1>0. up \in Seq(Acks \cup Replies) /\ LinkOK
  BY DEF LinkInv, LinkOK
<1>1. /\ stub = "continue" /\ stub' # "closed" /\ Breakpoints' = Breakpoints
      /\ UNCHANGED <<client, cmd, believed, surplus, confused, down>>
      /\ Sent(<<"S05">>) \/ up' = up
  <2>1. /\ stub = "continue" /\ UNCHANGED <<clientVars, down, bp_table>>
        /\ (stub' = "recv" /\ Sent(<<"S05">>)) \/ UNCHANGED <<stub, up>>
    BY <1>0, ContinueFact
  <2>2. Breakpoints' = Breakpoints
    BY <1>0, <2>1, UnchangedTable
  <2> QED BY <2>1, <2>2 DEF clientVars
<1> SUFFICES ASSUME ~confused
             PROVE  InStep'
  BY <1>1, InStepFact
<1>2. /\ surplus = 0 /\ client # "gone" /\ NoneUp /\ Breakpoints = believed
      /\ \A k \in DOMAIN down : down[k] \in Fitting => down[k] = cmd
  BY <1>1, InStepFact, OneAnswer
<1>3. \A k \in DOMAIN up' : up'[k] \in Replies => up'[k] = "S05"
  <2>1. CASE up' = up
    BY <1>2, <2>1 DEF NoneUp
  <2>2. CASE Sent(<<"S05">>)
    <3>1. up' = Append(up, "S05")
      BY <1>0, <1>2, <2>2, SentFact DEF Replies
    <3> QED BY <1>0, <1>2, <3>1, AppendElements DEF NoneUp
  <2> QED BY <1>1, <2>1, <2>2
<1>4. Applied(cmd', "S05", believed') = believed'
  BY DEF Applied
<1> QED BY <1>1, <1>2, <1>3, <1>4, InStepFact

LEMMA StepInStep ==
  ASSUME LinkInv, InStep, [StubNext]_allVars
  PROVE  InStep'
<1>1. CASE Client
  BY <1>1, ClientInStep
<1>2. CASE \E c \in {down[k] : k \in DOMAIN down} : Handle(c)
  BY <1>2, HandleInStep
<1>3. CASE ContinueStep
  BY <1>3, ContinueInStep
<1>4. CASE EndOfStream
  BY <1>4, InStepFact DEF EndOfStream
<1>5. CASE UNCHANGED allVars
  BY <1>5, InStepFact DEF allVars, stubVars, clientVars, NoneUp, Breakpoints
<1> QED BY <1>1, <1>2, <1>3, <1>4, <1>5 DEF StubNext

LEMMA StubInSteps == StubSpec => []InStep
<1>1. StubInit => InStep
  <2> SUFFICES ASSUME StubInit PROVE InStep
    OBVIOUS
  <2>1. /\ up = << >> /\ down = << >> /\ bp_table = << >> /\ believed = {} /\ surplus = 0
        /\ client = "idle"
    BY DEF StubInit
  <2>2. DOMAIN << >> = {}
    <3>1. Len(<< >>) = 0 /\ DOMAIN << >> = 1 .. Len(<< >>)
      BY EmptySeq, LenProperties
    <3> QED BY <3>1
  <2>3. Breakpoints = {}
    BY <2>1, <2>2 DEF Breakpoints
  <2> QED BY <2>1, <2>2, <2>3 DEF InStep
<1>2. LinkInv /\ InStep /\ [StubNext]_allVars => InStep'
  BY StepInStep
<1> QED BY <1>1, <1>2, LinkInvariant, PTL DEF StubSpec

\* A client that has repeated nothing, lost nothing and given up nothing it could
\* lose knows the stub's table: whatever it believes set when it says 'c' is
\* there, and the continue loop, which looks the table up after every cycle,
\* leaves no such address behind it unseen.
THEOREM StubBreakpointsHold == StubSpec => BreakpointsHold
<1>1. LinkInv /\ InStep /\ [StubNext]_allVars =>
        [(ContinueStep /\ ~confused /\ pc' \in believed) => stub' = "recv"]_allVars
  <2> SUFFICES ASSUME LinkInv, InStep, ContinueStep, ~confused, pc' \in believed
               PROVE  stub' = "recv"
    OBVIOUS
  <2>1. LinkOK /\ stub = "continue" /\ (pc' \in Breakpoints => stub' = "recv")
    BY ContinueFact DEF LinkInv
  <2>2. Breakpoints = believed
    BY <2>1, InStepFact, OneAnswer
  <2> QED BY <2>1, <2>2
<1> QED BY <1>1, LinkInvariant, StubInSteps, PTL DEF StubSpec, BreakpointsHold
=============================================================================
