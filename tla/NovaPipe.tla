------------------------------ MODULE NovaPipe -----------------------------
(***************************************************************************)
(* The simulator's two-stage pipeline on the base instructions: cpu_step() *)
(* with memory and registers, in Machine mode, without interrupts.         *)
(* GdbStub adds a debugger that works on the same state between two calls. *)
(*                                                                         *)
(* A stands for every address outside memory, in pc and where CALL pushes  *)
(* it; fetch() reads past the array there: any word.  A word from a port   *)
(* is any word.                                                            *)
(***************************************************************************)
EXTENDS NovaInsn

VARIABLES
  pc, regs, mem, halted,
  pipe,           \* pipe_insn, NoWord while pipe_valid is 0
  io

vars == <<pc, regs, mem, halted, pipe, io>>

Arch == INSTANCE NovaIsa WITH ZeroDivHalts <- TRUE

NoWord == W

-----------------------------------------------------------------------------
Init == /\ pc = 0 /\ regs = [n \in Reg |-> 0] /\ mem \in Program
        /\ halted = FALSE /\ pipe = NoWord /\ io = << >>

(* Stage 1 and 2: the word to execute, and the one read ahead *)
Fetched == IF pipe # NoWord THEN {pipe} ELSE IF pc < A THEN {mem[pc]} ELSE Word
NextPc  == IF pc < A THEN pc + 1 ELSE A
Prefetched == IF NextPc < A THEN mem[NextPc] ELSE NoWord

(* Stage 3 and 4: an instruction goes on, or flushes the pipeline *)
Advance == pc' = NextPc /\ pipe' = Prefetched
Flush   == pipe' = NoWord

\* pc + imm, and mem[R7] in 32 bits.
Target(i) == IF pc = A THEN 0 .. A
             ELSE LET t == (pc + 1 + i.imm) % W IN {IF t < A THEN t ELSE A}
Returned(x) == IF x < A THEN {x} ELSE 0 .. A

Eff(i) == Low(regs[i.a] + i.imm)
WriteReg(n, v) == regs' = IF n = 0 THEN regs ELSE [regs EXCEPT ![n] = v]

-----------------------------------------------------------------------------
(* execute() *)

Nop(i) == i.op = "NOP" /\ Advance /\ UNCHANGED <<regs, mem, halted, io>>

\* HALT, and trap() with MTVEC = 0.
Stop(i) == /\ i.op \in StopOp \/ (i.op = "DIV" /\ regs[i.b] = 0)
           /\ halted' = TRUE /\ pc' = NextPc /\ Flush
           /\ UNCHANGED <<regs, mem, io>>

Result(i) ==
  IF i.op = "LI" THEN i.imm ELSE IF i.op = "LOAD" THEN mem[Eff(i)]
  ELSE Alu[i.op, regs[i.a], Operand(i, regs[i.b])]

Compute(i) == /\ i.op \in AluOp \cup {"LI", "LOAD"}
              /\ ~(i.op = "DIV" /\ regs[i.b] = 0)
              /\ WriteReg(i.d, Result(i)) /\ Advance
              /\ UNCHANGED <<mem, halted, io>>

In(i) == /\ i.op = "IN"
         /\ \E v \in Word : WriteReg(i.d, v)
         /\ Advance
         /\ UNCHANGED <<mem, halted, io>>

Out(i) == /\ i.op = "OUT"
          /\ io' = <<i.imm, regs[i.d]>>
          /\ Advance
          /\ UNCHANGED <<regs, mem, halted>>

Store(i) == /\ i.op = "STORE"
            /\ mem' = [mem EXCEPT ![Eff(i)] = regs[i.d]]
            /\ Advance
            /\ UNCHANGED <<regs, halted, io>>

Jump(i) == /\ i.op \in JumpOp
           /\ IF Taken(i, regs[i.d]) THEN pc' \in Target(i) /\ Flush ELSE Advance
           /\ UNCHANGED <<regs, mem, halted, io>>

\* Variant: the return address is stored where the stack pointer was.
CallUnmoved(i) == /\ i.op = "CALL"
                  /\ regs' = [regs EXCEPT ![Sp] = PushedSp(regs)]
                  /\ mem' = [mem EXCEPT ![Low(regs[Sp])] = NextPc]
                  /\ pc' \in Target(i) /\ Flush
                  /\ UNCHANGED <<halted, io>>

Call(i) == /\ i.op = "CALL"
           /\ regs' = [regs EXCEPT ![Sp] = PushedSp(regs)]
           /\ mem' = [mem EXCEPT ![Low(PushedSp(regs))] = NextPc]
           /\ pc' \in Target(i) /\ Flush
           /\ UNCHANGED <<halted, io>>

Ret(i) == /\ i.op = "RET"
          /\ pc' \in Returned(mem[Low(regs[Sp])]) /\ Flush
          /\ regs' = [regs EXCEPT ![Sp] = PoppedSp(regs)]
          /\ UNCHANGED <<mem, halted, io>>

Execute(i) == \/ Nop(i) \/ Stop(i) \/ Compute(i) \/ In(i) \/ Out(i)
              \/ Store(i) \/ Jump(i) \/ Call(i) \/ Ret(i)

CpuStep == ~halted /\ \E w \in Fetched : Execute(Decode[w])

Spec == Init /\ [][CpuStep]_vars

-----------------------------------------------------------------------------
(* Properties *)

TypeOK == /\ pc \in 0 .. A /\ regs \in [Reg -> Word] /\ mem \in [Addr -> Word]
          /\ halted \in BOOLEAN /\ pipe \in Word \cup {NoWord}
          /\ (pipe # NoWord => pc < A)

Stale == pipe # NoWord /\ pipe # mem[pc]

\* A word read ahead differs from memory only because its own cell was just written, by
\* the instruction before it or by the debugger; the next cpu_step() ends it.
StaleByWrite == [][Stale' => \/ mem'[pc'] # mem[pc']
                             \/ Stale /\ UNCHANGED <<pc, pipe>> /\ ~CpuStep]_vars

\* Whenever the word read ahead is not stale, a cpu_step() is one instruction.
StepIsInstruction == [][CpuStep /\ pc < A /\ ~Stale => Arch!Next]_vars
=============================================================================
