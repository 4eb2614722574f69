------------------------------ MODULE NovaCpu ------------------------------
(***************************************************************************)
(* The control plane of the NOVA-64 simulator, src/sim.c: privilege levels, *)
(* traps, interrupts and their delegation, WFI, the control registers, the  *)
(* GPIO interrupt latch, the two-stage pipeline and the watchdog.  One step *)
(* of Next is one call of cpu_step() from the loop of cpu_run().            *)
(*                                                                          *)
(* Register and memory contents are abstracted: a word of memory is the set *)
(* of instructions it may hold (Code), an instruction carries the value its *)
(* operand register would have, and a branch is taken or not.  A program is *)
(* any choice from Code, so a run checks all programs over it at once.      *)
(*                                                                          *)
(* Bounds: cycles saturates at Horizon, which no MTIMECMP value exceeds, so *)
(* every comparison the code makes is exact; the instant of the -i event is *)
(* free; MaxPinChanges polls may see GPIO pins change.                      *)
(*                                                                          *)
(* Auxiliary variables: taken, inside, heard and watch record what happened *)
(* and no guard reads them; the properties speak about them.                *)
(*                                                                          *)
(* A definition introduced as a "Variant" is not used by the specification: *)
(* it is the next definition with a plausible bug, and put in its place it  *)
(* breaks one of the properties below.                                      *)
(***************************************************************************)
EXTENDS Integers

CONSTANTS
  MemSize,        \* MEM_SIZE; address MemSize stands for every pc beyond memory
  Insn,           \* the instruction words of this instance
  Code,           \* Code[a]: the words memory cell a may hold
  Horizon,        \* cycles is counted up to here
  Pins,           \* the GPIO pins
  MaxPinChanges,  \* how many polls may see pins change
  IrqOption,      \* the -i option
  Resilient,      \* the -r option
  WdtLimit        \* the -w option

PRIV_MACHINE    == 0
PRIV_SUPERVISOR == 1
PRIV_USER       == 2

CAUSE_ILL_INSN  == 1
CAUSE_ECALL_U   == 5
CAUSE_ECALL_S   == 6
CAUSE_CSR_PRIV  == 7
CAUSE_IO_PRIV   == 8
CAUSE_ERET_PRIV == 9
CAUSE_DIV_ZERO  == 10
CAUSE_INT_FLAG  == 16                     \* stands for bit 63
CAUSE_INT_TIMER == CAUSE_INT_FLAG + 1
CAUSE_INT_EXT   == CAUSE_INT_FLAG + 2
Cause == {0, CAUSE_ILL_INSN, CAUSE_DIV_ZERO, CAUSE_INT_TIMER, CAUSE_INT_EXT}
         \cup (CAUSE_ECALL_U .. CAUSE_ERET_PRIV)

Addr       == 0 .. MemSize
Wide       == MemSize + 1                 \* a register value of more than 32 bits
CsrAddr    == Addr \cup {Wide}
NoPrefetch == -1                          \* pipe_valid = 0
NoSig      == -1                          \* wdt_last_sig before any step
Level      == 0 .. 3                      \* what the two MPP bits can hold
\* Bits 0 and 1 of MIP, MIE, MIDELEG and SIE, and all others, which only CSRW sets.
IrqLine    == {"TIMER", "EXT", "OTHER"}
Mstatus    == [MIE : BOOLEAN, MPIE : BOOLEAN, MPP : Level,
               SIE : BOOLEAN, SPIE : BOOLEAN, SPP : BOOLEAN]

\* The control registers with a role in traps and interrupts.
CsrFile == [PRIV : Level, MEPC : CsrAddr, MCAUSE : Cause, MTVEC : CsrAddr,
            MSTATUS : Mstatus, SEPC : CsrAddr, STVEC : CsrAddr,
            MIE : SUBSET IrqLine, MIP : SUBSET IrqLine, MTIMECMP : 0 .. Horizon,
            MIDELEG : SUBSET IrqLine, MEDELEG : SUBSET (0 .. 15),
            SIE : SUBSET IrqLine, SCAUSE : Cause]
ReadOnlyCsr   == {"PRIV", "MCAUSE", "SCAUSE"}
SupervisorCsr == {"SEPC", "STVEC", "SIE"}
MachineCsr    == {"PRIV", "MEPC", "MCAUSE", "MTVEC", "MSTATUS", "MIE", "MIP",
                  "MTIMECMP", "MIDELEG", "MEDELEG"}
CsrName       == ReadOnlyCsr \cup SupervisorCsr \cup MachineCsr

GpioPort == {"GPIO_DIR", "GPIO_INT_EN", "GPIO_INT_ST", "OTHER"}

\* NOP: an instruction that changes no register (STORE, ESTORE, FENCE);
\* ALU: one that writes a register and nothing else; BR: JZ or JNZ;
\* PRIVOP: RAND, AESE or HASH; ILL: an opcode execute() does not know.
PlainOp  == {"NOP", "ALU", "DIV", "HALT", "RET", "ECALL", "ERET", "PRIVOP",
             "WFI", "ILL"}
InsnType ==
  [op : PlainOp] \cup [op : {"JMP", "BR", "CALL"}, imm : Int]
  \cup [op : {"IN"}, port : GpioPort]
  \cup [op : {"OUT"}, port : GpioPort, pins : SUBSET Pins]
  \cup [op : {"CSRR"}, csr : CsrName]
  \cup [op : {"CSRW"}, csr : {"MEPC", "MTVEC", "SEPC", "STVEC"}, val : CsrAddr]
  \cup [op : {"CSRW"}, csr : {"MIE", "MIP", "MIDELEG", "SIE"}, val : SUBSET IrqLine]
  \cup [op : {"CSRW"}, csr : {"MSTATUS"}, val : Mstatus]
  \cup [op : {"CSRW"}, csr : {"MTIMECMP"}, val : 0 .. Horizon]
  \cup [op : {"CSRW"}, csr : {"MEDELEG"}, val : SUBSET (0 .. 15)]
  \cup [op : {"CSRW"}, csr : ReadOnlyCsr, val : Int]

ASSUME MemAssumption   == MemSize \in Nat \ {0}
ASSUME BoundAssumption == Horizon \in Nat /\ MaxPinChanges \in Nat
ASSUME OptionAssumption ==
  IrqOption \in BOOLEAN /\ Resilient \in BOOLEAN /\ WdtLimit \in Nat
ASSUME InsnAssumption  == Insn \subseteq InsnType
ASSUME CodeAssumption  == Code \in [0 .. MemSize - 1 -> SUBSET Insn]

VARIABLES
  pc,         \* pc
  pipe,       \* the address whose word pipe_insn holds, or NoPrefetch
  halted,     \* halted
  waiting,    \* waiting_for_interrupt
  cycles,     \* cycles, saturating
  priv,       \* priv
  csr,        \* csr[]
  gpio,       \* io_ports[0xF0, 0xF2, 0xF3] as sets of pins
  wdt,        \* wdt_last_sig (its pc part) and wdt_stall_count
  extArmed,   \* irq_ext_at_cycle >= 0
  pinChanges, \* polls left in which pins may change
  taken,      \* auxiliary: <<level, cause>> of the interrupt the last step took
  inside,     \* auxiliary: the levels whose handler runs with the MSTATUS of its entry
  heard,      \* auxiliary: the pins read from GPIO_INT_ST since it was last written
  watch       \* auxiliary: how many of the last instructions in a row ended at pc = at
              \* with the same registers; fired: the watchdog reset behind the last one

vars == <<pc, pipe, halted, waiting, cycles, priv, csr, gpio, wdt,
          extArmed, pinChanges, taken, inside, heard, watch>>


-----------------------------------------------------------------------------
(* cpu_reset() and the options main() applies after it.                    *)

Init ==
  /\ pc = 0 /\ pipe = NoPrefetch /\ cycles = 0
  /\ halted = FALSE /\ waiting = FALSE
  /\ priv = PRIV_MACHINE
  /\ csr = [PRIV |-> PRIV_MACHINE, MEPC |-> 0, MCAUSE |-> 0, MTVEC |-> 0,
            MSTATUS |-> [MIE |-> FALSE, MPIE |-> FALSE, MPP |-> PRIV_MACHINE,
                         SIE |-> FALSE, SPIE |-> FALSE, SPP |-> FALSE],
            SEPC |-> 0, STVEC |-> 0, MIE |-> {}, MIP |-> {}, MTIMECMP |-> 0,
            MIDELEG |-> {}, MEDELEG |-> {}, SIE |-> {}, SCAUSE |-> 0]
  /\ gpio = [dir |-> {}, inten |-> {}, st |-> {}]
  /\ wdt = [sig |-> NoSig, stall |-> 0]
  /\ extArmed = IrqOption
  /\ pinChanges = MaxPinChanges
  /\ taken = << >> /\ inside = {}
  /\ heard = [reading |-> FALSE, pins |-> {}]
  /\ watch = [at |-> NoSig, times |-> 0, fired |-> FALSE]

-----------------------------------------------------------------------------
(* poll_interrupt_sources(): the timer, the -i event and the pin changes.  *)

Triggered(changed) == (changed \ gpio.dir) \cap gpio.inten

PolledCsr(changed, ext) ==
  [csr EXCEPT !.MIP = @
     \cup (IF csr.MTIMECMP # 0 /\ cycles >= csr.MTIMECMP THEN {"TIMER"} ELSE {})
     \cup (IF ext \/ Triggered(changed) # {} THEN {"EXT"} ELSE {})]

PolledGpio(changed) == [gpio EXCEPT !.st = @ \cup Triggered(changed)]

Poll(changed, ext) ==
  /\ ext => extArmed
  /\ extArmed' = (extArmed /\ ~ext)
  /\ changed # {} => pinChanges > 0
  /\ pinChanges' = IF changed = {} THEN pinChanges ELSE pinChanges - 1

-----------------------------------------------------------------------------
(* The end of cpu_step(): cycle count, pipeline flush and watchdog.        *)

Tick(n) == IF cycles + n > Horizon THEN Horizon ELSE cycles + n

Succ(a) == IF a < MemSize THEN a + 1 ELSE MemSize

Prefetch == IF Succ(pc) < MemSize THEN Succ(pc) ELSE NoPrefetch

\* Variant: one repeated state too many.
FiresLate(armed, same) == armed /\ same /\ wdt.stall >= WdtLimit

\* The watchdog: "same" says that pc and all registers are as they were after
\* the previous instruction.
Fires(armed, same) == armed /\ same /\ wdt.stall + 1 >= WdtLimit

\* Variant: the repeated state is noted, not counted.
NextWdtUncounted(npc, armed, same) ==
  IF armed THEN [sig |-> npc, stall |-> 0] ELSE wdt

NextWdt(npc, armed, same) ==
  IF ~armed THEN wdt
  ELSE IF Fires(armed, same) THEN [sig |-> NoSig, stall |-> 0]
  ELSE IF same THEN [wdt EXCEPT !.stall = @ + 1]
  ELSE [sig |-> npc, stall |-> 0]

\* Variant: the watchdog's reset leaves the prefetched word.
NextPipeKept(flush, reset) == IF flush THEN NoPrefetch ELSE Prefetch

NextPipe(flush, reset) == IF flush \/ reset THEN NoPrefetch ELSE Prefetch

\* times is cut off above WdtLimit + 1.
NextWatch(npc, armed, wrote, reset) ==
  LET before == IF watch.fired THEN 0 ELSE watch.times
      again  == before > 0 /\ npc = watch.at /\ ~wrote
  IN  IF ~armed THEN [watch EXCEPT !.times = before, !.fired = FALSE]
      ELSE [at |-> npc, fired |-> reset,
            times |-> IF ~again THEN 1
                      ELSE IF before < WdtLimit + 2 THEN before + 1 ELSE before]

\* The instruction leaves pc = npc; "wrote" says whether a register changed.
Finish(npc, flush, halt, wrote) ==
  LET armed == Resilient /\ WdtLimit > 0 /\ ~halt
      same  == wdt.sig = npc /\ ~wrote
      reset == Fires(armed, same)
  IN  /\ pc' = IF reset THEN 0 ELSE npc
      /\ pipe' = NextPipe(flush, reset)
      /\ cycles' = Tick(IF flush THEN 2 ELSE 1)
      /\ halted' = halt
      /\ wdt' = NextWdt(npc, armed, same)
      /\ watch' = NextWatch(npc, armed, wrote, reset)

-----------------------------------------------------------------------------
(* Entering a handler: trap(), take_interrupt() and take_interrupt_s().    *)

\* Variants: a Machine-mode entry does not mask its interrupts; it masks the
\* Supervisor's as well.
EnterMOpen(c, cause, epc) ==
  [c EXCEPT !.MEPC = epc, !.MCAUSE = cause, !.PRIV = PRIV_MACHINE,
            !.MSTATUS = [@ EXCEPT !.MPP = priv, !.MPIE = c.MSTATUS.MIE]]
EnterMMaskingS(c, cause, epc) ==
  [c EXCEPT !.MEPC = epc, !.MCAUSE = cause, !.PRIV = PRIV_MACHINE,
            !.MSTATUS = [@ EXCEPT !.MPP = priv, !.MPIE = c.MSTATUS.MIE,
                                  !.MIE = FALSE, !.SIE = FALSE]]

EnterM(c, cause, epc) ==
  [c EXCEPT !.MEPC = epc, !.MCAUSE = cause, !.PRIV = PRIV_MACHINE,
            !.MSTATUS = [@ EXCEPT !.MPP = priv, !.MPIE = c.MSTATUS.MIE,
                                  !.MIE = FALSE]]

\* Variant: a Supervisor entry forgets csr[CSR_PRIV].
EnterSUnmirrored(c, cause, epc) ==
  [c EXCEPT !.SEPC = epc, !.SCAUSE = cause,
            !.MSTATUS = [@ EXCEPT !.SPP = (priv = PRIV_SUPERVISOR),
                                  !.SPIE = c.MSTATUS.SIE, !.SIE = FALSE]]

EnterS(c, cause, epc) ==
  [c EXCEPT !.SEPC = epc, !.SCAUSE = cause, !.PRIV = PRIV_SUPERVISOR,
            !.MSTATUS = [@ EXCEPT !.SPP = (priv = PRIV_SUPERVISOR),
                                  !.SPIE = c.MSTATUS.SIE, !.SIE = FALSE]]

\* Variant: every cause is recoverable.
RecoverableAll(cause) == TRUE

Recoverable(cause) == cause \in {CAUSE_ILL_INSN, CAUSE_DIV_ZERO}

Delegated(cause) ==
  priv # PRIV_MACHINE /\ cause \in csr.MEDELEG /\ csr.STVEC # 0

\* What pc = csr[...] keeps of a 64-bit register.
Cut(a) == IF a = Wide THEN Addr ELSE {a}

\* trap(): to the S handler, to the M handler, self-healed, or halted.
TrapTo(cause, c, wrote) ==
  IF Delegated(cause)
  THEN /\ csr' = EnterS(c, cause, Succ(pc))
       /\ priv' = PRIV_SUPERVISOR
       /\ inside' = inside \cup {PRIV_SUPERVISOR}
       /\ \E vector \in Cut(c.STVEC) : Finish(vector, TRUE, FALSE, wrote)
  ELSE /\ csr' = EnterM(c, cause, Succ(pc))
       /\ priv' = PRIV_MACHINE
       /\ inside' = inside \cup {PRIV_MACHINE}
       /\ IF c.MTVEC # 0
          THEN \E vector \in Cut(c.MTVEC) : Finish(vector, TRUE, FALSE, wrote)
          ELSE Finish(Succ(pc), TRUE, ~(Resilient /\ Recoverable(cause)), wrote)

Trap(cause, c, g) ==
  TrapTo(cause, c, FALSE) /\ gpio' = g /\ UNCHANGED waiting

-----------------------------------------------------------------------------
(* execute(): one action per group of opcodes.  c and g are the control    *)
(* registers and the GPIO ports after the poll.                            *)

\* Software that changes MSTATUS has the enables in its own hands.
Retire(c, g, npc, flush, wrote) ==
  /\ Finish(npc, flush, FALSE, wrote)
  /\ csr' = c /\ gpio' = g
  /\ inside' = IF c.MSTATUS = csr.MSTATUS THEN inside ELSE {}
  /\ UNCHANGED <<priv, waiting>>

\* pc += imm, from the address after the instruction.
JumpTargets(imm) ==
  IF pc = MemSize THEN Addr
  ELSE LET t == pc + 1 + imm IN {IF t \in 0 .. MemSize - 1 THEN t ELSE MemSize}

Nop(i, c, g) == i.op = "NOP" /\ Retire(c, g, Succ(pc), FALSE, FALSE)

Alu(i, c, g) ==
  i.op = "ALU" /\ \E wrote \in BOOLEAN : Retire(c, g, Succ(pc), FALSE, wrote)

Div(i, c, g) ==
  /\ i.op = "DIV"
  /\ \/ Trap(CAUSE_DIV_ZERO, c, g)
     \/ \E wrote \in BOOLEAN : Retire(c, g, Succ(pc), FALSE, wrote)

Halt(i, c, g) ==
  /\ i.op = "HALT"
  /\ Finish(Succ(pc), TRUE, TRUE, FALSE)
  /\ csr' = c /\ gpio' = g
  /\ UNCHANGED <<priv, waiting, inside>>

Jmp(i, c, g) ==
  /\ i.op = "JMP"
  /\ \E t \in JumpTargets(i.imm) : Retire(c, g, t, TRUE, FALSE)

Branch(i, c, g) ==
  /\ i.op = "BR"
  /\ \/ Retire(c, g, Succ(pc), FALSE, FALSE)
     \/ \E t \in JumpTargets(i.imm) : Retire(c, g, t, TRUE, FALSE)

Call(i, c, g) ==
  /\ i.op = "CALL"
  /\ \E t \in JumpTargets(i.imm) : Retire(c, g, t, TRUE, TRUE)

Ret(i, c, g) == i.op = "RET" /\ \E t \in Addr : Retire(c, g, t, TRUE, TRUE)

\* Variant: GPIO_INT_ST is write-one-to-clear, MIP.EXT is lowered regardless.
OutEffectPartial(i, c, g) ==
  CASE i.port = "GPIO_DIR"    -> <<c, [g EXCEPT !.dir = i.pins]>>
    [] i.port = "GPIO_INT_EN" -> <<c, [g EXCEPT !.inten = i.pins]>>
    [] i.port = "GPIO_INT_ST" -> <<[c EXCEPT !.MIP = @ \ {"EXT"}],
                                   [g EXCEPT !.st = @ \ i.pins]>>
    [] i.port = "OTHER" -> <<c, g>>

\* The port is stored first, then INT_ST &= ~reg: the stored value clears itself.
OutEffect(i, c, g) ==
  CASE i.port = "GPIO_DIR"    -> <<c, [g EXCEPT !.dir = i.pins]>>
    [] i.port = "GPIO_INT_EN" -> <<c, [g EXCEPT !.inten = i.pins]>>
    [] i.port = "GPIO_INT_ST" ->
         LET left == i.pins \ i.pins
         IN  <<IF left = {} THEN [c EXCEPT !.MIP = @ \ {"EXT"}] ELSE c,
               [g EXCEPT !.st = left]>>
    [] i.port = "OTHER" -> <<c, g>>

Out(i, c, g) ==
  /\ i.op = "OUT"
  /\ IF priv = PRIV_USER THEN Trap(CAUSE_IO_PRIV, c, g)
     ELSE LET e == OutEffect(i, c, g)
          IN  Retire(e[1], e[2], Succ(pc), FALSE, FALSE)

In(i, c, g) ==
  /\ i.op = "IN"
  /\ IF priv = PRIV_USER THEN Trap(CAUSE_IO_PRIV, c, g)
     ELSE \E wrote \in BOOLEAN : Retire(c, g, Succ(pc), FALSE, wrote)

Ecall(i, c, g) ==
  /\ i.op = "ECALL"
  /\ \/ priv = PRIV_USER /\ Trap(CAUSE_ECALL_U, c, g)
     \/ priv = PRIV_SUPERVISOR /\ Trap(CAUSE_ECALL_S, c, g)
     \/ /\ priv \notin {PRIV_USER, PRIV_SUPERVISOR}
        /\ Retire(c, g, Succ(pc), FALSE, FALSE)

\* ERET: SRET from Supervisor, MRET from every other level but User.
SretCsr(c) ==
  [c EXCEPT !.PRIV = IF c.MSTATUS.SPP THEN PRIV_SUPERVISOR ELSE PRIV_USER,
            !.MSTATUS = [@ EXCEPT !.SIE = c.MSTATUS.SPIE, !.SPIE = TRUE,
                                  !.SPP = FALSE]]
\* Variants: MRET pops MPP to Machine; MRET does not restore MIE.
MretCsrPopped(c) ==
  [c EXCEPT !.PRIV = c.MSTATUS.MPP,
            !.MSTATUS = [@ EXCEPT !.MIE = c.MSTATUS.MPIE, !.MPIE = TRUE,
                                  !.MPP = PRIV_MACHINE]]
MretCsrMasked(c) == [c EXCEPT !.PRIV = c.MSTATUS.MPP]

MretCsr(c) ==
  [c EXCEPT !.PRIV = c.MSTATUS.MPP,
            !.MSTATUS = [@ EXCEPT !.MIE = c.MSTATUS.MPIE]]

Return(from, returned, epc, g) ==
  /\ csr' = returned
  /\ priv' = returned.PRIV
  /\ inside' = inside \ {from}
  /\ \E npc \in Cut(epc) : Finish(npc, TRUE, FALSE, FALSE)
  /\ gpio' = g
  /\ UNCHANGED waiting

\* Variant: ERET lacks its User guard.
EretUnguarded(i, c, g) ==
  /\ i.op = "ERET"
  /\ IF priv = PRIV_SUPERVISOR THEN Return(PRIV_SUPERVISOR, SretCsr(c), c.SEPC, g)
     ELSE Return(PRIV_MACHINE, MretCsr(c), c.MEPC, g)

Eret(i, c, g) ==
  /\ i.op = "ERET"
  /\ \/ priv = PRIV_USER /\ Trap(CAUSE_ERET_PRIV, c, g)
     \/ priv = PRIV_SUPERVISOR /\ Return(PRIV_SUPERVISOR, SretCsr(c), c.SEPC, g)
     \/ /\ priv \notin {PRIV_USER, PRIV_SUPERVISOR}
        /\ Return(PRIV_MACHINE, MretCsr(c), c.MEPC, g)

\* Variant: only the first five registers are Machine-only.
DeniedLowOnly(n) ==
  \/ n \in {"PRIV", "MEPC", "MCAUSE", "MTVEC", "MSTATUS"} /\ priv # PRIV_MACHINE
  \/ n \in SupervisorCsr /\ priv = PRIV_USER

\* The access rules of csr_read() and csr_write().
Denied(n) ==
  \/ n \in MachineCsr /\ priv # PRIV_MACHINE
  \/ n \in SupervisorCsr /\ priv = PRIV_USER

Csrw(i, c, g) ==
  /\ i.op = "CSRW"
  /\ IF Denied(i.csr) THEN Trap(CAUSE_CSR_PRIV, c, g)
     ELSE Retire(IF i.csr \in ReadOnlyCsr THEN c ELSE [c EXCEPT ![i.csr] = i.val],
                 g, Succ(pc), FALSE, FALSE)

\* A refused read still writes 0 to its destination register.
Csrr(i, c, g) ==
  /\ i.op = "CSRR"
  /\ \E wrote \in BOOLEAN :
       IF Denied(i.csr) \/ (i.csr = "SCAUSE" /\ priv = PRIV_USER)
       THEN TrapTo(CAUSE_CSR_PRIV, c, wrote) /\ gpio' = g /\ UNCHANGED waiting
       ELSE Retire(c, g, Succ(pc), FALSE, wrote)

PrivOp(i, c, g) ==
  /\ i.op = "PRIVOP"
  /\ IF priv # PRIV_MACHINE THEN Trap(CAUSE_CSR_PRIV, c, g)
     ELSE \E wrote \in BOOLEAN : Retire(c, g, Succ(pc), FALSE, wrote)

\* Variant: WFI lacks its User guard.
WfiUnguarded(i, c, g) ==
  /\ i.op = "WFI"
  /\ waiting' = TRUE
  /\ Finish(Succ(pc), FALSE, FALSE, FALSE)
  /\ csr' = c /\ gpio' = g
  /\ UNCHANGED <<priv, inside>>

Wfi(i, c, g) ==
  /\ i.op = "WFI"
  /\ IF priv = PRIV_USER THEN Trap(CAUSE_CSR_PRIV, c, g)
     ELSE /\ waiting' = TRUE
          /\ Finish(Succ(pc), FALSE, FALSE, FALSE)
          /\ csr' = c /\ gpio' = g
          /\ UNCHANGED <<priv, inside>>

Illegal(i, c, g) == i.op = "ILL" /\ Trap(CAUSE_ILL_INSN, c, g)

\* What the program knows of the latch: an acknowledgement ends the reading.
Hears(i, g) ==
  IF priv # PRIV_USER /\ i.op = "IN" /\ i.port = "GPIO_INT_ST"
  THEN [reading |-> TRUE, pins |-> g.st]
  ELSE IF priv # PRIV_USER /\ i.op = "OUT" /\ i.port = "GPIO_INT_ST"
  THEN [reading |-> FALSE, pins |-> {}]
  ELSE heard

Execute(i, c, g) ==
  \/ Nop(i, c, g)   \/ Alu(i, c, g)    \/ Div(i, c, g)  \/ Halt(i, c, g)
  \/ Jmp(i, c, g)   \/ Branch(i, c, g) \/ Call(i, c, g) \/ Ret(i, c, g)
  \/ Out(i, c, g)   \/ In(i, c, g)     \/ Ecall(i, c, g) \/ Eret(i, c, g)
  \/ Csrw(i, c, g)  \/ Csrr(i, c, g)   \/ PrivOp(i, c, g) \/ Wfi(i, c, g)
  \/ Illegal(i, c, g)

-----------------------------------------------------------------------------
(* cpu_step(): wait, take an interrupt, or execute one instruction.        *)

PendM(c) == c.MIP \cap c.MIE
PendS(c) == c.MIP \cap c.MIDELEG \cap c.SIE

ForS(c) == priv # PRIV_MACHINE /\ c.MSTATUS.SIE /\ PendS(c) # {}

Pending(c) == (c.MSTATUS.MIE /\ PendM(c) # {}) \/ ForS(c)

IrqCause(pend) == IF "TIMER" \in pend THEN CAUSE_INT_TIMER ELSE CAUSE_INT_EXT

\* The waiting branch counts a cycle, the running one does not.
IrqFrame(g) ==
  /\ cycles' = IF waiting THEN Tick(1) ELSE cycles
  /\ gpio' = g
  /\ UNCHANGED <<halted, wdt, heard, watch>>

\* Variant: the sleeper is not woken.
DeliverAsleep(entered, level, cause, vector, g) ==
  /\ csr' = entered /\ priv' = level /\ pc' \in Cut(vector) /\ pipe' = NoPrefetch
  /\ taken' = <<level, cause>> /\ inside' = inside \cup {level}
  /\ IrqFrame(g)
  /\ UNCHANGED waiting

Deliver(entered, level, cause, vector, g) ==
  /\ csr' = entered
  /\ priv' = level
  /\ pc' \in Cut(vector)
  /\ pipe' = NoPrefetch
  /\ waiting' = FALSE
  /\ taken' = <<level, cause>>
  /\ inside' = inside \cup {level}
  /\ IrqFrame(g)

TakeS(c, g) ==
  LET cause == IrqCause(PendS(c))
  IN  /\ ForS(c) /\ c.STVEC # 0
      /\ Deliver(EnterS(c, cause, pc), PRIV_SUPERVISOR, cause, c.STVEC, g)

\* Variant: the return address skips an instruction.
TakeMSkipping(c, g) ==
  LET cause == IrqCause(PendM(c))
  IN  /\ Pending(c) /\ ~ForS(c) /\ c.MTVEC # 0
      /\ Deliver(EnterM(c, cause, Succ(pc)), PRIV_MACHINE, cause, c.MTVEC, g)

TakeM(c, g) ==
  LET cause == IrqCause(PendM(c))
  IN  /\ Pending(c) /\ ~ForS(c) /\ c.MTVEC # 0
      /\ Deliver(EnterM(c, cause, pc), PRIV_MACHINE, cause, c.MTVEC, g)

\* No vector: the interrupt is dropped; Machine mode drops bits 0 and 1 only.
Drop(c, g, dropped) ==
  /\ csr' = [c EXCEPT !.MIP = @ \ dropped]
  /\ IrqFrame(g)
  /\ taken' = << >>
  /\ UNCHANGED <<priv, pc, pipe, waiting, inside>>

DropS(c, g) == ForS(c) /\ c.STVEC = 0 /\ Drop(c, g, PendS(c))
DropM(c, g) ==
  /\ Pending(c) /\ ~ForS(c) /\ c.MTVEC = 0
  /\ Drop(c, g, PendM(c) \cap {"TIMER", "EXT"})

WaitTick(c, g) ==
  /\ waiting /\ ~Pending(c)
  /\ cycles' = Tick(1)
  /\ csr' = c /\ gpio' = g
  /\ taken' = << >>
  /\ UNCHANGED <<pc, pipe, halted, waiting, priv, wdt, inside, heard, watch>>

\* The word executed is the prefetched one when there is one.
Fetched ==
  LET a == IF pipe = NoPrefetch THEN pc ELSE pipe
  IN  IF a < MemSize THEN Code[a] ELSE Insn

Run(c, g) ==
  /\ ~waiting /\ ~Pending(c)
  /\ \E i \in Fetched : Execute(i, c, g) /\ heard' = Hears(i, g)
  /\ taken' = << >>

CpuStep(c, g) ==
  \/ WaitTick(c, g)
  \/ TakeS(c, g) \/ DropS(c, g) \/ TakeM(c, g) \/ DropM(c, g)
  \/ Run(c, g)

Next ==
  /\ ~halted
  /\ \E changed \in SUBSET Pins, ext \in BOOLEAN :
       /\ Poll(changed, ext)
       /\ CpuStep(PolledCsr(changed, ext), PolledGpio(changed))

Spec == Init /\ [][Next]_vars

-----------------------------------------------------------------------------
(* Invariants.                                                             *)

\* Every variable holds a value the C declarations and the code allow.
TypeOK ==
  /\ pc \in Addr /\ pipe \in Addr \cup {NoPrefetch}
  /\ halted \in BOOLEAN /\ waiting \in BOOLEAN
  /\ cycles \in 0 .. Horizon
  /\ priv \in Level
  /\ csr \in CsrFile
  /\ gpio \in [dir : SUBSET Pins, inten : SUBSET Pins, st : SUBSET Pins]
  /\ wdt \in [sig : Addr \cup {NoSig}, stall : Nat]
  /\ extArmed \in BOOLEAN /\ pinChanges \in 0 .. MaxPinChanges
  /\ taken \in {<< >>} \cup ({PRIV_MACHINE, PRIV_SUPERVISOR} \X Cause)
  /\ inside \subseteq {PRIV_MACHINE, PRIV_SUPERVISOR}
  /\ heard \in [reading : BOOLEAN, pins : SUBSET Pins]
  /\ watch \in [at : Addr \cup {NoSig}, times : 0 .. WdtLimit + 2, fired : BOOLEAN]

\* Whatever mix of branches, traps, returns, interrupts, waits and watchdog
\* resets came before, a valid prefetched word is the word pc names: each of
\* the five places that moves pc has to discard it (SPEC.md:604-609).
PrefetchIsCurrent == pipe # NoPrefetch => pipe = pc /\ pc < MemSize

\* csr[CSR_PRIV] and priv are kept in two variables by six pieces of code;
\* they never disagree, whichever level MSTATUS sends the CPU to.
PrivMirrored == csr.PRIV = priv

\* A CPU that waits for an interrupt has not halted and is not in User mode:
\* it was put to sleep by a WFI that User code cannot execute, and no event
\* moves it to another level without waking it.
WaiterIsPrivileged == waiting => ~halted /\ priv # PRIV_USER

\* The level 3 that no document names is reached only through MPP = 3, and as
\* long as the CPU is there MPP stays 3: ERET, which takes its MRET branch at
\* level 3 (sim.c:834), cannot lead from it to Machine mode.
UnnamedLevelIsClosed == priv = 3 => csr.MSTATUS.MPP = 3

\* The watchdog resets the CPU behind an instruction exactly when the state has
\* been the same behind WdtLimit + 1 instructions in a row, neither earlier nor
\* later, whatever traps, interrupts, waits and resets came before and between.
WatchdogExact == watch.fired <=> watch.times = WdtLimit + 1

-----------------------------------------------------------------------------
(* Action properties.                                                      *)

EnteredM ==
  /\ priv' = PRIV_MACHINE
  /\ csr'.MSTATUS.MPP = priv /\ csr'.MSTATUS.MPIE = csr.MSTATUS.MIE
  /\ ~csr'.MSTATUS.MIE

EnteredS ==
  /\ priv' = PRIV_SUPERVISOR /\ csr.STVEC # 0
  /\ csr'.MSTATUS.SPP = (priv = PRIV_SUPERVISOR)
  /\ csr'.MSTATUS.SPIE = csr.MSTATUS.SIE /\ ~csr'.MSTATUS.SIE

\* Privilege rises only by a trap or an interrupt (SECURITY.md:23), which
\* records the level it came from and masks the interrupts of its new level;
\* no return, from any level and with any MSTATUS, raises it.
PrivilegeRisesByEntry == [][priv' < priv => EnteredM \/ EnteredS]_vars

\* What Machine mode set up (vectors, enables, delegation, timer) is changed
\* only in Machine mode, in particular not by handlers of the lower levels.
MachineConfig == <<csr.MTVEC, csr.MIE, csr.MTIMECMP, csr.MIDELEG, csr.MEDELEG>>
MachineConfigKept == [][MachineConfig' # MachineConfig => priv = PRIV_MACHINE]_vars

\* A Machine-mode interrupt or trap that strikes inside a Supervisor handler
\* leaves the Supervisor frame as it was, a delegated one and SRET leave the
\* Machine frame: whoever was interrupted can still return.  Below Machine
\* mode no step changes both frames, though both share the MSTATUS register.
MFrame == <<csr.MEPC, csr.MCAUSE, csr.MSTATUS.MPP, csr.MSTATUS.MPIE,
            csr.MSTATUS.MIE>>
SFrame == <<csr.SEPC, csr.SCAUSE, csr.MSTATUS.SPP, csr.MSTATUS.SPIE,
            csr.MSTATUS.SIE>>
FramesIndependent ==
  [][priv # PRIV_MACHINE => MFrame' = MFrame \/ SFrame' = SFrame]_vars

\* WFI ends only in a handler: with the return address at the instruction
\* after it, the sleeper's level saved, and the handler's vector installed.
WaitEndsInHandler ==
  [][waiting /\ ~waiting' =>
       \/ EnteredM /\ csr.MTVEC # 0 /\ pc' \in Cut(csr.MTVEC) /\ csr'.MEPC = pc
       \/ EnteredS /\ pc' \in Cut(csr.STVEC) /\ csr'.SEPC = pc]_vars

\* An interrupt is taken only at a level that has it enabled, for a line that is
\* raised and enabled there, in Supervisor mode also delegated; and never inside a
\* handler of that level, nested or repeated, before the handler returned or changed
\* MSTATUS itself: the handler's return state is not overwritten.
Raises(lines, cause) ==
  IF cause = CAUSE_INT_TIMER THEN "TIMER" \in lines ELSE lines \ {"TIMER"} # {}

TakenAt(level) == taken' # << >> /\ taken'[1] = level

InterruptsMasked ==
  [][/\ TakenAt(PRIV_MACHINE) =>
          /\ csr.MSTATUS.MIE /\ PRIV_MACHINE \notin inside
          /\ Raises(csr'.MIP \cap csr.MIE, taken'[2])
     /\ TakenAt(PRIV_SUPERVISOR) =>
          /\ priv # PRIV_MACHINE
          /\ csr.MSTATUS.SIE /\ PRIV_SUPERVISOR \notin inside
          /\ Raises(csr'.MIP \cap csr.MIDELEG \cap csr.SIE, taken'[2])]_vars

\* Self-heal never covers up a privilege violation or a system call (SPEC.md:624):
\* with no handler installed they halt the CPU, with -r as without it.
ViolationsNeverHealed ==
  [][priv # PRIV_MACHINE /\ priv' = PRIV_MACHINE /\ csr.MTVEC = 0
       /\ csr'.MCAUSE \in CAUSE_ECALL_U .. CAUSE_ERET_PRIV => halted']_vars

-----------------------------------------------------------------------------
(* The GPIO interrupt latch.                                               *)

\* As long as software does not write MIP itself, a latched pin keeps MIP.EXT
\* raised: no order of pin changes, acknowledgements and reprogramming of the
\* ports leaves a pin latched with its interrupt withdrawn.
LatchedPinIsPending == gpio.st # {} => "EXT" \in csr.MIP
=============================================================================
