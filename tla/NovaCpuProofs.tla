--------------------------- MODULE NovaCpuProofs ---------------------------
(***************************************************************************)
(* Proofs about NovaCpu, for every memory, program, set of pins and option. *)
(*                                                                          *)
(* IInv is the inductive invariant.  A step is proved in two halves: what   *)
(* the poll hands to cpu_step() (Polled), then one lemma for each way a     *)
(* step can end, and with them one step per action.                         *)
(***************************************************************************)
EXTENDS NovaCpu, TLAPS

GpioType == [dir : SUBSET Pins, inten : SUBSET Pins, st : SUBSET Pins]

\* The watchdog's count against what it should have seen.
WatchdogInv ==
  /\ wdt.stall = 0 \/ wdt.stall < WdtLimit
  /\ watch \in [at : Addr \cup {NoSig}, times : 0 .. WdtLimit + 2, fired : BOOLEAN]
  /\ watch.fired => /\ wdt.sig = NoSig /\ wdt.stall = 0
                    /\ watch.times = WdtLimit + 1
  /\ ~watch.fired =>
       \/ wdt.sig = NoSig /\ wdt.stall = 0 /\ watch.times = 0
       \/ /\ wdt.sig \in Addr /\ watch.at = wdt.sig
          /\ watch.times = wdt.stall + 1 /\ WdtLimit > 0

\* The part of the state that cpu_step() changes after the poll.
CoreOK ==
  /\ pc \in Addr /\ pipe \in Addr \cup {NoPrefetch}
  /\ halted \in BOOLEAN /\ waiting \in BOOLEAN
  /\ cycles \in 0 .. Horizon
  /\ priv \in Level
  /\ csr \in CsrFile
  /\ gpio \in GpioType
  /\ wdt \in [sig : Addr \cup {NoSig}, stall : Nat]
  /\ PrefetchIsCurrent /\ PrivMirrored /\ WaiterIsPrivileged
  /\ UnnamedLevelIsClosed /\ WatchdogInv

EnvOK == extArmed \in BOOLEAN /\ pinChanges \in 0 .. MaxPinChanges

IInv == CoreOK /\ EnvOK

\* What the action properties ask of one step.
StepOK ==
  /\ priv' < priv => EnteredM \/ EnteredS
  /\ MachineConfig' # MachineConfig => priv = PRIV_MACHINE
  /\ priv # PRIV_MACHINE => MFrame' = MFrame \/ SFrame' = SFrame
  /\ waiting /\ ~waiting' =>
       \/ EnteredM /\ csr.MTVEC # 0 /\ pc' \in Cut(csr.MTVEC) /\ csr'.MEPC = pc
       \/ EnteredS /\ pc' \in Cut(csr.STVEC) /\ csr'.SEPC = pc

\* Registers in which c, a value of csr[] within a step, agrees with the state.
KeepsConfig(c) == <<c.MTVEC, c.MIE, c.MTIMECMP, c.MIDELEG, c.MEDELEG>> = MachineConfig
KeepsMFrame(c) ==
  <<c.MEPC, c.MCAUSE, c.MSTATUS.MPP, c.MSTATUS.MPIE, c.MSTATUS.MIE>> = MFrame
KeepsSFrame(c) ==
  <<c.SEPC, c.SCAUSE, c.MSTATUS.SPP, c.MSTATUS.SPIE, c.MSTATUS.SIE>> = SFrame

\* The poll changes no control register but MIP.
Polled(c, g) ==
  /\ c \in CsrFile /\ g \in GpioType
  /\ c.PRIV = priv /\ c.MSTATUS = csr.MSTATUS /\ c.STVEC = csr.STVEC /\ c.SIE = csr.SIE
  /\ KeepsConfig(c) /\ KeepsMFrame(c) /\ KeepsSFrame(c)

-----------------------------------------------------------------------------
(* Operators.                                                              *)

LEMMA CauseFacts ==
  {CAUSE_ILL_INSN, CAUSE_ECALL_U, CAUSE_ECALL_S, CAUSE_CSR_PRIV, CAUSE_IO_PRIV,
   CAUSE_ERET_PRIV, CAUSE_DIV_ZERO, CAUSE_INT_TIMER, CAUSE_INT_EXT} \subseteq Cause
BY DEF Cause, CAUSE_ILL_INSN, CAUSE_ECALL_U, CAUSE_ECALL_S, CAUSE_CSR_PRIV, CAUSE_IO_PRIV,
   CAUSE_ERET_PRIV, CAUSE_DIV_ZERO

LEMMA SuccAddr == ASSUME NEW a \in Addr PROVE Succ(a) \in Addr
BY MemAssumption DEF Succ, Addr

LEMMA CutAddr == ASSUME NEW a \in CsrAddr, NEW t \in Cut(a) PROVE t \in Addr
BY DEF CsrAddr, Cut

LEMMA JumpTargetsAddr ==
  ASSUME NEW imm \in Int, NEW t \in JumpTargets(imm) PROVE t \in Addr
BY MemAssumption DEF JumpTargets, Addr

LEMMA EnterMOK ==
  ASSUME NEW c \in CsrFile, NEW cause \in Cause, NEW epc \in Addr, priv \in Level
  PROVE  EnterM(c, cause, epc) \in CsrFile
<1> DEFINE st == [c.MSTATUS EXCEPT !.MPP = priv, !.MPIE = c.MSTATUS.MIE, !.MIE = FALSE]
<1>1. c.MSTATUS \in Mstatus
  BY DEF CsrFile
<1>2. st \in Mstatus
  BY <1>1 DEF Mstatus
<1> HIDE DEF st
<1>3. PRIV_MACHINE \in Level
  BY DEF PRIV_MACHINE, Level
<1>4. [c EXCEPT !.MEPC = epc, !.MCAUSE = cause, !.PRIV = PRIV_MACHINE, !.MSTATUS = st]
        \in CsrFile
  BY <1>2, <1>3 DEF CsrFile, CsrAddr
<1>5. QED
  BY <1>4 DEF EnterM, st

LEMMA EnterSOK ==
  ASSUME NEW c \in CsrFile, NEW cause \in Cause, NEW epc \in Addr
  PROVE  EnterS(c, cause, epc) \in CsrFile
<1> DEFINE st == [c.MSTATUS EXCEPT !.SPP = (priv = PRIV_SUPERVISOR),
                                   !.SPIE = c.MSTATUS.SIE, !.SIE = FALSE]
<1>1. c.MSTATUS \in Mstatus
  BY DEF CsrFile
<1>2. st \in Mstatus
  BY <1>1 DEF Mstatus
<1> HIDE DEF st
<1>3. PRIV_SUPERVISOR \in Level
  BY DEF PRIV_SUPERVISOR, Level
<1>4. [c EXCEPT !.SEPC = epc, !.SCAUSE = cause, !.PRIV = PRIV_SUPERVISOR, !.MSTATUS = st]
        \in CsrFile
  BY <1>2, <1>3 DEF CsrFile, CsrAddr
<1>5. QED
  BY <1>4 DEF EnterS, st

LEMMA SretOK == ASSUME NEW c \in CsrFile PROVE SretCsr(c) \in CsrFile
<1> DEFINE st == [c.MSTATUS EXCEPT !.SIE = c.MSTATUS.SPIE, !.SPIE = TRUE, !.SPP = FALSE]
<1> DEFINE l == IF c.MSTATUS.SPP THEN PRIV_SUPERVISOR ELSE PRIV_USER
<1>1. c.MSTATUS \in Mstatus
  BY DEF CsrFile
<1>2. st \in Mstatus
  BY <1>1 DEF Mstatus
<1>3. l \in Level
  BY DEF PRIV_SUPERVISOR, PRIV_USER, Level
<1> HIDE DEF st, l
<1>4. [c EXCEPT !.PRIV = l, !.MSTATUS = st] \in CsrFile
  BY <1>2, <1>3 DEF CsrFile
<1>5. QED
  BY <1>4 DEF SretCsr, st, l

LEMMA MretOK == ASSUME NEW c \in CsrFile PROVE MretCsr(c) \in CsrFile
<1> DEFINE st == [c.MSTATUS EXCEPT !.MIE = c.MSTATUS.MPIE]
<1>1. c.MSTATUS \in Mstatus
  BY DEF CsrFile
<1>2. st \in Mstatus /\ c.MSTATUS.MPP \in Level
  BY <1>1 DEF Mstatus
<1> HIDE DEF st
<1>4. [c EXCEPT !.PRIV = c.MSTATUS.MPP, !.MSTATUS = st] \in CsrFile
  BY <1>2 DEF CsrFile
<1>5. QED
  BY <1>4 DEF MretCsr, st

-----------------------------------------------------------------------------
(* The poll.                                                               *)

LEMMA PollOK ==
  ASSUME IInv, NEW changed \in SUBSET Pins, NEW ext \in BOOLEAN, Poll(changed, ext)
  PROVE  /\ Polled(PolledCsr(changed, ext), PolledGpio(changed))
         /\ EnvOK'
<1> DEFINE c == PolledCsr(changed, ext)
           g == PolledGpio(changed)
<1>1. csr \in CsrFile /\ gpio \in GpioType
  BY DEF IInv, CoreOK
<1>2. /\ c \in CsrFile
      /\ c.PRIV = csr.PRIV /\ c.MSTATUS = csr.MSTATUS
      /\ c.MTVEC = csr.MTVEC /\ c.STVEC = csr.STVEC
      /\ c.MIE = csr.MIE /\ c.MTIMECMP = csr.MTIMECMP
      /\ c.MIDELEG = csr.MIDELEG /\ c.MEDELEG = csr.MEDELEG
      /\ c.MEPC = csr.MEPC /\ c.MCAUSE = csr.MCAUSE
      /\ c.SEPC = csr.SEPC /\ c.SCAUSE = csr.SCAUSE /\ c.SIE = csr.SIE
  <2> DEFINE m == csr.MIP
        \cup (IF csr.MTIMECMP # 0 /\ cycles >= csr.MTIMECMP THEN {"TIMER"} ELSE {})
        \cup (IF ext \/ Triggered(changed) # {} THEN {"EXT"} ELSE {})
  <2>1. m \in SUBSET IrqLine
    BY <1>1 DEF CsrFile, IrqLine
  <2>2. c = [csr EXCEPT !.MIP = m]
    BY DEF PolledCsr
  <2> HIDE DEF m, c
  <2>3. QED
    BY <1>1, <2>1, <2>2 DEF CsrFile
<1>3. g \in GpioType
  BY <1>1 DEF PolledGpio, Triggered, GpioType
<1>4. EnvOK'
  BY BoundAssumption DEF Poll, IInv, EnvOK
<1>5. QED
  BY <1>2, <1>3, <1>4 DEF Polled, KeepsConfig, KeepsMFrame, KeepsSFrame, MachineConfig,
     MFrame, SFrame, IInv, CoreOK, PrivMirrored

-----------------------------------------------------------------------------
(* The end of a step.                                                      *)

\* Finish keeps the types and the pipeline and watchdog invariants, provided
\* an instruction that does not flush goes on with the next address.
LEMMA FinishOK ==
  ASSUME CoreOK, ~halted, NEW npc \in Addr, NEW flush \in BOOLEAN, NEW halt \in BOOLEAN,
         NEW wrote \in BOOLEAN, ~flush => npc = Succ(pc),
         Finish(npc, flush, halt, wrote)
  PROVE  /\ pc' \in Addr /\ pipe' \in Addr \cup {NoPrefetch}
         /\ halted' = halt
         /\ cycles' \in 0 .. Horizon
         /\ wdt' \in [sig : Addr \cup {NoSig}, stall : Nat]
         /\ PrefetchIsCurrent' /\ WatchdogInv'
<1> DEFINE armed == Resilient /\ WdtLimit > 0 /\ ~halt
           same  == wdt.sig = npc /\ ~wrote
           reset == Fires(armed, same)
<1>1. /\ pc' = IF reset THEN 0 ELSE npc
      /\ pipe' = NextPipe(flush, reset)
      /\ cycles' = Tick(IF flush THEN 2 ELSE 1)
      /\ halted' = halt
      /\ wdt' = NextWdt(npc, armed, same)
  BY DEF Finish
<1>2. cycles' \in 0 .. Horizon
  BY <1>1, BoundAssumption DEF Tick, CoreOK
<1>3. wdt' \in [sig : Addr \cup {NoSig}, stall : Nat] /\ WatchdogInv'
  <2>1. watch' = NextWatch(npc, armed, wrote, reset)
    BY DEF Finish
  <2> HIDE DEF armed, reset
  <2>2. armed \in BOOLEAN /\ (reset <=> armed /\ same /\ wdt.stall + 1 >= WdtLimit)
        /\ (armed => WdtLimit > 0)
    BY OptionAssumption DEF armed, reset, Fires
  <2> DEFINE before == IF watch.fired THEN 0 ELSE watch.times
             again  == before > 0 /\ npc = watch.at /\ ~wrote
  <2>3. /\ before \in 0 .. WdtLimit + 2
        /\ before <= WdtLimit
        /\ (before = 0 => wdt.sig = NoSig /\ wdt.stall = 0)
        /\ (before > 0 => /\ before = wdt.stall + 1 /\ wdt.sig = watch.at
                          /\ wdt.sig \in Addr /\ WdtLimit > 0 /\ ~watch.fired)
    BY OptionAssumption DEF CoreOK, WatchdogInv
  <2>4. same <=> again
    BY <2>3 DEF Addr, NoSig
  <2>5. watch' = IF ~armed THEN [watch EXCEPT !.times = before, !.fired = FALSE]
                 ELSE [at |-> npc, fired |-> reset,
                       times |-> IF ~again THEN 1
                                 ELSE IF before < WdtLimit + 2 THEN before + 1 ELSE before]
    BY <2>1 DEF NextWatch
  <2>6. /\ wdt.stall \in Nat /\ (wdt.stall = 0 \/ wdt.stall < WdtLimit)
        /\ wdt \in [sig : Addr \cup {NoSig}, stall : Nat]
        /\ watch \in [at : Addr \cup {NoSig}, times : 0 .. WdtLimit + 2, fired : BOOLEAN]
    BY DEF CoreOK, WatchdogInv
  <2>7. wdt' = IF ~armed THEN wdt
               ELSE IF reset THEN [sig |-> NoSig, stall |-> 0]
               ELSE IF same THEN [wdt EXCEPT !.stall = @ + 1]
               ELSE [sig |-> npc, stall |-> 0]
    BY <1>1 DEF NextWdt, reset
  <2> HIDE DEF before, again, same
  <2>8. CASE ~armed
    <3>1. /\ wdt' = wdt /\ watch'.times = before /\ watch'.fired = FALSE
          /\ watch'.at = watch.at
          /\ watch' \in [at : Addr \cup {NoSig}, times : 0 .. WdtLimit + 2, fired : BOOLEAN]
      BY <2>3, <2>5, <2>6, <2>7, <2>8
    <3>2. QED
      BY <3>1, <2>3, <2>6 DEF WatchdogInv
  <2>9. CASE armed /\ reset
    <3>1. same /\ wdt.stall + 1 >= WdtLimit
      BY <2>2, <2>9
    <3>2. before > 0
      BY <3>1, <2>4 DEF again
    <3>3. before = WdtLimit
      BY <3>1, <3>2, <2>3, OptionAssumption
    <3>4. watch' = [at |-> npc, fired |-> TRUE, times |-> WdtLimit + 1]
      <4>1. again /\ reset = TRUE /\ before < WdtLimit + 2
        BY <3>1, <3>3, <2>2, <2>4, <2>9, OptionAssumption
      <4>2. QED
        BY <4>1, <3>3, <2>5, <2>9
    <3>5. wdt' = [sig |-> NoSig, stall |-> 0]
      BY <2>7, <2>9
    <3>6. QED
      BY <3>4, <3>5, OptionAssumption DEF WatchdogInv
  <2>10. CASE armed /\ ~reset /\ same
    <3>1. wdt.stall + 1 < WdtLimit
      BY <2>2, <2>6, <2>10, OptionAssumption
    <3>2. before > 0 /\ npc = watch.at
      BY <2>10, <2>4 DEF again
    <3>0. reset = FALSE /\ again
      BY <2>2, <2>4, <2>10
    <3>3. /\ watch' = [at |-> npc, fired |-> FALSE, times |-> wdt.stall + 2]
          /\ wdt' = [wdt EXCEPT !.stall = @ + 1]
      <4>1. before + 1 = wdt.stall + 2 /\ before < WdtLimit + 2
        BY <3>2, <2>3, <2>6, OptionAssumption
      <4>2. QED
        BY <4>1, <3>0, <2>5, <2>7, <2>10
    <3>4. wdt'.stall = wdt.stall + 1 /\ wdt'.sig = npc
          /\ wdt' \in [sig : Addr \cup {NoSig}, stall : Nat]
      BY <3>2, <3>3, <2>3, <2>6
    <3>5. QED
      BY <3>1, <3>2, <3>3, <3>4, <2>3, <2>6, OptionAssumption DEF WatchdogInv
  <2>11. CASE armed /\ ~reset /\ ~same
    <3>0. ~reset /\ ~same /\ ~again /\ reset = FALSE
      BY <2>4, <2>2, <2>11
    <3>1. /\ watch' = [at |-> npc, fired |-> FALSE, times |-> 1]
          /\ wdt' = [sig |-> npc, stall |-> 0]
      BY <3>0, <2>5, <2>7, <2>11
    <3>2. QED
      BY <3>1, <2>2, <2>11, OptionAssumption DEF WatchdogInv
  <2>12. QED
    BY <2>2, <2>8, <2>9, <2>10, <2>11
<1>4. pc' \in Addr
  BY <1>1, MemAssumption DEF Addr
<1>5. pipe' \in Addr \cup {NoPrefetch} /\ PrefetchIsCurrent'
  <2> HIDE DEF armed, same, reset
  <2>1. CASE flush \/ reset
    BY <1>1, <2>1 DEF NextPipe, PrefetchIsCurrent
  <2>2. CASE ~flush /\ ~reset
    <3>1. pc' = Succ(pc) /\ pipe' = Prefetch
      BY <1>1, <2>2 DEF NextPipe
    <3>2. QED
      BY <3>1, SuccAddr, <1>4 DEF Prefetch, PrefetchIsCurrent, CoreOK
  <2>3. QED
    BY <2>1, <2>2
<1>6. QED
  BY <1>1, <1>2, <1>3, <1>4, <1>5

\* An instruction that stays at its level and does not end a wait.
LEMMA SameLevelOK ==
  ASSUME CoreOK, ~halted, ~waiting, NEW c \in CsrFile, NEW g \in GpioType,
         c.PRIV = priv, c.MSTATUS.MPP = 3 \/ priv # 3,
         priv # PRIV_MACHINE => KeepsConfig(c) /\ KeepsMFrame(c),
         NEW npc \in Addr, NEW flush \in BOOLEAN, NEW halt \in BOOLEAN, NEW wrote \in BOOLEAN,
         ~flush => npc = Succ(pc), Finish(npc, flush, halt, wrote),
         csr' = c, gpio' = g, priv' = priv, waiting' \in BOOLEAN,
         waiting' => ~halt /\ priv # PRIV_USER
  PROVE  CoreOK' /\ StepOK
<1>1. /\ pc' \in Addr /\ pipe' \in Addr \cup {NoPrefetch} /\ halted' = halt
      /\ cycles' \in 0 .. Horizon /\ wdt' \in [sig : Addr \cup {NoSig}, stall : Nat]
      /\ PrefetchIsCurrent' /\ WatchdogInv'
  BY FinishOK
<1>2. priv' \in Level /\ PrivMirrored' /\ UnnamedLevelIsClosed' /\ WaiterIsPrivileged'
  BY <1>1 DEF CoreOK, PrivMirrored, UnnamedLevelIsClosed, WaiterIsPrivileged
<1>3. CoreOK'
  BY <1>1, <1>2 DEF CoreOK
<1>4. ~(priv' < priv)
  BY DEF CoreOK, Level
<1>5. QED
  BY <1>3, <1>4 DEF StepOK, KeepsConfig, KeepsMFrame, MachineConfig, MFrame

LEMMA RetireOK ==
  ASSUME CoreOK, ~halted, ~waiting, NEW c, NEW g, Polled(c, g),
         NEW npc \in Addr, NEW flush \in BOOLEAN, NEW wrote \in BOOLEAN,
         ~flush => npc = Succ(pc), Retire(c, g, npc, flush, wrote)
  PROVE  CoreOK' /\ StepOK
<1>1. c \in CsrFile /\ g \in GpioType /\ c.PRIV = priv /\ KeepsConfig(c) /\ KeepsMFrame(c)
  BY DEF Polled
<1>2. c.MSTATUS.MPP = 3 \/ priv # 3
  BY DEF Polled, CoreOK, UnnamedLevelIsClosed
<1>3. /\ Finish(npc, flush, FALSE, wrote) /\ csr' = c /\ gpio' = g /\ priv' = priv
      /\ waiting' = FALSE
  BY DEF Retire, CoreOK
<1>4. QED
  BY <1>1, <1>2, <1>3, SameLevelOK

\* What entering a handler does to the control registers.
LEMMA EnterMFrame ==
  ASSUME NEW c, NEW g, Polled(c, g), NEW cause, NEW epc, priv \in Level,
         csr' = EnterM(c, cause, epc), priv' = PRIV_MACHINE
  PROVE  /\ EnteredM /\ csr'.MEPC = epc /\ csr'.PRIV = PRIV_MACHINE
         /\ MachineConfig' = MachineConfig /\ SFrame' = SFrame
<1>1. c \in CsrFile /\ c.MSTATUS = csr.MSTATUS /\ c.MSTATUS \in Mstatus
  BY DEF Polled, CsrFile
<1>2. csr' = [c EXCEPT !.MEPC = epc, !.MCAUSE = cause, !.PRIV = PRIV_MACHINE,
                !.MSTATUS = [c.MSTATUS EXCEPT !.MPP = priv, !.MPIE = c.MSTATUS.MIE,
                                              !.MIE = FALSE]]
  BY DEF EnterM
<1>3. /\ csr'.MSTATUS = [c.MSTATUS EXCEPT !.MPP = priv, !.MPIE = c.MSTATUS.MIE, !.MIE = FALSE]
      /\ csr'.MEPC = epc /\ csr'.PRIV = PRIV_MACHINE
      /\ csr'.MTVEC = c.MTVEC /\ csr'.MIE = c.MIE /\ csr'.MTIMECMP = c.MTIMECMP
      /\ csr'.MIDELEG = c.MIDELEG /\ csr'.MEDELEG = c.MEDELEG
      /\ csr'.SEPC = c.SEPC /\ csr'.SCAUSE = c.SCAUSE
  BY <1>1, <1>2 DEF CsrFile
<1>4. /\ csr'.MSTATUS.MPP = priv /\ csr'.MSTATUS.MPIE = c.MSTATUS.MIE /\ ~csr'.MSTATUS.MIE
      /\ csr'.MSTATUS.SPP = c.MSTATUS.SPP /\ csr'.MSTATUS.SPIE = c.MSTATUS.SPIE
      /\ csr'.MSTATUS.SIE = c.MSTATUS.SIE
  BY <1>1, <1>3 DEF Mstatus
<1>5. QED
  BY <1>1, <1>3, <1>4 DEF EnteredM, Polled, KeepsConfig, KeepsSFrame, MachineConfig, SFrame

LEMMA EnterSFrame ==
  ASSUME NEW c, NEW g, Polled(c, g), NEW cause, NEW epc, priv \in Level, c.STVEC # 0,
         csr' = EnterS(c, cause, epc), priv' = PRIV_SUPERVISOR
  PROVE  /\ EnteredS /\ csr'.SEPC = epc /\ csr'.PRIV = PRIV_SUPERVISOR
         /\ MachineConfig' = MachineConfig /\ MFrame' = MFrame
<1>1. c \in CsrFile /\ c.MSTATUS = csr.MSTATUS /\ c.MSTATUS \in Mstatus
  BY DEF Polled, CsrFile
<1>2. csr' = [c EXCEPT !.SEPC = epc, !.SCAUSE = cause, !.PRIV = PRIV_SUPERVISOR,
                !.MSTATUS = [c.MSTATUS EXCEPT !.SPP = (priv = PRIV_SUPERVISOR),
                                              !.SPIE = c.MSTATUS.SIE, !.SIE = FALSE]]
  BY DEF EnterS
<1>3. /\ csr'.MSTATUS = [c.MSTATUS EXCEPT !.SPP = (priv = PRIV_SUPERVISOR),
                                          !.SPIE = c.MSTATUS.SIE, !.SIE = FALSE]
      /\ csr'.SEPC = epc /\ csr'.PRIV = PRIV_SUPERVISOR
      /\ csr'.MTVEC = c.MTVEC /\ csr'.MIE = c.MIE /\ csr'.MTIMECMP = c.MTIMECMP
      /\ csr'.MIDELEG = c.MIDELEG /\ csr'.MEDELEG = c.MEDELEG
      /\ csr'.MEPC = c.MEPC /\ csr'.MCAUSE = c.MCAUSE
  BY <1>1, <1>2 DEF CsrFile
<1>4. /\ csr'.MSTATUS.SPP = (priv = PRIV_SUPERVISOR) /\ csr'.MSTATUS.SPIE = c.MSTATUS.SIE
      /\ ~csr'.MSTATUS.SIE
      /\ csr'.MSTATUS.MPP = c.MSTATUS.MPP /\ csr'.MSTATUS.MPIE = c.MSTATUS.MPIE
      /\ csr'.MSTATUS.MIE = c.MSTATUS.MIE
  BY <1>1, <1>3 DEF Mstatus
<1>5. QED
  BY <1>1, <1>3, <1>4 DEF EnteredS, Polled, KeepsConfig, KeepsMFrame, MachineConfig, MFrame

-----------------------------------------------------------------------------
(* Traps and returns.                                                      *)

LEMMA TrapToOK ==
  ASSUME CoreOK, ~halted, ~waiting, NEW c, NEW g, Polled(c, g), NEW cause \in Cause,
         NEW wrote \in BOOLEAN, TrapTo(cause, c, wrote), gpio' = g, UNCHANGED waiting
  PROVE  CoreOK' /\ StepOK
<1>1. c \in CsrFile /\ g \in GpioType /\ priv \in Level /\ pc \in Addr
  BY DEF Polled, CoreOK
<1>2. Succ(pc) \in Addr /\ c.STVEC \in CsrAddr /\ c.MTVEC \in CsrAddr
  BY <1>1, SuccAddr DEF CsrFile
<1>3. waiting' = FALSE
  BY DEF CoreOK
<1>4. CASE Delegated(cause)
  <2>1. /\ csr' = EnterS(c, cause, Succ(pc)) /\ priv' = PRIV_SUPERVISOR
        /\ \E vector \in Addr : Finish(vector, TRUE, FALSE, wrote)
    BY <1>2, <1>4, CutAddr DEF TrapTo
  <2>2. c.STVEC # 0
    BY <1>4 DEF Delegated, Polled
  <2>3. csr' \in CsrFile
    BY <2>1, <1>1, <1>2, EnterSOK
  <2>4. /\ EnteredS /\ csr'.PRIV = PRIV_SUPERVISOR
        /\ MachineConfig' = MachineConfig /\ MFrame' = MFrame
    BY <2>1, <2>2, <1>1, EnterSFrame
  <2>5. /\ pc' \in Addr /\ pipe' \in Addr \cup {NoPrefetch} /\ halted' = FALSE
        /\ cycles' \in 0 .. Horizon /\ wdt' \in [sig : Addr \cup {NoSig}, stall : Nat]
        /\ PrefetchIsCurrent' /\ WatchdogInv'
    BY <2>1, <1>2, FinishOK
  <2>6. priv' \in Level /\ PrivMirrored' /\ WaiterIsPrivileged' /\ UnnamedLevelIsClosed'
    BY <2>1, <2>4, <1>3
       DEF PrivMirrored, WaiterIsPrivileged, UnnamedLevelIsClosed, PRIV_SUPERVISOR, Level
  <2>7. CoreOK'
    BY <2>3, <2>5, <2>6, <1>1, <1>3 DEF CoreOK
  <2>8. QED
    BY <2>4, <2>7, <1>3 DEF StepOK
<1>5. CASE ~Delegated(cause)
  <2>1. csr' = EnterM(c, cause, Succ(pc)) /\ priv' = PRIV_MACHINE
    BY <1>5 DEF TrapTo
  <2>2. \E npc \in Addr, halt \in BOOLEAN : Finish(npc, TRUE, halt, wrote)
    BY <1>5, <1>2, CutAddr DEF TrapTo
  <2>3. csr' \in CsrFile
    BY <2>1, <1>1, <1>2, EnterMOK
  <2>4. /\ EnteredM /\ csr'.PRIV = PRIV_MACHINE
        /\ MachineConfig' = MachineConfig /\ SFrame' = SFrame
    BY <2>1, <1>1, EnterMFrame
  <2>5. /\ pc' \in Addr /\ pipe' \in Addr \cup {NoPrefetch} /\ halted' \in BOOLEAN
        /\ cycles' \in 0 .. Horizon /\ wdt' \in [sig : Addr \cup {NoSig}, stall : Nat]
        /\ PrefetchIsCurrent' /\ WatchdogInv'
    BY <2>2, FinishOK
  <2>6. CoreOK'
    BY <2>1, <2>3, <2>4, <2>5, <1>1, <1>3
       DEF CoreOK, PrivMirrored, WaiterIsPrivileged, UnnamedLevelIsClosed, PRIV_MACHINE, Level
  <2>7. QED
    BY <2>4, <2>6, <1>3 DEF StepOK
<1>6. QED
  BY <1>4, <1>5

LEMMA TrapOK ==
  ASSUME CoreOK, ~halted, ~waiting, NEW c, NEW g, Polled(c, g), NEW cause \in Cause,
         Trap(cause, c, g)
  PROVE  CoreOK' /\ StepOK
BY TrapToOK DEF Trap

LEMMA EretOK ==
  ASSUME CoreOK, ~halted, ~waiting, NEW c, NEW g, Polled(c, g), NEW i, Eret(i, c, g)
  PROVE  CoreOK' /\ StepOK
<1>1. /\ c \in CsrFile /\ g \in GpioType /\ priv \in Level /\ c.MSTATUS \in Mstatus
      /\ c.SEPC \in CsrAddr /\ c.MEPC \in CsrAddr
  BY DEF Polled, CoreOK, CsrFile
<1>2. CASE priv = PRIV_USER
  <2>1. Trap(CAUSE_ERET_PRIV, c, g)
    BY <1>2 DEF Eret, PRIV_USER, PRIV_SUPERVISOR
  <2>2. QED
    BY <2>1, CauseFacts, TrapOK
<1>3. CASE priv = PRIV_SUPERVISOR
  <2>0. Return(PRIV_SUPERVISOR, SretCsr(c), c.SEPC, g)
    BY <1>3 DEF Eret, PRIV_USER, PRIV_SUPERVISOR
  <2>1. /\ csr' = SretCsr(c) /\ priv' = csr'.PRIV /\ gpio' = g /\ waiting' = FALSE
        /\ \E npc \in Addr : Finish(npc, TRUE, FALSE, FALSE)
    BY <1>1, <2>0, CutAddr DEF Return, CoreOK
  <2>2. csr' \in CsrFile
    BY <2>1, <1>1, SretOK
  <2>3. /\ csr'.PRIV \in {PRIV_SUPERVISOR, PRIV_USER}
        /\ csr'.MTVEC = c.MTVEC /\ csr'.MIE = c.MIE /\ csr'.MTIMECMP = c.MTIMECMP
        /\ csr'.MIDELEG = c.MIDELEG /\ csr'.MEDELEG = c.MEDELEG
        /\ csr'.MEPC = c.MEPC /\ csr'.MCAUSE = c.MCAUSE
        /\ csr'.MSTATUS = [c.MSTATUS EXCEPT !.SIE = c.MSTATUS.SPIE, !.SPIE = TRUE, !.SPP = FALSE]
    BY <2>1, <1>1 DEF SretCsr, CsrFile
  <2>4. /\ csr'.MSTATUS.MPP = c.MSTATUS.MPP /\ csr'.MSTATUS.MPIE = c.MSTATUS.MPIE
        /\ csr'.MSTATUS.MIE = c.MSTATUS.MIE
    BY <2>3, <1>1 DEF Mstatus
  <2>5. MachineConfig' = MachineConfig /\ MFrame' = MFrame
    BY <2>3, <2>4 DEF Polled, KeepsConfig, KeepsMFrame, MachineConfig, MFrame
  <2>6. /\ pc' \in Addr /\ pipe' \in Addr \cup {NoPrefetch} /\ halted' = FALSE
        /\ cycles' \in 0 .. Horizon /\ wdt' \in [sig : Addr \cup {NoSig}, stall : Nat]
        /\ PrefetchIsCurrent' /\ WatchdogInv'
    BY <2>1, <1>1, FinishOK
  <2>7. CoreOK'
    <3>1. priv' \in Level /\ PrivMirrored' /\ WaiterIsPrivileged' /\ UnnamedLevelIsClosed'
      BY <2>1, <2>3 DEF PrivMirrored, WaiterIsPrivileged, UnnamedLevelIsClosed,
         PRIV_SUPERVISOR, PRIV_USER, Level
    <3>2. QED
      BY <2>1, <2>2, <2>6, <3>1, <1>1 DEF CoreOK
  <2>8. ~(priv' < priv)
    BY <2>1, <2>3, <1>3 DEF PRIV_SUPERVISOR, PRIV_USER
  <2>9. QED
    BY <2>1, <2>5, <2>7, <2>8 DEF StepOK
<1>4. CASE priv \notin {PRIV_USER, PRIV_SUPERVISOR}
  <2>1. /\ csr' = MretCsr(c) /\ priv' = csr'.PRIV /\ gpio' = g /\ waiting' = FALSE
        /\ \E npc \in Addr : Finish(npc, TRUE, FALSE, FALSE)
    BY <1>1, <1>4, CutAddr DEF Eret, Return, CoreOK
  <2>2. csr' \in CsrFile
    BY <2>1, <1>1, MretOK
  <2>3. /\ csr'.PRIV = c.MSTATUS.MPP
        /\ csr'.MTVEC = c.MTVEC /\ csr'.MIE = c.MIE /\ csr'.MTIMECMP = c.MTIMECMP
        /\ csr'.MIDELEG = c.MIDELEG /\ csr'.MEDELEG = c.MEDELEG
        /\ csr'.SEPC = c.SEPC /\ csr'.SCAUSE = c.SCAUSE
        /\ csr'.MSTATUS = [c.MSTATUS EXCEPT !.MIE = c.MSTATUS.MPIE]
    BY <2>1, <1>1 DEF MretCsr, CsrFile
  <2>4. /\ csr'.MSTATUS.MPP = c.MSTATUS.MPP /\ csr'.MSTATUS.SPP = c.MSTATUS.SPP
        /\ csr'.MSTATUS.SPIE = c.MSTATUS.SPIE /\ csr'.MSTATUS.SIE = c.MSTATUS.SIE
    BY <2>3, <1>1 DEF Mstatus
  <2>5. MachineConfig' = MachineConfig /\ SFrame' = SFrame
    BY <2>3, <2>4 DEF Polled, KeepsConfig, KeepsSFrame, MachineConfig, SFrame
  <2>6. /\ pc' \in Addr /\ pipe' \in Addr \cup {NoPrefetch} /\ halted' = FALSE
        /\ cycles' \in 0 .. Horizon /\ wdt' \in [sig : Addr \cup {NoSig}, stall : Nat]
        /\ PrefetchIsCurrent' /\ WatchdogInv'
    BY <2>1, <1>1, FinishOK
  <2>7. priv' \in Level
    BY <2>1, <2>3, <1>1 DEF Mstatus
  <2>8. CoreOK'
    BY <2>1, <2>2, <2>3, <2>4, <2>6, <2>7, <1>1
       DEF CoreOK, PrivMirrored, WaiterIsPrivileged, UnnamedLevelIsClosed
  <2>9. ~(priv' < priv)
    \* Level 3 cannot be left: there MPP is 3.
    <3>1. priv = 3 => priv' = 3
      BY <2>1, <2>3 DEF CoreOK, UnnamedLevelIsClosed, Polled
    <3>2. QED
      BY <3>1, <2>7, <1>1, <1>4 DEF Level, PRIV_USER, PRIV_SUPERVISOR
  <2>10. QED
    BY <2>1, <2>5, <2>8, <2>9 DEF StepOK
<1>5. QED
  BY <1>2, <1>3, <1>4

-----------------------------------------------------------------------------
(* Instructions that write control registers or ports.                     *)

\* A port write keeps every control register but MIP.
LEMMA OutEffectOK ==
  ASSUME NEW c, NEW g, Polled(c, g), NEW i \in InsnType, i.op = "OUT"
  PROVE  Polled(OutEffect(i, c, g)[1], OutEffect(i, c, g)[2])
<1>1. i.port \in GpioPort /\ i.pins \in SUBSET Pins
  BY DEF InsnType, PlainOp
<1>2. c \in CsrFile /\ g \in GpioType
  BY DEF Polled
<1>3. CASE i.port = "OTHER"
  BY <1>3 DEF OutEffect
<1>4. CASE i.port \in {"GPIO_DIR", "GPIO_INT_EN"}
  <2>1. [g EXCEPT !.dir = i.pins] \in GpioType /\ [g EXCEPT !.inten = i.pins] \in GpioType
    BY <1>1, <1>2 DEF GpioType
  <2>2. OutEffect(i, c, g) \in {<<c, [g EXCEPT !.dir = i.pins]>>,
                                <<c, [g EXCEPT !.inten = i.pins]>>}
    BY <1>4 DEF OutEffect
  <2>3. QED
    BY <2>1, <2>2 DEF Polled
<1>5. CASE i.port = "GPIO_INT_ST"
  <2> DEFINE m == c.MIP \ {"EXT"}
             d == [c EXCEPT !.MIP = m]
             h == [g EXCEPT !.st = {}]
  <2>1. OutEffect(i, c, g) = <<d, h>>
    BY <1>5 DEF OutEffect
  <2>2. h \in GpioType
    BY <1>2 DEF GpioType
  <2>3. m \in SUBSET IrqLine
    BY <1>2 DEF CsrFile
  <2>4. Polled(d, h)
    <3> HIDE DEF m, h
    <3>1. /\ d \in CsrFile /\ d.PRIV = c.PRIV /\ d.MSTATUS = c.MSTATUS /\ d.STVEC = c.STVEC
          /\ d.MTVEC = c.MTVEC /\ d.MIE = c.MIE /\ d.MTIMECMP = c.MTIMECMP
          /\ d.MIDELEG = c.MIDELEG /\ d.MEDELEG = c.MEDELEG /\ d.MEPC = c.MEPC
          /\ d.MCAUSE = c.MCAUSE /\ d.SEPC = c.SEPC /\ d.SCAUSE = c.SCAUSE
          /\ d.SIE = c.SIE
      BY <1>2, <2>3 DEF CsrFile
    <3>2. QED
      BY <2>2, <3>1 DEF Polled, KeepsConfig, KeepsMFrame, KeepsSFrame
  <2>5. QED
    BY <2>1, <2>4
<1>6. QED
  BY <1>1, <1>3, <1>4, <1>5 DEF GpioPort

\* A register write is well typed and leaves csr[PRIV] alone.
LEMMA CsrWriteOK ==
  ASSUME NEW c \in CsrFile, NEW i \in InsnType, i.op = "CSRW", i.csr \notin ReadOnlyCsr
  PROVE  /\ [c EXCEPT ![i.csr] = i.val] \in CsrFile
         /\ [c EXCEPT ![i.csr] = i.val].PRIV = c.PRIV
         /\ i.csr # "MSTATUS" => [c EXCEPT ![i.csr] = i.val].MSTATUS = c.MSTATUS
<1> DEFINE d == [c EXCEPT ![i.csr] = i.val]
<1>1. CASE i.csr = "MEPC" /\ i.val \in CsrAddr
  BY <1>1 DEF CsrFile
<1>2. CASE i.csr = "MTVEC" /\ i.val \in CsrAddr
  BY <1>2 DEF CsrFile
<1>3. CASE i.csr = "SEPC" /\ i.val \in CsrAddr
  BY <1>3 DEF CsrFile
<1>4. CASE i.csr = "STVEC" /\ i.val \in CsrAddr
  BY <1>4 DEF CsrFile
<1>5. CASE i.csr = "MIE" /\ i.val \in SUBSET IrqLine
  BY <1>5 DEF CsrFile
<1>6. CASE i.csr = "MIP" /\ i.val \in SUBSET IrqLine
  BY <1>6 DEF CsrFile
<1>7. CASE i.csr = "MIDELEG" /\ i.val \in SUBSET IrqLine
  BY <1>7 DEF CsrFile
<1>8. CASE i.csr = "SIE" /\ i.val \in SUBSET IrqLine
  BY <1>8 DEF CsrFile
<1>9. CASE i.csr = "MSTATUS" /\ i.val \in Mstatus
  BY <1>9 DEF CsrFile
<1>10. CASE i.csr = "MTIMECMP" /\ i.val \in 0 .. Horizon
  BY <1>10 DEF CsrFile
<1>11. CASE i.csr = "MEDELEG" /\ i.val \in SUBSET (0 .. 15)
  BY <1>11 DEF CsrFile
<1>12. \/ i.csr \in {"MEPC", "MTVEC", "SEPC", "STVEC"} /\ i.val \in CsrAddr
       \/ i.csr \in {"MIE", "MIP", "MIDELEG", "SIE"} /\ i.val \in SUBSET IrqLine
       \/ i.csr = "MSTATUS" /\ i.val \in Mstatus
       \/ i.csr = "MTIMECMP" /\ i.val \in 0 .. Horizon
       \/ i.csr = "MEDELEG" /\ i.val \in SUBSET (0 .. 15)
  BY DEF InsnType, PlainOp
<1>13. QED
  BY <1>1, <1>2, <1>3, <1>4, <1>5, <1>6, <1>7, <1>8, <1>9, <1>10, <1>11, <1>12

\* Below Machine mode only the Supervisor's registers can be written.
LEMMA CsrWriteBelowM ==
  ASSUME NEW c \in CsrFile, NEW i \in InsnType, i.op = "CSRW", i.csr \notin ReadOnlyCsr,
         ~Denied(i.csr), priv # PRIV_MACHINE
  PROVE  LET d == [c EXCEPT ![i.csr] = i.val]
         IN  /\ d.MTVEC = c.MTVEC /\ d.MIE = c.MIE /\ d.MTIMECMP = c.MTIMECMP
             /\ d.MIDELEG = c.MIDELEG /\ d.MEDELEG = c.MEDELEG
             /\ d.MEPC = c.MEPC /\ d.MCAUSE = c.MCAUSE /\ d.MSTATUS = c.MSTATUS
<1>1. i.csr \in {"SEPC", "STVEC", "SIE"}
  BY DEF InsnType, PlainOp, Denied, MachineCsr, ReadOnlyCsr
<1>2. QED
  BY <1>1 DEF CsrFile

LEMMA CsrwOK ==
  ASSUME CoreOK, ~halted, ~waiting, NEW c, NEW g, Polled(c, g), NEW i \in InsnType,
         Csrw(i, c, g)
  PROVE  CoreOK' /\ StepOK
<1>0. i.op = "CSRW" /\ Succ(pc) \in Addr /\ c \in CsrFile
  BY SuccAddr DEF Csrw, CoreOK, Polled
<1>1. CASE Denied(i.csr)
  <2>1. Trap(CAUSE_CSR_PRIV, c, g)
    BY <1>1 DEF Csrw
  <2>2. QED
    BY <2>1, CauseFacts, TrapOK
<1>2. CASE ~Denied(i.csr) /\ i.csr \in ReadOnlyCsr
  <2>1. Retire(c, g, Succ(pc), FALSE, FALSE)
    BY <1>2 DEF Csrw
  <2>2. QED
    BY <2>1, <1>0, RetireOK
<1>3. CASE ~Denied(i.csr) /\ i.csr \notin ReadOnlyCsr
  <2> DEFINE d == [c EXCEPT ![i.csr] = i.val]
  <2>1. /\ Finish(Succ(pc), FALSE, FALSE, FALSE) /\ csr' = d /\ gpio' = g
        /\ priv' = priv /\ waiting' = FALSE
    BY <1>3 DEF Csrw, Retire, CoreOK
  <2>2. /\ d \in CsrFile /\ d.PRIV = c.PRIV
        /\ i.csr # "MSTATUS" => d.MSTATUS = c.MSTATUS
    BY <1>0, <1>3, CsrWriteOK
  <2>3. priv # PRIV_MACHINE => /\ KeepsConfig(d) /\ KeepsMFrame(d)
                               /\ d.MSTATUS = c.MSTATUS
    <3> HIDE DEF d
    <3>1. SUFFICES ASSUME priv # PRIV_MACHINE
                   PROVE  KeepsConfig(d) /\ KeepsMFrame(d) /\ d.MSTATUS = c.MSTATUS
      OBVIOUS
    <3>2. /\ d.MTVEC = c.MTVEC /\ d.MIE = c.MIE /\ d.MTIMECMP = c.MTIMECMP
          /\ d.MIDELEG = c.MIDELEG /\ d.MEDELEG = c.MEDELEG
          /\ d.MEPC = c.MEPC /\ d.MCAUSE = c.MCAUSE /\ d.MSTATUS = c.MSTATUS
      BY <3>1, <1>0, <1>3, CsrWriteBelowM DEF d
    <3>3. QED
      BY <3>2 DEF Polled, KeepsConfig, KeepsMFrame
  <2>4. d.MSTATUS.MPP = 3 \/ priv # 3
    BY <2>3 DEF Polled, CoreOK, UnnamedLevelIsClosed, PRIV_MACHINE
  <2> HIDE DEF d
  <2>5. d.PRIV = priv /\ g \in GpioType
    BY <2>2 DEF Polled
  <2>6. QED
    BY <2>1, <2>2, <2>3, <2>4, <2>5, <1>0, SameLevelOK
<1>4. QED
  BY <1>1, <1>2, <1>3

-----------------------------------------------------------------------------
(* One instruction.                                                        *)

LEMMA ExecuteOK ==
  ASSUME CoreOK, ~halted, ~waiting, NEW c, NEW g, Polled(c, g), NEW i \in InsnType,
         Execute(i, c, g)
  PROVE  CoreOK' /\ StepOK
<1>0. /\ pc \in Addr /\ Succ(pc) \in Addr
      /\ {CAUSE_ILL_INSN, CAUSE_ECALL_U, CAUSE_ECALL_S, CAUSE_CSR_PRIV, CAUSE_IO_PRIV,
          CAUSE_DIV_ZERO} \subseteq Cause
  BY SuccAddr, CauseFacts DEF CoreOK
<1>1. CASE Nop(i, c, g)
  BY <1>0, <1>1, RetireOK DEF Nop
<1>2. CASE Alu(i, c, g)
  BY <1>0, <1>2, RetireOK DEF Alu
<1>3. CASE Div(i, c, g)
  BY <1>0, <1>3, RetireOK, TrapOK DEF Div
<1>4. CASE Halt(i, c, g)
  <2>1. /\ Finish(Succ(pc), TRUE, TRUE, FALSE) /\ csr' = c /\ gpio' = g
        /\ priv' = priv /\ waiting' = FALSE
    BY <1>4 DEF Halt, CoreOK
  <2>2. /\ c \in CsrFile /\ g \in GpioType /\ c.PRIV = priv
        /\ KeepsConfig(c) /\ KeepsMFrame(c)
        /\ c.MSTATUS.MPP = 3 \/ priv # 3
    BY DEF Polled, CoreOK, UnnamedLevelIsClosed
  <2>3. QED
    BY <2>1, <2>2, <1>0, SameLevelOK
<1>5. CASE Jmp(i, c, g)
  <2>1. i.imm \in Int
    BY <1>5 DEF Jmp, InsnType, PlainOp
  <2>2. QED
    BY <2>1, <1>5, JumpTargetsAddr, RetireOK DEF Jmp
<1>6. CASE Branch(i, c, g)
  <2>1. i.imm \in Int
    BY <1>6 DEF Branch, InsnType, PlainOp
  <2>2. QED
    BY <2>1, <1>0, <1>6, JumpTargetsAddr, RetireOK DEF Branch
<1>7. CASE Call(i, c, g)
  <2>1. i.imm \in Int
    BY <1>7 DEF Call, InsnType, PlainOp
  <2>2. QED
    BY <2>1, <1>7, JumpTargetsAddr, RetireOK DEF Call
<1>8. CASE Ret(i, c, g)
  BY <1>8, RetireOK DEF Ret
<1>9. CASE Out(i, c, g)
  <2>1. CASE priv = PRIV_USER
    BY <2>1, <1>0, <1>9, TrapOK DEF Out
  <2>2. CASE priv # PRIV_USER
    <3>1. Retire(OutEffect(i, c, g)[1], OutEffect(i, c, g)[2], Succ(pc), FALSE, FALSE)
      BY <2>2, <1>9 DEF Out
    <3>2. Polled(OutEffect(i, c, g)[1], OutEffect(i, c, g)[2])
      BY <1>9, OutEffectOK DEF Out
    <3>3. QED
      BY <3>1, <3>2, <1>0, RetireOK
  <2>3. QED
    BY <2>1, <2>2
<1>10. CASE In(i, c, g)
  BY <1>0, <1>10, RetireOK, TrapOK DEF In
<1>11. CASE Ecall(i, c, g)
  BY <1>0, <1>11, RetireOK, TrapOK DEF Ecall
<1>12. CASE Eret(i, c, g)
  BY <1>12, EretOK
<1>13. CASE Csrw(i, c, g)
  BY <1>13, CsrwOK
<1>14. CASE Csrr(i, c, g)
  BY <1>0, <1>14, RetireOK, TrapToOK DEF Csrr
<1>15. CASE PrivOp(i, c, g)
  BY <1>0, <1>15, RetireOK, TrapOK DEF PrivOp
<1>16. CASE Wfi(i, c, g)
  <2>1. CASE priv = PRIV_USER
    BY <2>1, <1>0, <1>16, TrapOK DEF Wfi
  <2>2. CASE priv # PRIV_USER
    <3>1. /\ Finish(Succ(pc), FALSE, FALSE, FALSE) /\ csr' = c /\ gpio' = g
          /\ priv' = priv /\ waiting' = TRUE
      BY <2>2, <1>16 DEF Wfi
    <3>2. /\ c \in CsrFile /\ g \in GpioType /\ c.PRIV = priv
          /\ KeepsConfig(c) /\ KeepsMFrame(c)
          /\ c.MSTATUS.MPP = 3 \/ priv # 3
      BY DEF Polled, CoreOK, UnnamedLevelIsClosed
    <3>3. QED
      BY <3>1, <3>2, <2>2, <1>0, SameLevelOK
  <2>3. QED
    BY <2>1, <2>2
<1>17. CASE Illegal(i, c, g)
  BY <1>0, <1>17, TrapOK DEF Illegal
<1>18. QED
  BY <1>1, <1>2, <1>3, <1>4, <1>5, <1>6, <1>7, <1>8, <1>9, <1>10, <1>11, <1>12,
     <1>13, <1>14, <1>15, <1>16, <1>17 DEF Execute

-----------------------------------------------------------------------------
(* Interrupts and waiting.                                                 *)

\* What an interrupt or a wait leaves in order.
LEMMA IrqFrameOK ==
  ASSUME CoreOK, NEW g \in GpioType, IrqFrame(g)
  PROVE  /\ cycles' \in 0 .. Horizon /\ gpio' \in GpioType /\ halted' = halted
         /\ wdt' = wdt /\ WatchdogInv'
BY BoundAssumption DEF IrqFrame, Tick, CoreOK, WatchdogInv

LEMMA CauseOfIrq == ASSUME NEW pend PROVE IrqCause(pend) \in Cause
BY CauseFacts DEF IrqCause

LEMMA TakeSOK ==
  ASSUME CoreOK, ~halted, NEW c, NEW g, Polled(c, g), TakeS(c, g)
  PROVE  CoreOK' /\ StepOK
<1>1. /\ c \in CsrFile /\ g \in GpioType /\ priv \in Level /\ pc \in Addr
      /\ c.STVEC \in CsrAddr /\ c.STVEC = csr.STVEC
  BY DEF Polled, CoreOK, CsrFile
<1>2. /\ csr' = EnterS(c, IrqCause(PendS(c)), pc) /\ priv' = PRIV_SUPERVISOR
      /\ pc' \in Cut(c.STVEC) /\ pc' \in Addr /\ c.STVEC # 0 /\ pipe' = NoPrefetch
      /\ waiting' = FALSE /\ IrqFrame(g)
  BY <1>1, CutAddr DEF TakeS, Deliver
<1>3. csr' \in CsrFile
  BY <1>1, <1>2, CauseOfIrq, EnterSOK
<1>4. /\ EnteredS /\ csr'.SEPC = pc /\ csr'.PRIV = PRIV_SUPERVISOR
      /\ MachineConfig' = MachineConfig /\ MFrame' = MFrame
  BY <1>1, <1>2, EnterSFrame
<1>5. /\ cycles' \in 0 .. Horizon /\ gpio' \in GpioType /\ halted' = halted
      /\ wdt' = wdt /\ WatchdogInv'
  BY <1>1, <1>2, IrqFrameOK
<1>6. /\ priv' \in Level /\ PrivMirrored' /\ WaiterIsPrivileged' /\ UnnamedLevelIsClosed'
      /\ PrefetchIsCurrent'
  BY <1>2, <1>4 DEF PrivMirrored, WaiterIsPrivileged, UnnamedLevelIsClosed,
     PrefetchIsCurrent, PRIV_SUPERVISOR, Level
<1>7. CoreOK'
  BY <1>1, <1>2, <1>3, <1>5, <1>6 DEF CoreOK
<1>8. QED
  BY <1>1, <1>2, <1>4, <1>7 DEF StepOK

LEMMA TakeMOK ==
  ASSUME CoreOK, ~halted, NEW c, NEW g, Polled(c, g), TakeM(c, g)
  PROVE  CoreOK' /\ StepOK
<1>1. /\ c \in CsrFile /\ g \in GpioType /\ priv \in Level /\ pc \in Addr
      /\ c.MTVEC \in CsrAddr /\ c.MTVEC = csr.MTVEC
  BY DEF Polled, CoreOK, CsrFile, KeepsConfig, MachineConfig
<1>2. /\ csr' = EnterM(c, IrqCause(PendM(c)), pc) /\ priv' = PRIV_MACHINE
      /\ pc' \in Cut(c.MTVEC) /\ pc' \in Addr /\ c.MTVEC # 0 /\ pipe' = NoPrefetch
      /\ waiting' = FALSE /\ IrqFrame(g)
  BY <1>1, CutAddr DEF TakeM, Deliver
<1>3. csr' \in CsrFile
  BY <1>1, <1>2, CauseOfIrq, EnterMOK
<1>4. /\ EnteredM /\ csr'.MEPC = pc /\ csr'.PRIV = PRIV_MACHINE
      /\ MachineConfig' = MachineConfig /\ SFrame' = SFrame
  BY <1>1, <1>2, EnterMFrame
<1>5. /\ cycles' \in 0 .. Horizon /\ gpio' \in GpioType /\ halted' = halted
      /\ wdt' = wdt /\ WatchdogInv'
  BY <1>1, <1>2, IrqFrameOK
<1>6. /\ priv' \in Level /\ PrivMirrored' /\ WaiterIsPrivileged' /\ UnnamedLevelIsClosed'
      /\ PrefetchIsCurrent'
  BY <1>2, <1>4 DEF PrivMirrored, WaiterIsPrivileged, UnnamedLevelIsClosed,
     PrefetchIsCurrent, PRIV_MACHINE, Level
<1>7. CoreOK'
  BY <1>1, <1>2, <1>3, <1>5, <1>6 DEF CoreOK
<1>8. QED
  BY <1>1, <1>2, <1>4, <1>7 DEF StepOK

LEMMA DropOK ==
  ASSUME CoreOK, ~halted, NEW c, NEW g, Polled(c, g), NEW dropped, Drop(c, g, dropped)
  PROVE  CoreOK' /\ StepOK
<1> DEFINE m == c.MIP \ dropped
<1>1. c \in CsrFile /\ g \in GpioType /\ m \in SUBSET IrqLine
  BY DEF Polled, CsrFile
<1>2. csr' = [c EXCEPT !.MIP = m] /\ IrqFrame(g) /\ UNCHANGED <<priv, pc, pipe, waiting>>
  BY DEF Drop
<1> HIDE DEF m
<1>3. /\ csr' \in CsrFile /\ csr'.PRIV = c.PRIV /\ csr'.MSTATUS = c.MSTATUS
      /\ csr'.MTVEC = c.MTVEC /\ csr'.MIE = c.MIE /\ csr'.MTIMECMP = c.MTIMECMP
      /\ csr'.MIDELEG = c.MIDELEG /\ csr'.MEDELEG = c.MEDELEG
      /\ csr'.MEPC = c.MEPC /\ csr'.MCAUSE = c.MCAUSE
  BY <1>1, <1>2 DEF CsrFile
<1>4. MachineConfig' = MachineConfig /\ MFrame' = MFrame
  BY <1>3 DEF Polled, KeepsConfig, KeepsMFrame, MachineConfig, MFrame
<1>5. /\ cycles' \in 0 .. Horizon /\ gpio' \in GpioType /\ halted' = halted
      /\ wdt' = wdt /\ WatchdogInv'
  BY <1>1, <1>2, IrqFrameOK
<1>6. /\ PrivMirrored' /\ WaiterIsPrivileged' /\ UnnamedLevelIsClosed' /\ PrefetchIsCurrent'
  BY <1>2, <1>3, <1>5 DEF Polled, CoreOK, PrivMirrored, WaiterIsPrivileged,
     UnnamedLevelIsClosed, PrefetchIsCurrent
<1>7. CoreOK'
  BY <1>2, <1>3, <1>5, <1>6 DEF CoreOK
<1>8. ~(priv' < priv)
  BY <1>2 DEF CoreOK, Level
<1>9. QED
  BY <1>2, <1>4, <1>7, <1>8 DEF StepOK

LEMMA WaitTickOK ==
  ASSUME CoreOK, ~halted, NEW c, NEW g, Polled(c, g), WaitTick(c, g)
  PROVE  CoreOK' /\ StepOK
<1>1. /\ cycles' = Tick(1) /\ csr' = c /\ gpio' = g
      /\ UNCHANGED <<pc, pipe, halted, waiting, priv, wdt, watch>>
  BY DEF WaitTick
<1>2. cycles' \in 0 .. Horizon
  BY <1>1, BoundAssumption DEF Tick, CoreOK
<1>3. /\ PrivMirrored' /\ WaiterIsPrivileged' /\ UnnamedLevelIsClosed' /\ PrefetchIsCurrent'
      /\ WatchdogInv'
  BY <1>1 DEF Polled, CoreOK, PrivMirrored, WaiterIsPrivileged,
     UnnamedLevelIsClosed, PrefetchIsCurrent, WatchdogInv
<1>4. CoreOK'
  BY <1>1, <1>2, <1>3 DEF CoreOK, Polled
<1>5. MachineConfig' = MachineConfig /\ MFrame' = MFrame
  BY <1>1 DEF Polled, KeepsConfig, KeepsMFrame, MachineConfig, MFrame
<1>6. ~(priv' < priv)
  BY <1>1 DEF CoreOK, Level
<1>7. QED
  BY <1>1, <1>4, <1>5, <1>6 DEF StepOK

-----------------------------------------------------------------------------
(* A step, and the theorems.                                               *)

LEMMA FetchedInsn == ASSUME CoreOK PROVE Fetched \subseteq Insn
BY MemAssumption, CodeAssumption DEF Fetched, CoreOK, Addr, NoPrefetch

LEMMA CpuStepOK ==
  ASSUME CoreOK, ~halted, NEW c, NEW g, Polled(c, g), CpuStep(c, g)
  PROVE  CoreOK' /\ StepOK
<1>1. CASE WaitTick(c, g)
  BY <1>1, WaitTickOK
<1>2. CASE TakeS(c, g)
  BY <1>2, TakeSOK
<1>3. CASE DropS(c, g)
  BY <1>3, DropOK DEF DropS
<1>4. CASE TakeM(c, g)
  BY <1>4, TakeMOK
<1>5. CASE DropM(c, g)
  BY <1>5, DropOK DEF DropM
<1>6. CASE Run(c, g)
  <2>1. PICK i \in Fetched : Execute(i, c, g)
    BY <1>6 DEF Run
  <2>2. i \in InsnType
    BY FetchedInsn, InsnAssumption
  <2>3. ~waiting
    BY <1>6 DEF Run
  <2>4. QED
    BY <2>1, <2>2, <2>3, ExecuteOK
<1>7. QED
  BY <1>1, <1>2, <1>3, <1>4, <1>5, <1>6 DEF CpuStep

LEMMA NextOK == ASSUME IInv, Next PROVE IInv' /\ StepOK
<1>1. PICK changed \in SUBSET Pins, ext \in BOOLEAN :
        /\ Poll(changed, ext)
        /\ CpuStep(PolledCsr(changed, ext), PolledGpio(changed))
  BY DEF Next
<1>2. Polled(PolledCsr(changed, ext), PolledGpio(changed)) /\ EnvOK'
  BY <1>1, PollOK
<1>3. CoreOK /\ ~halted
  BY DEF IInv, Next
<1>4. CoreOK' /\ StepOK
  BY <1>1, <1>2, <1>3, CpuStepOK
<1>5. QED
  BY <1>2, <1>4 DEF IInv

LEMMA StutterOK == ASSUME IInv, UNCHANGED vars PROVE IInv' /\ StepOK
<1>1. IInv'
  BY DEF vars, IInv, CoreOK, EnvOK, PrefetchIsCurrent, PrivMirrored, WaiterIsPrivileged,
     UnnamedLevelIsClosed, WatchdogInv
<1>2. ~(priv' < priv)
  BY DEF vars, IInv, CoreOK, Level
<1>3. QED
  BY <1>1, <1>2 DEF vars, StepOK, MachineConfig, MFrame, SFrame

LEMMA InitOK == Init => IInv
<1> SUFFICES ASSUME Init PROVE IInv
  OBVIOUS
<1>1. csr \in CsrFile /\ csr.PRIV = PRIV_MACHINE
  <2>1. csr.MSTATUS \in Mstatus
    BY DEF Init, Mstatus, Level, PRIV_MACHINE
  <2>2. 0 \in CsrAddr /\ 0 \in Cause /\ 0 \in 0 .. Horizon /\ PRIV_MACHINE \in Level
    BY MemAssumption, BoundAssumption DEF Addr, CsrAddr, Cause, Level, PRIV_MACHINE
  <2> DEFINE st == [MIE |-> FALSE, MPIE |-> FALSE, MPP |-> PRIV_MACHINE,
                    SIE |-> FALSE, SPIE |-> FALSE, SPP |-> FALSE]
  <2>3. csr = [PRIV |-> PRIV_MACHINE, MEPC |-> 0, MCAUSE |-> 0, MTVEC |-> 0, MSTATUS |-> st,
               SEPC |-> 0, STVEC |-> 0, MIE |-> {}, MIP |-> {}, MTIMECMP |-> 0,
               MIDELEG |-> {}, MEDELEG |-> {}, SIE |-> {}, SCAUSE |-> 0]
    BY DEF Init
  <2> HIDE DEF st
  <2>4. st \in Mstatus
    BY <2>1, <2>3
  <2>5. QED
    BY <2>2, <2>3, <2>4 DEF CsrFile
<1>2. pc \in Addr /\ cycles \in 0 .. Horizon /\ pinChanges \in 0 .. MaxPinChanges
  BY MemAssumption, BoundAssumption DEF Init, Addr
<1>3. gpio \in GpioType /\ wdt \in [sig : Addr \cup {NoSig}, stall : Nat]
  BY DEF Init, GpioType
<1>4. /\ PrefetchIsCurrent /\ PrivMirrored /\ WaiterIsPrivileged
      /\ UnnamedLevelIsClosed
  BY <1>1 DEF Init, PrefetchIsCurrent, PrivMirrored, WaiterIsPrivileged,
     UnnamedLevelIsClosed, PRIV_MACHINE
<1>8. WatchdogInv
  BY OptionAssumption DEF Init, WatchdogInv
<1>5. pipe = NoPrefetch /\ priv \in Level
  BY DEF Init, PRIV_MACHINE, Level
<1>6. halted \in BOOLEAN /\ waiting \in BOOLEAN /\ extArmed \in BOOLEAN
  BY OptionAssumption, Zenon DEF Init
<1>7. QED
  BY <1>1, <1>2, <1>3, <1>4, <1>5, <1>6, <1>8 DEF IInv, CoreOK, EnvOK

\* The inductive invariant holds throughout, whatever program memory holds and
\* whenever interrupts and pin changes arrive.
THEOREM Invariance == Spec => []IInv
<1>1. IInv /\ [Next]_vars => IInv'
  BY NextOK, StutterOK
<1>2. QED
  BY InitOK, <1>1, PTL DEF Spec

\* The pipeline never executes a word other than the one pc names: every move of
\* pc by a branch, trap, return, interrupt or watchdog reset drops the prefetch.
THEOREM PipelineCorrect == Spec => []PrefetchIsCurrent
<1>1. IInv => PrefetchIsCurrent
  BY DEF IInv, CoreOK
<1>2. QED
  BY Invariance, <1>1, PTL

\* priv and csr[CSR_PRIV] agree in every reachable state.
THEOREM PrivilegeMirrored == Spec => []PrivMirrored
<1>1. IInv => PrivMirrored
  BY DEF IInv, CoreOK
<1>2. QED
  BY Invariance, <1>1, PTL

\* The unnamed level 3 gives no way up to Machine mode by ERET.
THEOREM UnnamedLevelClosed == Spec => []UnnamedLevelIsClosed
<1>1. IInv => UnnamedLevelIsClosed
  BY DEF IInv, CoreOK
<1>2. QED
  BY Invariance, <1>1, PTL

\* A waiting CPU runs above User level and has not halted.
THEOREM WaiterPrivileged == Spec => []WaiterIsPrivileged
<1>1. IInv => WaiterIsPrivileged
  BY DEF IInv, CoreOK
<1>2. QED
  BY Invariance, <1>1, PTL

\* For every limit, program and mix of events the watchdog resets exactly behind the
\* instruction that leaves the state the same for the limit-th time in a row.
THEOREM WatchdogIsExact == Spec => []WatchdogExact
<1>1. IInv => WatchdogExact
  BY OptionAssumption DEF IInv, CoreOK, WatchdogInv, WatchdogExact
<1>2. QED
  BY Invariance, <1>1, PTL

\* No instruction and no return raises privilege: only trap and interrupt entry
\* do, and they save the level they came from.
THEOREM PrivilegeSafe == Spec => PrivilegeRisesByEntry
<1>1. IInv /\ [Next]_vars => [priv' < priv => EnteredM \/ EnteredS]_vars
  BY NextOK, StutterOK DEF StepOK
<1>2. QED
  BY Invariance, <1>1, PTL DEF Spec, PrivilegeRisesByEntry

\* The vectors, enables, delegation and timer deadline of Machine mode are out
\* of reach of every lower level, for every program.
THEOREM MachineConfigSafe == Spec => MachineConfigKept
<1>1. IInv /\ [Next]_vars => [MachineConfig' # MachineConfig => priv = PRIV_MACHINE]_vars
  BY NextOK, StutterOK DEF StepOK
<1>2. QED
  BY Invariance, <1>1, PTL DEF Spec, MachineConfigKept

\* Nested entries do not overwrite the other level's frame.
THEOREM FramesSafe == Spec => FramesIndependent
<1>1. IInv /\ [Next]_vars =>
        [priv # PRIV_MACHINE => MFrame' = MFrame \/ SFrame' = SFrame]_vars
  BY NextOK, StutterOK DEF StepOK
<1>2. QED
  BY Invariance, <1>1, PTL DEF Spec, FramesIndependent

\* Every wake from WFI goes to a handler that can return behind the WFI.
THEOREM WakeSafe == Spec => WaitEndsInHandler
<1>1. IInv /\ [Next]_vars =>
        [waiting /\ ~waiting' =>
           \/ EnteredM /\ csr.MTVEC # 0 /\ pc' \in Cut(csr.MTVEC) /\ csr'.MEPC = pc
           \/ EnteredS /\ pc' \in Cut(csr.STVEC) /\ csr'.SEPC = pc]_vars
  BY NextOK, StutterOK DEF StepOK
<1>2. QED
  BY Invariance, <1>1, PTL DEF Spec, WaitEndsInHandler

-----------------------------------------------------------------------------
(* Causes, violations and the GPIO latch.                                   *)

FaultCause == {CAUSE_ILL_INSN, CAUSE_ECALL_U, CAUSE_ECALL_S, CAUSE_CSR_PRIV, CAUSE_IO_PRIV,
               CAUSE_ERET_PRIV, CAUSE_DIV_ZERO}

\* Everything an instruction can do to levels, control registers and ports, and to
\* the handlers that run with the MSTATUS of their entry.
LEMMA ExecuteEffect ==
  ASSUME NEW c, NEW g, NEW i, Execute(i, c, g)
  PROVE  \/ \E cause \in FaultCause, wrote \in BOOLEAN : TrapTo(cause, c, wrote) /\ gpio' = g
         \/ csr' = c /\ gpio' = g /\ priv' = priv /\ inside' \in {inside, {}}
         \/ /\ priv = PRIV_SUPERVISOR /\ csr' = SretCsr(c) /\ priv' = csr'.PRIV /\ gpio' = g
            /\ inside' = inside \ {PRIV_SUPERVISOR}
         \/ /\ priv \notin {PRIV_USER, PRIV_SUPERVISOR}
            /\ csr' = MretCsr(c) /\ priv' = csr'.PRIV /\ gpio' = g
            /\ inside' = inside \ {PRIV_MACHINE}
         \/ /\ i.op = "OUT" /\ priv' = priv /\ inside' \in {inside, {}}
            /\ csr' = OutEffect(i, c, g)[1] /\ gpio' = OutEffect(i, c, g)[2]
         \/ /\ i.op = "CSRW" /\ i.csr \notin ReadOnlyCsr /\ priv' = priv
            /\ csr' = [c EXCEPT ![i.csr] = i.val] /\ gpio' = g
            /\ inside' = IF csr'.MSTATUS = csr.MSTATUS THEN inside ELSE {}
<1>0. \A cause \in FaultCause : Trap(cause, c, g) =>
        \E k \in FaultCause, wrote \in BOOLEAN : TrapTo(k, c, wrote) /\ gpio' = g
  BY DEF Trap
<1>1. CASE Nop(i, c, g) \/ Alu(i, c, g) \/ Jmp(i, c, g) \/ Branch(i, c, g)
           \/ Call(i, c, g) \/ Ret(i, c, g)
  BY <1>1 DEF Nop, Alu, Jmp, Branch, Call, Ret, Retire
<1>2. CASE Halt(i, c, g)
  BY <1>2 DEF Halt
<1>3. CASE Div(i, c, g) \/ In(i, c, g) \/ Ecall(i, c, g) \/ PrivOp(i, c, g) \/ Illegal(i, c, g)
  BY <1>0, <1>3 DEF Div, In, Ecall, PrivOp, Illegal, Retire, FaultCause
<1>4. CASE Wfi(i, c, g)
  BY <1>0, <1>4 DEF Wfi, FaultCause
<1>5. CASE Csrr(i, c, g)
  <2>1. CAUSE_CSR_PRIV \in FaultCause
    BY DEF FaultCause
  <2>2. QED
    BY <2>1, <1>5 DEF Csrr, Retire
<1>6. CASE Eret(i, c, g)
  BY <1>0, <1>6 DEF Eret, Return, FaultCause
<1>7. CASE Out(i, c, g)
  BY <1>0, <1>7 DEF Out, Retire, FaultCause
<1>8. CASE Csrw(i, c, g)
  BY <1>0, <1>8 DEF Csrw, Retire, FaultCause
<1>9. QED
  BY <1>1, <1>2, <1>3, <1>4, <1>5, <1>6, <1>7, <1>8 DEF Execute

LEMMA FaultFacts == \A cause \in FaultCause : cause \in Cause
BY CauseFacts DEF FaultCause

\* The registers the properties below read, behind an entry.
LEMMA EnteredRegisters ==
  ASSUME NEW c \in CsrFile, NEW cause, NEW epc
  PROVE  /\ EnterM(c, cause, epc).MIP = c.MIP /\ EnterS(c, cause, epc).MIP = c.MIP
         /\ ~EnterM(c, cause, epc).MSTATUS.MIE
         /\ EnterM(c, cause, epc).MSTATUS.SIE = c.MSTATUS.SIE
         /\ ~EnterS(c, cause, epc).MSTATUS.SIE
         /\ EnterS(c, cause, epc).MSTATUS.MIE = c.MSTATUS.MIE
<1>1. c.MSTATUS \in Mstatus
  BY DEF CsrFile
<1> DEFINE m == [c.MSTATUS EXCEPT !.MPP = priv, !.MPIE = c.MSTATUS.MIE, !.MIE = FALSE]
           s == [c.MSTATUS EXCEPT !.SPP = (priv = PRIV_SUPERVISOR),
                                  !.SPIE = c.MSTATUS.SIE, !.SIE = FALSE]
<1>2. m.MIE = FALSE /\ m.SIE = c.MSTATUS.SIE /\ s.SIE = FALSE /\ s.MIE = c.MSTATUS.MIE
  BY <1>1 DEF Mstatus
<1> HIDE DEF m, s
<1>3. /\ EnterM(c, cause, epc).MSTATUS = m /\ EnterM(c, cause, epc).MIP = c.MIP
      /\ EnterS(c, cause, epc).MSTATUS = s /\ EnterS(c, cause, epc).MIP = c.MIP
  BY DEF EnterM, EnterS, CsrFile, m, s
<1>4. QED
  BY <1>2, <1>3, Zenon

\* A handler that runs with the MSTATUS of its entry has its interrupts masked: the
\* strengthening InterruptsMasked needs.  Nested entries keep it, because an entry of
\* one level leaves the other level's enable alone.
HandlersMasked ==
  /\ inside \subseteq {PRIV_MACHINE, PRIV_SUPERVISOR}
  /\ PRIV_MACHINE \in inside => ~csr.MSTATUS.MIE
  /\ PRIV_SUPERVISOR \in inside => ~csr.MSTATUS.SIE

Taken == {<< >>} \cup ({PRIV_MACHINE, PRIV_SUPERVISOR} \X Cause)

HistInv ==
  /\ taken \in Taken /\ heard \in [reading : BOOLEAN, pins : SUBSET Pins]
  /\ HandlersMasked

LEMMA MaskedOnEntry ==
  ASSUME HandlersMasked, NEW c \in CsrFile, c.MSTATUS = csr.MSTATUS, NEW cause, NEW epc,
         \/ csr' = EnterM(c, cause, epc) /\ inside' = inside \cup {PRIV_MACHINE}
         \/ csr' = EnterS(c, cause, epc) /\ inside' = inside \cup {PRIV_SUPERVISOR}
  PROVE  HandlersMasked'
<1>1. CASE csr' = EnterM(c, cause, epc) /\ inside' = inside \cup {PRIV_MACHINE}
  <2>1. ~csr'.MSTATUS.MIE /\ csr'.MSTATUS.SIE = csr.MSTATUS.SIE
    BY <1>1, EnteredRegisters
  <2>2. PRIV_SUPERVISOR \in inside' => PRIV_SUPERVISOR \in inside
    BY <1>1 DEF PRIV_SUPERVISOR, PRIV_MACHINE
  <2>3. inside' \subseteq {PRIV_MACHINE, PRIV_SUPERVISOR}
    BY <1>1 DEF HandlersMasked
  <2>4. QED
    BY <2>1, <2>2, <2>3, Zenon DEF HandlersMasked
<1>2. CASE csr' = EnterS(c, cause, epc) /\ inside' = inside \cup {PRIV_SUPERVISOR}
  <2>1. ~csr'.MSTATUS.SIE /\ csr'.MSTATUS.MIE = csr.MSTATUS.MIE
    BY <1>2, EnteredRegisters
  <2>2. PRIV_MACHINE \in inside' => PRIV_MACHINE \in inside
    BY <1>2 DEF PRIV_SUPERVISOR, PRIV_MACHINE
  <2>3. inside' \subseteq {PRIV_MACHINE, PRIV_SUPERVISOR}
    BY <1>2 DEF HandlersMasked
  <2>4. QED
    BY <2>1, <2>2, <2>3, Zenon DEF HandlersMasked
<1>3. QED
  BY <1>1, <1>2

LEMMA MaskedOnKeep ==
  ASSUME HandlersMasked, csr'.MSTATUS = csr.MSTATUS \/ inside' = {}, inside' \in {inside, {}}
  PROVE  HandlersMasked'
<1>1. CASE inside' = {}
  BY <1>1 DEF HandlersMasked
<1>2. CASE inside' = inside /\ csr'.MSTATUS = csr.MSTATUS
  BY <1>2, Zenon DEF HandlersMasked
<1>3. QED
  BY <1>1, <1>2

LEMMA ExecuteMasked ==
  ASSUME HandlersMasked, NEW c, NEW g, Polled(c, g), NEW i \in InsnType, Execute(i, c, g)
  PROVE  HandlersMasked'
<1>1. c \in CsrFile /\ c.MSTATUS = csr.MSTATUS /\ c.MSTATUS \in Mstatus
  BY DEF Polled, CsrFile
<1>2. CASE \E cause \in FaultCause, wrote \in BOOLEAN : TrapTo(cause, c, wrote)
  <2>1. \E cause :
           \/ csr' = EnterM(c, cause, Succ(pc)) /\ inside' = inside \cup {PRIV_MACHINE}
           \/ csr' = EnterS(c, cause, Succ(pc)) /\ inside' = inside \cup {PRIV_SUPERVISOR}
    BY <1>2, Zenon DEF TrapTo
  <2>2. QED
    BY <1>1, <2>1, MaskedOnEntry
<1>3. CASE csr' = c /\ inside' \in {inside, {}}
  BY <1>1, <1>3, MaskedOnKeep
<1>4. CASE csr' = SretCsr(c) /\ inside' = inside \ {PRIV_SUPERVISOR}
  <2>1. csr'.MSTATUS = [c.MSTATUS EXCEPT !.SIE = c.MSTATUS.SPIE, !.SPIE = TRUE, !.SPP = FALSE]
    BY <1>1, <1>4 DEF SretCsr, CsrFile
  <2>2. csr'.MSTATUS.MIE = csr.MSTATUS.MIE
    BY <1>1, <2>1 DEF Mstatus
  <2>3. /\ inside' \subseteq {PRIV_MACHINE, PRIV_SUPERVISOR}
        /\ PRIV_SUPERVISOR \notin inside'
        /\ (PRIV_MACHINE \in inside' => PRIV_MACHINE \in inside)
    BY <1>4 DEF HandlersMasked
  <2>4. QED
    BY <2>2, <2>3, Zenon DEF HandlersMasked
<1>5. CASE csr' = MretCsr(c) /\ inside' = inside \ {PRIV_MACHINE}
  <2>1. csr'.MSTATUS = [c.MSTATUS EXCEPT !.MIE = c.MSTATUS.MPIE]
    BY <1>1, <1>5 DEF MretCsr, CsrFile
  <2>2. csr'.MSTATUS.SIE = csr.MSTATUS.SIE
    BY <1>1, <2>1 DEF Mstatus
  <2>3. /\ inside' \subseteq {PRIV_MACHINE, PRIV_SUPERVISOR}
        /\ PRIV_MACHINE \notin inside'
        /\ (PRIV_SUPERVISOR \in inside' => PRIV_SUPERVISOR \in inside)
    BY <1>5 DEF HandlersMasked
  <2>4. QED
    BY <2>2, <2>3, Zenon DEF HandlersMasked
<1>6. CASE i.op = "OUT" /\ csr' = OutEffect(i, c, g)[1] /\ inside' \in {inside, {}}
  <2>1. csr'.MSTATUS = csr.MSTATUS
    BY <1>6, OutEffectOK DEF Polled
  <2>2. QED
    BY <2>1, <1>6, MaskedOnKeep
<1>7. CASE inside' = IF csr'.MSTATUS = csr.MSTATUS THEN inside ELSE {}
  BY <1>7, MaskedOnKeep
<1>8. QED
  BY <1>2, <1>3, <1>4, <1>5, <1>6, <1>7, ExecuteEffect

\* What InterruptsMasked and ViolationsNeverHealed ask of one step.
TakenOK ==
  /\ TakenAt(PRIV_MACHINE) =>
       /\ csr.MSTATUS.MIE /\ PRIV_MACHINE \notin inside
       /\ Raises(csr'.MIP \cap csr.MIE, taken'[2])
  /\ TakenAt(PRIV_SUPERVISOR) =>
       /\ priv # PRIV_MACHINE
       /\ csr.MSTATUS.SIE /\ PRIV_SUPERVISOR \notin inside
       /\ Raises(csr'.MIP \cap csr.MIDELEG \cap csr.SIE, taken'[2])

ViolationHalts ==
  priv # PRIV_MACHINE /\ priv' = PRIV_MACHINE /\ csr.MTVEC = 0
    /\ csr'.MCAUSE \in CAUSE_ECALL_U .. CAUSE_ERET_PRIV => halted'

\* The line the cause names is among the pending ones.
LEMMA CauseRaised == ASSUME NEW pend, pend # {} PROVE Raises(pend, IrqCause(pend))
BY DEF Raises, IrqCause, CAUSE_INT_TIMER, CAUSE_INT_EXT, CAUSE_INT_FLAG

LEMMA CpuStepTaken ==
  ASSUME HistInv, NEW c, NEW g, Polled(c, g), CpuStep(c, g)
  PROVE  taken' \in Taken /\ TakenOK
<1>1. /\ c \in CsrFile /\ c.MSTATUS = csr.MSTATUS /\ c.SIE = csr.SIE
      /\ c.MIE = csr.MIE /\ c.MIDELEG = csr.MIDELEG
  BY DEF Polled, KeepsConfig, MachineConfig
<1>2. CASE taken' = << >>
  BY <1>2 DEF Taken, TakenOK, TakenAt
<1>3. CASE TakeS(c, g)
  <2>1. /\ ForS(c) /\ taken' = <<PRIV_SUPERVISOR, IrqCause(PendS(c))>>
        /\ csr' = EnterS(c, IrqCause(PendS(c)), pc)
    BY <1>3 DEF TakeS, Deliver
  <2>2. priv # PRIV_MACHINE /\ csr.MSTATUS.SIE /\ PendS(c) # {}
    BY <2>1, <1>1, Zenon DEF ForS
  <2>3. PRIV_SUPERVISOR \notin inside
    BY <2>2 DEF HistInv, HandlersMasked
  <2>4. PendS(c) = csr'.MIP \cap csr.MIDELEG \cap csr.SIE
    BY <2>1, <1>1, EnteredRegisters DEF PendS
  <2>5. Raises(csr'.MIP \cap csr.MIDELEG \cap csr.SIE, taken'[2])
    BY <2>1, <2>2, <2>4, CauseRaised
  <2>6. taken' \in Taken /\ ~TakenAt(PRIV_MACHINE)
    BY <2>1, CauseOfIrq DEF Taken, TakenAt, PRIV_MACHINE, PRIV_SUPERVISOR
  <2>7. QED
    BY <2>2, <2>3, <2>5, <2>6, Zenon DEF TakenOK
<1>4. CASE TakeM(c, g)
  <2>1. /\ Pending(c) /\ ~ForS(c) /\ taken' = <<PRIV_MACHINE, IrqCause(PendM(c))>>
        /\ csr' = EnterM(c, IrqCause(PendM(c)), pc)
    BY <1>4 DEF TakeM, Deliver
  <2>2. csr.MSTATUS.MIE /\ PendM(c) # {}
    BY <2>1, <1>1, Zenon DEF Pending
  <2>3. PRIV_MACHINE \notin inside
    BY <2>2 DEF HistInv, HandlersMasked
  <2>4. PendM(c) = csr'.MIP \cap csr.MIE
    BY <2>1, <1>1, EnteredRegisters DEF PendM
  <2>5. Raises(csr'.MIP \cap csr.MIE, taken'[2])
    BY <2>1, <2>2, <2>4, CauseRaised
  <2>6. taken' \in Taken /\ ~TakenAt(PRIV_SUPERVISOR)
    BY <2>1, CauseOfIrq DEF Taken, TakenAt, PRIV_MACHINE, PRIV_SUPERVISOR
  <2>7. QED
    BY <2>2, <2>3, <2>5, <2>6, Zenon DEF TakenOK
<1>5. QED
  BY <1>2, <1>3, <1>4 DEF CpuStep, WaitTick, DropS, DropM, Drop, Run

LEMMA CpuStepHist ==
  ASSUME CoreOK, HistInv, NEW c, NEW g, Polled(c, g), CpuStep(c, g)
  PROVE  HistInv'
<1>1. c \in CsrFile /\ g \in GpioType /\ c.MSTATUS = csr.MSTATUS /\ HandlersMasked
  BY DEF Polled, HistInv
<1>2. taken' \in Taken
  BY CpuStepTaken
<1>3. CASE WaitTick(c, g)
  <2>1. heard' = heard /\ HandlersMasked'
    BY <1>1, <1>3, MaskedOnKeep DEF WaitTick
  <2>2. QED
    BY <1>2, <2>1 DEF HistInv, Taken
<1>4. CASE TakeS(c, g) \/ TakeM(c, g)
  <2>1. heard' = heard /\ HandlersMasked'
    BY <1>1, <1>4, MaskedOnEntry DEF TakeS, TakeM, Deliver, IrqFrame
  <2>2. QED
    BY <1>2, <2>1 DEF HistInv, Taken
<1>5. CASE DropS(c, g) \/ DropM(c, g)
  <2>1. PICK dropped : /\ csr' = [c EXCEPT !.MIP = @ \ dropped]
                       /\ inside' = inside /\ heard' = heard
    BY <1>5 DEF DropS, DropM, Drop, IrqFrame
  <2>2. csr'.MSTATUS = csr.MSTATUS
    BY <2>1, <1>1 DEF CsrFile
  <2>3. HandlersMasked'
    BY <2>1, <2>2, <1>1, MaskedOnKeep
  <2>4. QED
    BY <1>2, <2>1, <2>3 DEF HistInv, Taken
<1>6. CASE Run(c, g)
  <2>1. PICK i \in Fetched : Execute(i, c, g) /\ heard' = Hears(i, g)
    BY <1>6 DEF Run
  <2>2. i \in InsnType
    BY FetchedInsn, InsnAssumption
  <2>3. HandlersMasked'
    BY <1>1, <2>1, <2>2, ExecuteMasked
  <2>4. heard' \in [reading : BOOLEAN, pins : SUBSET Pins]
    BY <1>1, <2>1 DEF Hears, HistInv, GpioType
  <2>5. QED
    BY <1>2, <2>3, <2>4 DEF HistInv, Taken
<1>7. QED
  BY <1>3, <1>4, <1>5, <1>6 DEF CpuStep

LEMMA HistOK == ASSUME IInv, HistInv, Next PROVE HistInv' /\ TakenOK
<1>1. PICK changed \in SUBSET Pins, ext \in BOOLEAN :
        /\ Poll(changed, ext)
        /\ CpuStep(PolledCsr(changed, ext), PolledGpio(changed))
  BY DEF Next
<1>2. Polled(PolledCsr(changed, ext), PolledGpio(changed)) /\ CoreOK
  BY <1>1, PollOK DEF IInv
<1>3. QED
  BY <1>1, <1>2, CpuStepHist, CpuStepTaken

\* What the auxiliary variables record agrees with the enables throughout.
THEOREM HistoryInvariance == Spec => [](IInv /\ HistInv)
<1>1. Init => HistInv
  BY DEF Init, HistInv, HandlersMasked, Taken
<1>2. IInv /\ HistInv /\ [Next]_vars => HistInv'
  <2>1. ASSUME HistInv, UNCHANGED vars PROVE HistInv'
    BY <2>1 DEF HistInv, HandlersMasked, Taken, vars
  <2>2. QED
    BY <2>1, HistOK
<1>3. QED
  BY Invariance, <1>1, <1>2, PTL DEF Spec

\* Every variable of the CPU keeps a value the code allows.
THEOREM TypeCorrect == Spec => []TypeOK
<1>1. IInv /\ HistInv => TypeOK
  BY DEF IInv, CoreOK, EnvOK, TypeOK, GpioType, WatchdogInv, HistInv, HandlersMasked, Taken
<1>2. QED
  BY HistoryInvariance, <1>1, PTL

\* No interrupt is taken at a level that has it masked or undelegated, nor inside a
\* handler of that level before it returned or changed MSTATUS, at any nesting of
\* handlers of both levels and for the same cause as for another: for every program.
THEOREM InterruptMaskSafe == Spec => InterruptsMasked
<1>1. IInv /\ HistInv /\ [Next]_vars => [TakenOK]_vars
  BY HistOK
<1>2. [TakenOK]_vars =>
        [/\ TakenAt(PRIV_MACHINE) =>
              /\ csr.MSTATUS.MIE /\ PRIV_MACHINE \notin inside
              /\ Raises(csr'.MIP \cap csr.MIE, taken'[2])
         /\ TakenAt(PRIV_SUPERVISOR) =>
              /\ priv # PRIV_MACHINE
              /\ csr.MSTATUS.SIE /\ PRIV_SUPERVISOR \notin inside
              /\ Raises(csr'.MIP \cap csr.MIDELEG \cap csr.SIE, taken'[2])]_vars
  BY DEF TakenOK
<1>3. QED
  BY HistoryInvariance, <1>1, <1>2, PTL DEF Spec, InterruptsMasked

\* A fault without a vector halts the CPU unless its cause is one of the two that
\* self-heal forgives.
LEMMA TrapToHalts ==
  ASSUME NEW c, NEW g, Polled(c, g), NEW cause \in FaultCause, NEW wrote \in BOOLEAN,
         TrapTo(cause, c, wrote)
  PROVE  ViolationHalts
<1>1. c \in CsrFile /\ c.MTVEC = csr.MTVEC
  BY DEF Polled, KeepsConfig, MachineConfig
<1>2. CASE Delegated(cause)
  BY <1>2 DEF TrapTo, ViolationHalts, PRIV_SUPERVISOR, PRIV_MACHINE
<1>3. CASE ~Delegated(cause)
  <2>1. csr' = EnterM(c, cause, Succ(pc))
    BY <1>3 DEF TrapTo
  <2>2. csr'.MCAUSE = cause
    BY <2>1, <1>1 DEF EnterM, CsrFile
  <2>3. SUFFICES ASSUME csr.MTVEC = 0, cause \in CAUSE_ECALL_U .. CAUSE_ERET_PRIV
                 PROVE  halted' = TRUE
    BY <2>2 DEF ViolationHalts
  <2>4. ~Recoverable(cause)
    BY <2>3 DEF Recoverable, CAUSE_ECALL_U, CAUSE_ERET_PRIV, CAUSE_ILL_INSN, CAUSE_DIV_ZERO
  <2>5. Finish(Succ(pc), TRUE, ~(Resilient /\ Recoverable(cause)), wrote)
    BY <2>3, <1>1, <1>3 DEF TrapTo
  <2>6. halted' = ~(Resilient /\ Recoverable(cause))
    BY <2>5, Zenon DEF Finish
  <2>7. QED
    BY <2>4, <2>6, Zenon
<1>4. QED
  BY <1>2, <1>3

\* A step that does not enter Machine mode.
LEMMA NoEntry ==
  ASSUME priv # PRIV_MACHINE => priv' # PRIV_MACHINE PROVE ViolationHalts
BY DEF ViolationHalts

LEMMA ExecuteHalts ==
  ASSUME CoreOK, NEW c, NEW g, Polled(c, g), NEW i \in InsnType, Execute(i, c, g)
  PROVE  ViolationHalts
<1>1. c \in CsrFile
  BY DEF Polled
<1>2. CASE \E cause \in FaultCause, wrote \in BOOLEAN : TrapTo(cause, c, wrote)
  BY <1>2, TrapToHalts
<1>3. CASE priv' = priv
  BY <1>3, NoEntry
<1>4. CASE priv = PRIV_SUPERVISOR /\ csr' = SretCsr(c) /\ priv' = csr'.PRIV
  <2>1. csr'.PRIV \in {PRIV_SUPERVISOR, PRIV_USER}
    BY <1>1, <1>4 DEF SretCsr, CsrFile
  <2>2. QED
    BY <2>1, <1>4, NoEntry DEF PRIV_SUPERVISOR, PRIV_USER, PRIV_MACHINE
<1>5. CASE /\ priv \notin {PRIV_USER, PRIV_SUPERVISOR}
           /\ csr' = MretCsr(c) /\ priv' = csr'.PRIV
  <2>1. csr'.PRIV = c.MSTATUS.MPP
    BY <1>1, <1>5 DEF MretCsr, CsrFile
  \* The only level left below Machine mode is the unnamed one, which MRET keeps.
  <2>2. priv # PRIV_MACHINE => priv' # PRIV_MACHINE
    BY <2>1, <1>5 DEF CoreOK, UnnamedLevelIsClosed, Polled, Level,
       PRIV_MACHINE, PRIV_USER, PRIV_SUPERVISOR
  <2>3. QED
    BY <2>2, NoEntry
<1>6. QED
  BY <1>2, <1>3, <1>4, <1>5, ExecuteEffect

LEMMA NextHalts == ASSUME IInv, Next PROVE ViolationHalts
<1>1. PICK changed \in SUBSET Pins, ext \in BOOLEAN :
        /\ Poll(changed, ext)
        /\ CpuStep(PolledCsr(changed, ext), PolledGpio(changed))
  BY DEF Next
<1> DEFINE c == PolledCsr(changed, ext)
           g == PolledGpio(changed)
<1>2. Polled(c, g) /\ CoreOK
  BY <1>1, PollOK DEF IInv
<1> HIDE DEF c, g
<1>3. CASE WaitTick(c, g) \/ DropS(c, g) \/ DropM(c, g)
  BY <1>3, NoEntry DEF WaitTick, DropS, DropM, Drop
<1>4. CASE TakeS(c, g)
  BY <1>4, NoEntry DEF TakeS, Deliver, PRIV_SUPERVISOR, PRIV_MACHINE
<1>5. CASE TakeM(c, g)
  <2>1. csr.MTVEC # 0
    BY <1>2, <1>5 DEF TakeM, Polled, KeepsConfig, MachineConfig
  <2>2. QED
    BY <2>1 DEF ViolationHalts
<1>6. CASE Run(c, g)
  <2>1. PICK i \in Fetched : Execute(i, c, g)
    BY <1>6 DEF Run
  <2>2. i \in InsnType
    BY <1>2, FetchedInsn, InsnAssumption
  <2>3. QED
    BY <1>2, <2>1, <2>2, ExecuteHalts
<1>7. QED
  BY <1>1, <1>3, <1>4, <1>5, <1>6 DEF CpuStep, c, g

\* System calls and privilege violations without a handler halt the CPU, whatever
\* the options are: self-heal forgives neither.
THEOREM ViolationsHalt == Spec => ViolationsNeverHealed
<1>1. IInv /\ [Next]_vars => [ViolationHalts]_vars
  BY NextHalts
<1>2. [ViolationHalts]_vars =>
        [priv # PRIV_MACHINE /\ priv' = PRIV_MACHINE /\ csr.MTVEC = 0
           /\ csr'.MCAUSE \in CAUSE_ECALL_U .. CAUSE_ERET_PRIV => halted']_vars
  BY DEF ViolationHalts
<1>3. QED
  BY Invariance, <1>1, <1>2, PTL DEF Spec, ViolationsNeverHealed

\* What the latch asks of software: no word lowers MIP.EXT by hand, and the
\* vector is installed while the line is enabled (an interrupt with no vector
\* is dropped, sim.c:484).
KeepsExt == \A i \in Insn : i.op = "CSRW" /\ i.csr = "MIP" => "EXT" \in i.val
Vectored == /\ "EXT" \in csr.MIE => csr.MTVEC # 0
            /\ "EXT" \in csr.MIDELEG \cap csr.SIE => csr.STVEC # 0

\* LatchedPinIsPending of the values within a step.
Latched(c, g) == g.st # {} => "EXT" \in c.MIP

LEMMA PollLatches ==
  ASSUME IInv, LatchedPinIsPending, NEW changed \in SUBSET Pins, NEW ext \in BOOLEAN
  PROVE  Latched(PolledCsr(changed, ext), PolledGpio(changed))
<1> DEFINE m == csr.MIP
        \cup (IF csr.MTIMECMP # 0 /\ cycles >= csr.MTIMECMP THEN {"TIMER"} ELSE {})
        \cup (IF ext \/ Triggered(changed) # {} THEN {"EXT"} ELSE {})
<1>1. csr \in CsrFile /\ gpio \in GpioType
  BY DEF IInv, CoreOK
<1>2. PolledCsr(changed, ext).MIP = m
  BY <1>1 DEF PolledCsr, CsrFile
<1>3. PolledGpio(changed).st = gpio.st \cup Triggered(changed)
  BY <1>1 DEF PolledGpio, GpioType
<1>4. gpio.st \cup Triggered(changed) # {} => "EXT" \in m
  BY DEF LatchedPinIsPending
<1>5. QED
  BY <1>2, <1>3, <1>4 DEF Latched

LEMMA OutLatches ==
  ASSUME NEW c, NEW g, Polled(c, g), Latched(c, g), NEW i \in InsnType, i.op = "OUT"
  PROVE  Latched(OutEffect(i, c, g)[1], OutEffect(i, c, g)[2])
<1>1. c \in CsrFile /\ g \in GpioType /\ i.port \in GpioPort
  BY DEF Polled, InsnType, PlainOp
<1>2. CASE i.port = "OTHER"
  BY <1>2 DEF OutEffect
<1>3. CASE i.port = "GPIO_DIR"
  BY <1>1, <1>3 DEF OutEffect, Latched, GpioType
<1>4. CASE i.port = "GPIO_INT_EN"
  BY <1>1, <1>4 DEF OutEffect, Latched, GpioType
<1>5. CASE i.port = "GPIO_INT_ST"
  \* The acknowledgement leaves no pin latched.
  <2>1. OutEffect(i, c, g)[2] = [g EXCEPT !.st = {}]
    BY <1>5 DEF OutEffect
  <2>2. QED
    BY <2>1, <1>1 DEF Latched, GpioType
<1>6. QED
  BY <1>1, <1>2, <1>3, <1>4, <1>5 DEF GpioPort

LEMMA ExecuteLatches ==
  ASSUME KeepsExt, NEW c, NEW g, Polled(c, g), Latched(c, g), NEW i \in Insn, Execute(i, c, g)
  PROVE  LatchedPinIsPending'
<1>1. c \in CsrFile /\ i \in InsnType
  BY InsnAssumption DEF Polled
<1>2. CASE \E cause \in FaultCause, wrote \in BOOLEAN : TrapTo(cause, c, wrote) /\ gpio' = g
  <2>1. \E cause : csr' = EnterS(c, cause, Succ(pc)) \/ csr' = EnterM(c, cause, Succ(pc))
    BY <1>2, Zenon DEF TrapTo
  <2>2. csr'.MIP = c.MIP
    BY <2>1, <1>1, EnteredRegisters
  <2>3. QED
    BY <2>2, <1>2 DEF Latched, LatchedPinIsPending
<1>3. CASE (csr' = c \/ csr' = SretCsr(c) \/ csr' = MretCsr(c)) /\ gpio' = g
  <2>1. csr'.MIP = c.MIP
    BY <1>1, <1>3 DEF SretCsr, MretCsr, CsrFile
  <2>2. QED
    BY <2>1, <1>3 DEF Latched, LatchedPinIsPending
<1>4. CASE i.op = "OUT" /\ csr' = OutEffect(i, c, g)[1] /\ gpio' = OutEffect(i, c, g)[2]
  BY <1>1, <1>4, OutLatches DEF Latched, LatchedPinIsPending
<1>5. CASE /\ i.op = "CSRW" /\ i.csr \notin ReadOnlyCsr
           /\ csr' = [c EXCEPT ![i.csr] = i.val] /\ gpio' = g
  <2>1. CASE i.csr = "MIP"
    <3>1. "EXT" \in i.val
      BY <1>5, <2>1 DEF KeepsExt
    <3>2. csr'.MIP = i.val
      BY <1>1, <1>5, <2>1 DEF CsrFile
    <3>3. QED
      BY <3>1, <3>2 DEF LatchedPinIsPending
  <2>2. CASE i.csr # "MIP"
    <3>1. csr'.MIP = c.MIP
      BY <1>1, <1>5, <2>2 DEF CsrFile
    <3>2. QED
      BY <3>1, <1>5 DEF Latched, LatchedPinIsPending
  <2>3. QED
    BY <2>1, <2>2
<1>6. QED
  BY <1>2, <1>3, <1>4, <1>5, ExecuteEffect

LEMMA CpuStepLatches ==
  ASSUME KeepsExt, Vectored, CoreOK, NEW c, NEW g, Polled(c, g), Latched(c, g), CpuStep(c, g)
  PROVE  LatchedPinIsPending'
<1>1. /\ c \in CsrFile /\ c.STVEC = csr.STVEC /\ c.MTVEC = csr.MTVEC
      /\ c.MIE = csr.MIE /\ c.MIDELEG = csr.MIDELEG
  BY DEF Polled, KeepsConfig, MachineConfig
<1>2. CASE WaitTick(c, g)
  BY <1>2 DEF WaitTick, Latched, LatchedPinIsPending
<1>3. CASE TakeS(c, g) \/ TakeM(c, g)
  <2>1. csr'.MIP = c.MIP /\ gpio' = g
    BY <1>1, <1>3, EnteredRegisters DEF TakeS, TakeM, Deliver, IrqFrame
  <2>2. QED
    BY <2>1 DEF Latched, LatchedPinIsPending
<1>4. CASE DropS(c, g) \/ DropM(c, g)
  <2>1. PICK dropped : /\ csr' = [c EXCEPT !.MIP = @ \ dropped] /\ gpio' = g
                       /\ \/ c.STVEC = 0 /\ dropped = PendS(c)
                          \/ c.MTVEC = 0 /\ dropped = PendM(c) \cap {"TIMER", "EXT"}
    BY <1>4 DEF DropS, DropM, Drop, IrqFrame
  <2>2. csr'.MIP = c.MIP \ dropped
    BY <2>1, <1>1 DEF CsrFile
  <2>3. CASE c.MTVEC = 0 /\ dropped = PendM(c) \cap {"TIMER", "EXT"}
    BY <2>1, <2>2, <2>3, <1>1 DEF Vectored, PendM, Latched, LatchedPinIsPending
  <2>4. CASE c.STVEC = 0 /\ dropped = PendS(c)
    <3>1. "EXT" \notin csr.MIDELEG \cap csr.SIE
      BY <2>4, <1>1 DEF Vectored
    <3>2. c.SIE = csr.SIE
      BY DEF Polled
    <3>3. QED
      BY <2>1, <2>2, <2>4, <3>1, <3>2, <1>1 DEF PendS, Latched, LatchedPinIsPending
  <2>5. QED
    BY <2>1, <2>3, <2>4
<1>5. CASE Run(c, g)
  <2>1. PICK i \in Fetched : Execute(i, c, g)
    BY <1>5 DEF Run
  <2>2. i \in Insn
    BY FetchedInsn
  <2>3. QED
    BY <2>1, <2>2, ExecuteLatches
<1>6. QED
  BY <1>2, <1>3, <1>4, <1>5 DEF CpuStep

\* No order of pin changes, acknowledgements, port writes, traps, returns and
\* interrupts leaves a pin latched with MIP.EXT withdrawn, for every program that
\* does not lower MIP.EXT by hand and keeps a vector installed while it has the
\* line enabled.
THEOREM LatchSafe == KeepsExt /\ Spec /\ []Vectored => []LatchedPinIsPending
<1>1. Init => LatchedPinIsPending
  BY DEF Init, LatchedPinIsPending
<1>2. KeepsExt /\ IInv /\ Vectored /\ LatchedPinIsPending /\ [Next]_vars => LatchedPinIsPending'
  <2> SUFFICES ASSUME KeepsExt, IInv, Vectored, LatchedPinIsPending, [Next]_vars
               PROVE  LatchedPinIsPending'
    OBVIOUS
  <2>1. CASE Next
    <3>1. PICK changed \in SUBSET Pins, ext \in BOOLEAN :
            /\ Poll(changed, ext)
            /\ CpuStep(PolledCsr(changed, ext), PolledGpio(changed))
      BY <2>1 DEF Next
    <3>2. Polled(PolledCsr(changed, ext), PolledGpio(changed))
      BY <3>1, PollOK
    <3>3. Latched(PolledCsr(changed, ext), PolledGpio(changed))
      BY PollLatches
    <3>4. CoreOK
      BY DEF IInv
    <3>5. QED
      BY <3>1, <3>2, <3>3, <3>4, CpuStepLatches
  <2>2. CASE UNCHANGED vars
    BY <2>2 DEF vars, LatchedPinIsPending
  <2>3. QED
    BY <2>1, <2>2
<1>3. KeepsExt => KeepsExt'
  BY DEF KeepsExt
<1>4. QED
  BY Invariance, <1>1, <1>2, <1>3, PTL DEF Spec
=============================================================================
