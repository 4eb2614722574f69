--------------------------- MODULE MCNovaCpuLive ---------------------------
(***************************************************************************)
(* Instances of NovaCpuLive for TLC.                                        *)
(***************************************************************************)
EXTENDS MCNovaCpu, NovaCpuLive

(* Progress, from 1: vectors, enables, delegation and a deadline, in        *)
(* Machine or Supervisor mode; then a loop that sleeps, and a handler at    *)
(* each level.                                                              *)
TimerCode == <<{W("MTVEC", 12)}, {W("STVEC", 13)}, {W("MIE", {"TIMER", "EXT"}), I("NOP")},
               {W("SIE", {"TIMER"}), I("NOP")}, {W("MIDELEG", {"TIMER"}), I("NOP")},
               {W("MEPC", 10)}, {W("MTIMECMP", 13)},
               {W("MSTATUS", St(TRUE, FALSE, PRIV_MACHINE, FALSE, FALSE)),
                W("MSTATUS", St(FALSE, TRUE, PRIV_SUPERVISOR, TRUE, FALSE)),
                W("MSTATUS", St(FALSE, FALSE, PRIV_SUPERVISOR, TRUE, FALSE))},
               {I("ERET"), I("NOP")}, {I("WFI")}, {J("JMP", -2), J("JMP", -1)},
               {I("ERET"), W("MIP", {}), W("MTIMECMP", 0)},
               {I("ERET"), J("JMP", -1)}>>

(* From 14, the program of gpio_irq_test.asm around an endless loop: enable *)
(* the pins and the line, sleep, work or reprogram the ports; the handler   *)
(* reads the latch, may do some work, acknowledges and returns.             *)
PinCode == <<{W("MTVEC", 20)}, {O("GPIO_INT_EN", {p1, p2})}, {W("MIE", {"EXT"})},
             {W("MSTATUS", St(TRUE, FALSE, PRIV_MACHINE, FALSE, FALSE))},
             {I("WFI"), I("ALU"), O("GPIO_DIR", {p1}), O("GPIO_INT_EN", {p1})},
             {J("JMP", -2)},
             {P("GPIO_INT_ST")}, {I("NOP"), O("OTHER", {})},
             {O("GPIO_INT_ST", {p1, p2}), O("GPIO_INT_ST", {p1})}, {I("ERET")}>>

LiveCode == [a \in 0 .. 23 |->
               IF a = 0 THEN {J("JMP", 0), J("JMP", 13)}
               ELSE IF a < 14 THEN TimerCode[a] ELSE PinCode[a - 13]]
LiveInsn == AllOf(LiveCode)

(* Self-heal and watchdog: faults at every level, loops on one state, the   *)
(* -i event between the repetitions, interrupts with no vector, addresses   *)
(* beyond 32 bits.                                                          *)
HealCode == <<{W("SIE", {"TIMER"})}, {W("MIDELEG", {"TIMER"})},
              {I("NOP"), I("ALU"), W("MTVEC", 3), W("MEPC", Wide), W("MIE", IrqLine),
               W("MTIMECMP", 1), W("MIP", {"OTHER"}), J("CALL", 0), J("BR", 1),
               W("MSTATUS", St(TRUE, FALSE, PRIV_MACHINE, FALSE, FALSE)),
               W("MSTATUS", St(FALSE, FALSE, PRIV_USER, TRUE, FALSE))},
              {I("DIV"), I("ILL"), I("ECALL"), I("ERET"), J("JMP", -1), I("NOP"), I("WFI"),
               R("MEPC")},
              {I("ERET"), J("JMP", -1), I("ILL"), J("JMP", -5), I("HALT"), I("RET")}>>
ResilientCode == [a \in 0 .. 4 |-> HealCode[a + 1]]
ResilientInsn == AllOf(ResilientCode)
=============================================================================
