----------------------------- MODULE MCNovaCpu -----------------------------
(***************************************************************************)
(* Instances of NovaCpu for TLC: for every question a small memory and the  *)
(* set of words each cell may hold.                                         *)
(***************************************************************************)
EXTENDS NovaCpu

CONSTANTS p1, p2

I(op) == [op |-> op]
W(name, value) == [op |-> "CSRW", csr |-> name, val |-> value]
R(name) == [op |-> "CSRR", csr |-> name]
J(op, d) == [op |-> op, imm |-> d]
P(from) == [op |-> "IN", port |-> from]
O(to, what) == [op |-> "OUT", port |-> to, pins |-> what]

\* An MSTATUS value written by software: global enables and previous levels.
St(mie, mpie, mpp, sie, spp) ==
  [MIE |-> mie, MPIE |-> mpie, MPP |-> mpp, SIE |-> sie, SPIE |-> sie, SPP |-> spp]

AllOf(code) == UNION {code[a] : a \in DOMAIN code}

(* Traps, from 1: Machine mode sets the vectors, the delegation and MSTATUS *)
(* in any order; every kind of instruction then runs at every level.        *)
TrapSetup == {W("MTVEC", 5), W("STVEC", 6), W("MEDELEG", {1, 5, 7, 8, 9}), W("MCAUSE", 0)}
             \cup {W("MSTATUS", St(FALSE, TRUE, l, TRUE, l = PRIV_MACHINE)) : l \in Level}
TrapBody == {I("NOP"), I("DIV"), I("ECALL"), I("ERET"), I("PRIVOP"), P("OTHER"),
             I("ILL"), I("WFI"), I("HALT"), J("JMP", -2), R("MEPC"), R("SEPC"), R("SCAUSE"),
             O("OTHER", {})}
TrapCode == <<{W("MEPC", 4)}, {W("SEPC", 4)}, TrapSetup \cup {I("NOP")}, TrapSetup \cup TrapBody, TrapBody, TrapBody,
              {I("HALT")}>>

(* Interrupts, from 8: the timer, the -i event and delegation, while the    *)
(* software runs, sleeps, or is inside a handler of either level; a handler *)
(* may enable its interrupts again before it returns.                       *)
IrqSetup == {W("MTVEC", 12), W("STVEC", 13), W("MIE", IrqLine), W("MIP", {"OTHER"}), W("SIE", {"TIMER"}),
             W("MIDELEG", {"TIMER"}), W("MTIMECMP", 5), W("MTIMECMP", 9)}
            \cup {W("MSTATUS", St(FALSE, TRUE, l, l # PRIV_USER, FALSE)) : l \in Level}
            \cup {W("MSTATUS", St(TRUE, FALSE, PRIV_MACHINE, FALSE, FALSE))}
IrqBody == {I("NOP"), I("WFI"), I("ERET"), I("ECALL"), J("JMP", -1)}
IrqHandler == {I("ERET"), W("MIP", {}), W("MTIMECMP", 0), I("WFI"),
               W("MSTATUS", St(TRUE, FALSE, PRIV_MACHINE, FALSE, FALSE))}
IrqCode == <<{W("MEPC", 11)}, {W("SEPC", 11)}, IrqSetup \cup {J("JMP", -1), I("ERET")}, IrqBody \cup {J("JMP", -2)},
             IrqHandler \cup {J("JMP", -1)}, {I("ERET"), I("NOP"), J("JMP", -1)},
             {I("HALT")}>>

\* The first word chooses between the two; no address leads back to it.
LevelCode == [a \in 0 .. 14 |->
                IF a = 0 THEN {J("JMP", 0), J("JMP", 7)}
                ELSE IF a < 8 THEN TrapCode[a] ELSE IrqCode[a - 7]]
LevelInsn == AllOf(LevelCode)
=============================================================================
