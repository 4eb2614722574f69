---------------------------- MODULE NovaCpuLive ----------------------------
(***************************************************************************)
(* What cpu_run() in src/sim.c must bring about.  Its loop calls cpu_step() *)
(* until the CPU halts, so there is always a next step.                     *)
(*                                                                          *)
(* turn changes at every call of cpu_step(), also at one that leaves the    *)
(* CPU as it was: fairness then promises steps and nothing else.  Without   *)
(* it, weak fairness of Next would also promise that a program leaves a     *)
(* loop that changes nothing.                                               *)
(***************************************************************************)
EXTENDS NovaCpu

VARIABLE turn

liveVars == <<vars, turn>>

LiveNext == Next /\ turn' = ~turn

LiveSpec ==
  /\ Init /\ turn = FALSE
  /\ [][LiveNext]_liveVars
  /\ WF_liveVars(LiveNext)

-----------------------------------------------------------------------------
\* A sleeping CPU whose timer is set and enabled for it, with its handler's
\* vector installed, wakes, whatever other interrupts come meanwhile.
TimerEnabledForWaiter ==
  \/ /\ csr.MSTATUS.MIE /\ "TIMER" \in csr.MIE /\ csr.MTVEC # 0
     /\ priv = PRIV_MACHINE \/ csr.STVEC # 0
  \/ /\ priv # PRIV_MACHINE /\ csr.MSTATUS.SIE /\ csr.STVEC # 0
     /\ "TIMER" \in csr.MIDELEG \cap csr.SIE
TimerWakesWaiter ==
  (waiting /\ csr.MTIMECMP # 0 /\ TimerEnabledForWaiter) ~> ~waiting

\* An interrupt that no vector leads anywhere, dropped at every step and raised
\* again by the next poll, or not even dropped (bits above 1 at Machine level).
TimerDue == csr.MTIMECMP # 0 /\ cycles >= csr.MTIMECMP
Starved ==
  \/ /\ csr.MSTATUS.MIE /\ csr.MTVEC = 0
     /\ \/ "TIMER" \in csr.MIE /\ TimerDue
        \/ "OTHER" \in csr.MIP \cap csr.MIE
  \/ /\ priv # PRIV_MACHINE /\ csr.MSTATUS.SIE /\ csr.STVEC = 0
     /\ "TIMER" \in csr.MIDELEG \cap csr.SIE /\ TimerDue

\* The watchdog frees a CPU that repeats one state: it stays for ever at one pc
\* only if it sleeps, has halted, is starved, or changes a register again and again.
\* The third is not in SPEC.md:626-631, which promises the reset after N steps that
\* change nothing; cpu_step() returns before it reaches the watchdog (sim.c:965).
Stuck   == halted \/ waiting \/ Starved
Changed == watch.times = 1
WatchdogFrees ==
  \A a \in 0 .. MemSize - 1 : <>[](pc = a) => <>[]Stuck \/ []<>Changed

\* A pin latched while the program is not between its reading of GPIO_INT_ST and
\* its acknowledgement is read from there before it is acknowledged, also when it
\* was latched while the handler was running.  A pin latched in between may be lost:
\* the acknowledgement clears all (sim.c:774), where SPEC.md:479 says its own.
PinsHeard ==
  \A p \in Pins : (p \in gpio.st /\ ~heard.reading) ~> p \in heard.pins
=============================================================================
