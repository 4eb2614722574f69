# A verification project for NOVA-64

NOVA-64 is a 64-bit word-addressed processor with its tool chain: a simulator
(`sim.c`) with privilege levels, interrupts, a watchdog and GPIO, an assembler,
two debuggers, RTL cores, a UART, and a small graphics stack (`gravityon`) with a
software and an RTL GPU. This directory holds TLA+ models of its parts, the TLC
runs that check them, and proofs checked by TLAPS. `PROJECT.json` lists
components, runs, mutants, hazards, findings and theorems; it maps every modelling
definition to the lines it stands for.

## Inventory

| Component | State | Operations | What is hard | What makes it correct |
|---|---|---|---|---|
| Simulator control plane, `sim.c` | `pc`, pipeline latch, `halted`, `waiting_for_interrupt`, `cycles`, `priv`, `csr[]`, GPIO ports, watchdog | `cpu_step()`: poll, wait, take or drop an interrupt, execute, trap, return; `cpu_reset()` | interrupts at any instant, nested handlers of two levels, sleep and wake, self-heal, watchdog | no path raises privilege but a trap; frames survive nesting; the prefetched word is the right one; sleepers wake; stuck programs are freed |
| Memory and prefetch, `sim.c` | `mem[]`, `pipe_insn` | LOAD, STORE, fetch, debugger writes | a prefetched copy of a word that is then written | the same result as a machine without pipeline, but for a store into the next cell |
| EEPROM, `sim.c` | `eeprom[]`, dirty flag, file | ELOAD, ESTORE, load, save | exits without save, failed writes, 32-bit file words | what was saved is what is loaded |
| GDB stub, `gdb_stub.c` | packet buffers, breakpoint table, the CPU | `rsp_loop()`, one handler per packet | packets sent again, acknowledgements, a full table, the word read ahead | one answer per packet; a CPU told to run stops at breakpoints; a debugger's write shows |
| Debugger, `dbg.c` | a second CPU, breakpoints, history ring | commands, `cpu_step()` | ring and table at their limits | the same instruction semantics as `sim.c` |
| Assembler, `asm.c` | label table, instruction buffer, error count | `process_line()` in two passes, two writers | forward labels, immediate ranges, tables at their limits | both passes agree; the file means what the source says; a file for legal sources only |
| RTL core, `cpu.v`, `fpga/nova16_bram.v` | `state`, `pc`, registers, bus | one clock edge | synchronous memory, wait states | refines the instruction-level machine; P1 to P4 of `formal/nova32_props.v` |
| Secure RTL core, `cpu_synth.v` | the same with CSRs | one clock edge | trap against memory phase | the privilege properties of the simulator |
| UART, `fpga/uart.v` | shift registers, holding registers, flags | bit clocks, CPU reads and writes | a byte arriving while one is read, spikes, two clocks | bytes arrive once and in order; a prompt reader loses none |
| GPU ring, `gravityon/gpu/gpu_cmd.h`, `gpu_sim.c` | ring buffer, two indices, doorbell, status | write packet, process, port access | wrap-around, full against empty, partial packets | a FIFO of whole packets |
| GPU RTL core, `gravityon/fpga/gpu_core.v` | FSM, ring pointer | one clock edge | doorbell while busy | as the software GPU |
| Command buffers, `gravityon/gravityon.c` | objects, recorded commands, images | create, record, submit, destroy | object lifetime between record and submit, state left by earlier commands, drawing order | what is drawn is what was recorded; the nearest surface is seen |

Components interact by calls and shared memory: `gdb_stub.c` drives `cpu_step()`
and reads and writes the simulator's state between steps; `gravityon` drives the
GPU through the ring and the doorbell port; the cores drive memory, UART and ports
over a bus. The simulator itself is sequential: its concurrency is that of events
(timer, `-i`, GPIO pins) against the program.

| Modules | Part |
|---|---|
| `NovaCpu`, `NovaCpuLive`, `NovaCpuProofs` | the simulator's control plane |
| `NovaInsn`, `NovaIsa`, `NovaPipe` | instruction set, the simulator's pipeline on it |
| `NovaRtl`, `NovaRtlProofs` | the RTL core on the same instruction set |
| `GdbStub`, `GdbStubProofs` | the debugging stub over `NovaPipe`, and its client |
| `Assembler`, `AssemblerProofs` | the two passes and the writers |
| `Uart`, `UartProofs` | two boards and the line between them |
| `GpuQueue`, `GpuRing`, `GpuRingProofs`, `GpuCore`, `GpuCoreProofs` | the GPU's command queue, in software and in hardware |
| `GravRast`, `GravCmd`, `GravCmdProofs` | drawing and command buffers |

`MC*` modules give the constants for TLC; each belongs to the module it extends.

## The simulator's control plane: `NovaCpu`

`NovaCpu.tla` models every path through `cpu_step()` and all it calls. One step of
`Next` is one call: `Poll` (`poll_interrupt_sources()`), then exactly one of

- `WaitTick`: asleep and nothing pending, one cycle passes;
- `TakeS`, `TakeM`: an interrupt enters a handler (`take_interrupt_s()`,
  `take_interrupt()`); `DropS`, `DropM`: no vector, its MIP bits are cleared;
- `Run`: fetch, prefetch, `execute()`, flush, cycle count and watchdog
  (`Finish`), with one action per group of opcodes.

| Variable | Code |
|---|---|
| `pc` | `pc`; the address `MemSize` stands for all values from `MEM_SIZE` up |
| `pipe` | `pipe_valid` and, instead of the word, the address `pipe_insn` was read from |
| `halted`, `waiting`, `priv` | `halted`, `waiting_for_interrupt`, `priv` |
| `cycles` | `cycles`, saturating at `Horizon` |
| `csr` | the fields of `csr[]` that traps and interrupts use; MSTATUS as a record |
| `gpio` | `io_ports[0xF0]`, `[0xF2]`, `[0xF3]` as sets of pins |
| `wdt` | `wdt_last_sig` (its pc) and `wdt_stall_count` |
| `extArmed`, `pinChanges` | the event of `-i` and those of the GPIO event table, not yet due |
| `taken`, `inside`, `watch` | kept for the properties: the interrupt this step takes, the levels whose handler has not returned, and for how many instructions in a row the state was the same |

Abstractions. Registers and memory have no contents: a cell of memory is the set
of words it may hold, and one is chosen at every execution, so a run covers every
program over these words, those that rewrite themselves included. Register
contents reach the model as the operand of the instruction word (the value CSRW
writes), as the choice whether a branch is taken, a divisor is zero, or a register
changed (which the watchdog's signature tells apart). The signature is
represented by what it hashes: collisions are not modelled. Registers have 64 bits, pc has
32: a value of a CSR that does not fit (`Wide`) is cut to some address (`Cut`). MIE and MIP
have the lines TIMER and EXT and one (`OTHER`) for the bits nothing raises, so that a mask which clears
too much shows. Words read beyond
memory (`fetch()` with `pc >= MEM_SIZE`) are any words. Left out: SATP and the MPU
registers, which nothing reads, the health counters, and all output.

`NovaCpuLive.tla` adds fairness. `cpu_run()` is a loop around `cpu_step()`, so
weak fairness of the step is what the code guarantees; `turn` makes every call a
step of its own, so that fairness cannot push the program towards one of its
choices.

### Runs

| Run | Question |
|---|---|
| `cpu_levels` | two programs, chosen by the first word. All instructions at all levels with any setup: `PrivMirrored`, `UnnamedLevelIsClosed`, `PrivilegeRisesByEntry`, `MachineConfigKept`. Timer and external interrupts at any instant, delegated or not, in main and handler code of both levels, which may enable its interrupts again: `WaiterIsPrivileged`, `FramesIndependent`, `WaitEndsInHandler`, `InterruptsMasked` |
| `cpu_resilient` | `-r -w 2`, with interrupts that have no vector: `PrefetchIsCurrent` (here the watchdog moves pc as well), `WatchdogExact`, `ViolationsNeverHealed`, `WatchdogFrees` |
| `cpu_live` | a timer program with handlers of two levels (`TimerWakesWaiter`) and the scheme of `gpio_irq_test.asm` against pins that change at any time and ports that are reprogrammed (`LatchedPinIsPending`, `PinsHeard`); the first word chooses between them |

`InterruptsMasked` speaks of entries, not of what they leave in a cause register: an interrupt
is taken only where it is enabled, globally and as a line, in Supervisor mode also delegated,
and never inside a handler of its level that has neither returned nor written MSTATUS.
`WatchdogExact` counts the instructions that left the state the same and compares
with the step at which the watchdog fires, in both directions. `WatchdogFrees` excepts
the CPU that is starved (`Starved`) by an interrupt without a vector, and the run has
programs which are. `PinsHeard` says that a pin is read by the program before it is
acknowledged, unless it was latched between the reading and the acknowledgement.

Bounds. Memory has 5 to 24 cells: enough for a main program, a handler of each
level and a word that runs off the end. `Horizon` exceeds every MTIMECMP value, so
the comparison `cycles >= MTIMECMP` has both outcomes and saturation is exact.
Three polls may change pins, `IrqOption` says whether `-i` is given: a pin can be
latched before, during and after a handler run. The watchdog limit is 2, the least
at which counting differs from firing at once. Runs stop at HALT, hence
`CHECK_DEADLOCK FALSE`.

### Where documents and code differ

The model shows these divergences; it does what the code does. An enabled timer interrupt
without a vector is dropped and raised again by the next poll, so that the program
makes no step and the watchdog, which counts steps, never fires (sim.c:484;
SPEC.md:627-629 says it frees a stuck program: `Starved` is the exception). A write to GPIO_INT_ST clears every
latched pin (sim.c:774), where SPEC.md:479 and the comment at sim.c:44 say that a 1
clears its own: a pin latched while another is acknowledged is lost (the exception in
`PinsHeard`). MRET takes
MPP = 3 and enters a fourth level (SPEC.md:341 names three); self-heal goes on in
Machine mode, although SPEC.md:620-623 only skips the faulty instruction; MRET leaves
MPIE and MPP (SPEC.md:465 says 1 and 0); MIP.TIMER is sticky, so an interrupt enabled after MTIMECMP was moved to a later time is taken at
once (SPEC.md:416, 508); SPEC.md:518 says WFI waits without using cycles, while
every waiting step counts one (the timer could not fire otherwise); SPEC.md:520
gives CAUSE_ERET_PRIV for WFI in User mode, the code CAUSE_CSR_PRIV; SPEC.md:345
numbers the levels in the opposite order.

### Proofs: `NovaCpuProofs`

For every memory size, program, set of pins, bound and option, TLAPS proves
`TypeOK`, `PrefetchIsCurrent`, `PrivMirrored`, `UnnamedLevelIsClosed`,
`WaiterIsPrivileged` and `WatchdogExact` as invariants and `PrivilegeRisesByEntry`,
`MachineConfigKept`, `FramesIndependent`, `WaitEndsInHandler`, `InterruptsMasked` and
`ViolationsNeverHealed` as action properties. The assumptions are those named in `NovaCpu` (sizes are numbers, options
Booleans, words are well typed, `Code` maps cells to sets of words).

The inductive invariant `IInv` is the conjunction of the invariants, with `WatchdogInv` for
`WatchdogExact`; `InterruptsMasked` takes `HandlersMasked` beside it. The others need no
strengthening, but they need each other: `UnnamedLevelIsClosed` makes MRET keep
level 3, which `PrivilegeRisesByEntry` rests on; `PrefetchIsCurrent` needs the
types of pc. The proof follows a step: `PollOK` says what the poll hands on
(`Polled`: only MIP differs); `FinishOK` is the end of every instruction;
`EnterMFrame`, `EnterSFrame` say what handler entry changes; `SameLevelOK`,
`TrapToOK`, `EretOK` prove invariant and action properties together for the
three ways an instruction can end; `ExecuteOK` has one step per instruction
and `CpuStepOK` one per branch of `cpu_step()`.

`WatchdogIsExact` follows the watchdog's count (`WatchdogInv`): it is one less than the number
of equal states behind one another, every path that does not reach the watchdog leaves both
alone, and the reset sets both back. `InterruptMaskSafe` follows the enables:
`HandlersMasked` says that inside a handler that neither returned nor wrote MSTATUS the
enable of its level is off; every entry establishes this, and an entry of one level leaves the
other's enable alone. `ViolationsNeverHealed` follows a cause through the step.

`LatchSafe` proves `LatchedPinIsPending` under two conditions on the software: no
word lowers MIP.EXT by writing MIP (`KeepsExt`), and a vector is installed while the line
is enabled (`Vectored`); without them the code itself withdraws the interrupt. The GPIO
program of `cpu_live` meets both. Its timer program writes MIP and enables no pin, so
that the run's set of words as a whole is outside `KeepsExt`, and TLC checks
that half by itself.

Only model-checked: all liveness.

## The GPU's command ring: `GpuQueue`, `GpuRing`

`GpuQueue.tla` is what the command interface promises: a queue of commands, each of
which takes effect once, in order; `ExecCmd` says which register a command writes
(`gpusim_exec_cmd()`), which are checked against the VRAM's size, and that a draw
makes an image of the registers as they are then.

`GpuRing.tla` models `gpu_cmd.h`'s ring and `gpu_sim.c`'s loop around it, and
implements the queue (`QueueSpec`).

| Variable | Code |
|---|---|
| `mem` | the ring's bytes, in cells of 32 bits (each field of header and payload is one or more); a cell names its command and its place in the packet |
| `drv` | the driver's `GPURingBuffer`: its head, and the tail it last read |
| `ring` | the GPU's `GPURingBuffer`: the head last published, the tail as read |
| `depth`, `host` | calls of `gpusim_process()` under way; whether the driver (the main program, or the IRQ callback) has the thread |
| `regs` | the GPU's state, one entry per kind |
| `irqMask`, `irqStatus` | the FRAME_DONE bit of both ports |

Actions: `Write` is `gpu_ring_write()` (a refusal changes nothing), `WriteHead`,
`ReadTail`, `Doorbell`, `WriteCtrl`, `WriteIrq` the ports of `gpusim_out()` and
`gpusim_in()`; `SkipOversize`, `ExecNext` are one round of the loop in
`gpusim_process()`, `ProcessReturns` its end. A PRESENT with the interrupt unmasked
calls the driver back from inside the loop; the callback may write, publish and ring
again, so calls nest: `MaxDepth` (2) bounds the nesting, two being the least at which
an inner loop moves the tail under an outer one. What is executed when a header and
the payload behind it belong to different commands is `Torn`, which no property
allows.

Left out: a second `gpu_setup_ring()` while commands are queued, the frame counter
and statistics, and pixel arithmetic; frame buffer ports only store values. Two calls of
`gpu_ring_write()` are left out that nothing in the repository makes: with a NULL payload and
a length, of which only the header is written while the header announces the rest
(gpu_cmd.h:245), and with a length so near 2^32 that `total` wraps and the check for room
passes (gpu_cmd.h:226). Both break `PacketsWhole`.

A command changes a set of registers (`Target`): UPLOAD_TEX writes the texture's description
and its place in `vram`.

Run `gpu_ring` (7 cells, packets of 2 to 5 cells, one of them longer than the
reader's buffer): packets wrap in the header, in the payload and at the exact end,
and the ring becomes full and empty at every position.

### Proofs: `GpuRingProofs`

For every ring size, set of commands, buffer size and nesting: `TypeOK`,
`PositionsInOrder`, `PacketsWhole` and `HeaderNamesPacket` are invariants, and
`DoorbellDrains` holds of every step. The inductive invariant is the conjunction of
the first three. The argument counts distances from the GPU's tail: `DistanceBetween`
and `AdvanceTwice` reduce the modular arithmetic to sums of distances below `Size`;
a write only touches cells at distances from `Pending` up to the driver's free space
(`WriteAppends`, `WriteStep`), which `PositionsInOrder` shows to be free although the
driver's copies are old; taking a packet shifts all distances by its length
(`FirstPacket`, `PacketsAfter`, `TakeStep`). `PacketsWhole` speaks of every cell that
starts a packet, not of a sequence of packets, so no induction over the ring is
needed.

`ImplementsQueue` proves `QueueSpec`: the ring refines `GpuQueue`. The mapping `Queue`
lists the commands between the two positions; its k-th is the one at the position in
`Firsts` with k - 1 others below it, which needs no recursion. `NthFact` says that each
number counts exactly one position (an injection between finite sets of one size is
onto), `NthAppend` and `NthTail` what a greater element, and the loss of the first with a
shift of the others, do to the count. So `Write` is `QSubmit` (`WriteSubmits`), both
ways through the loop are `QTake` (`TakeTakes`), `WriteCtrl` is `QReset`, and all other
steps are stutters (`StepOfQueue`).

## The GPU in hardware: `GpuCore`

`GpuCore.tla` is `gpu_core.v` clock by clock against the driver of `GpuRing` (whose
operators it instantiates as `D`). `Clock` is one rising edge; its conjuncts are the
blocks of the module: `Port` (registers written by OUT, the doorbell pulse), `Irq`,
`Rb` (the ring controller, one action per state), `Status` and `Exec`. `ptr` is
`rb_ptr`; `hdr`, `idx` its command and word counters, `whole` says that what was read
so far is one packet. The driver's stores and its reading of the tail happen between
clocks. Two registers are assigned by two blocks: `reg_irq_status` may take either
value when both assign it in one clock; so may `reg_status`. Registers without a
reset start at 0. The RAM answers a request with one clock of `ram_ack` after any
delay.

`gpu_core` checks it with a driver that never wraps (`Wraps` is FALSE), with payloads
of whole 64-bit words: there the hardware implements `GpuQueue` (`QueueSpec`, the
command in `exec` counted as not yet taken), is between packets when idle
(`AtPacket`), and ends every command with one exception: `rb_payload_idx` has 6 bits, so
that of a payload beyond 504 bytes (a shader of 123 instructions) it comes round to 0 before
it has counted the words, and the controller reads on for ever (gpu_core.v:246).
`CommandEnds` says both: a command ends or is such a `Runaway`, and a runaway stays one. It
assumes that the clock ticks and the RAM answers a request: fairness of `Clock` without and
with an acknowledge. `QueueSpec` has no fairness: a command whose doorbell is lost may wait for
the next one for ever, as it does in the code.

Bounds. The ring has 13 cells, the word index counts modulo `IdxMod` = 4 instead of 64
and `ptr` modulo `PtrMod` = 16 cells instead of 2^30: payloads are empty, shorter
than, as long as, and one word longer than the index counts, and the position of a runaway goes
around. Beyond the ring lies memory without packets.

One run checks a statement of the documents and finds it violated:
`gpu_core_doc_payload` (after a payload of an odd number of cells the next header is
read from the wrong place). Two more divergences have no run: one doorbell executes
one command, where the simulator executes all (gpu_core.v:219; gpu_sim.h:6), and
`rb_ptr` never wraps at RING_SIZE (gpu_core.v:238; gpu_io.h:39), so the core reads
on behind the ring.

### Proofs: `GpuCoreProofs`

`AtPacketSafe` and `ImplementsQueue`, for every size of the ring, set of commands, RAM delay
and OUT in any clock. Both have conditions, which are where the two GPUs part ways:

- `Fitting`: the driver does not wrap, payloads are whole words of 64 bits, and the word
  index can count them (`Countable`). `gpu_core_doc_payload` shows what happens without it.
- `Executable`, for `ImplementsQueue` only: a payload fits the software GPU's buffer, and a
  command has an effect in the queue only if `gpu_core.v` knows it (gpu_core.v:314-338).

Without a wrap nothing written is overwritten, so the argument is made in addresses. The
inductive invariant `IInv` has four parts. `Positions`: tail, head and the driver's own head
come in this order, and a packet begins at the first two. `Packets`: each cell below the
driver's head that starts a packet is followed by the rest of it and by the next one's start.
`Controller`: for each state of the ring controller, how far into the packet at the tail
`ptr` and the word index have come; without it the advance of `ptr` could not be related
to the header read some clocks before. `Executing`: a command handed over is one the
driver wrote, and is gone before the controller reads the next.

`QueueSpec` follows with the lemmas on counting packets that `GpuRingProofs` has for the
software ring, taken by INSTANCE: handing a command over is no step of the queue, the
clock in which `Exec` acts on it is `QTake`, `Write` is `QSubmit`.

## The instruction set, the simulator's pipeline and the RTL core

`NovaInsn.tla` holds what every machine shares: words, addresses, instructions, the
arithmetic as the table `Alu`. `NovaIsa.tla` is the base instruction set, one
instruction per step with registers, memory and ports: what `execute()` does without
levels, pipeline and clock. CONTRIBUTING.md:29-32 asks `sim.c` and `cpu.v` to agree
on it, so both are compared with it:

- `NovaPipe.tla` is `cpu_step()` on these instructions, with the word read ahead in
  `pipe` (`NoWord` while `pipe_valid` is 0). It is checked together with a debugger,
  see `GdbStub` below.
- `NovaRtl.tla` is `cpu.v` with `nova16_bram.v` and the port registers of
  `nova16_top.v`. `Clock` is one rising edge: the bus (`mem_addr`, `mem_we`,
  `mem_wdata`, `io_addr`, `io_we`) is driven by the present state, `Bram` and `Ports`
  answer, and one of `Fetch`, `Execute`, `LoadWait`, `RetWait`, `InWait` moves the
  core. `Reset` may come between any two edges and leaves memory as it is.

The refinement mapping of `NovaRtl`: an instruction takes effect in S_EXECUTE; a word
that is on its way to a register (`isaRegs`) or to pc (`isaPc`) counts as arrived.
Every other edge changes nothing `NovaIsa` sees.

Abstractions. The two machines share `Alu`, so that their arithmetic agrees is
assumed, not shown; DIV by zero, which differs (a trap in `sim.c`, 0 in `cpu.v`), is a
parameter. A shift distance and an immediate are words already extended or cut. Flags
are left out, and with them RFLAGS, which `cpu.v` numbers 0x1C where `sim.c` has ELOAD
(RFLAGS is 0x1E). Outside memory the simulator's pc and the core's 16-bit pc are
different: there `NovaIsa` allows any pc, and CALL in the last cell may push either
value. A word from a port is any word. A `cycles` output that nothing reads is left
out.

Run `rtl` (16 words, 4 cells, programs that load, store over and call into
themselves): `FetchedWord` (S_EXECUTE decodes the word pc names, also after a reset)
and `IsaSpec` (the core implements `NovaIsa`). Arithmetic modulo the number of words
and cells wraps in it. IN may return any word, so every register value and
self-modification is reached.

### Proofs: `NovaRtlProofs`

For every word size, memory, register set, decoding, arithmetic and program:
`NovaRtl` satisfies `TypeOK`, `FetchedWord`, `R0Zero` (P1 of
`formal/nova32_props.v`) and `IsaSpec`. Assumed are the sizes (0 < A < W), 0 and Sp
in Reg and different, and the types of `Decode`, `Alu` and `Program`.

`NovaRtl`'s inductive invariant is the conjunction of its three invariants. That
S_EXECUTE sees mem[pc] needs that only S_FETCH leads there and drives pc (`BramFact`);
R0 is needed because the core reads R0 as 0 while the instruction set finds 0 in it
(`RvFact`). `ExecuteImplements` has one case per kind of instruction, `StepImplements`
one per kind of edge. P2 and P4 are part of `TypeOK` and of the refinement (a halted
core takes no instruction). The first part of `GdbStubProofs` shows under the same
assumptions that `TypeOK` is inductive for `NovaPipe` and that every step keeps the promises made for
the pipeline; `Latched` says that every instruction leaves either no word or the one
memory held before it. The second part carries both over to the machine with a debugger.

## The debugging stub: `GdbStub`

`GdbStub.tla` joins `NovaPipe` with `rsp_loop()` and the client at the other end of
the TCP connection.

| Variable | Code |
|---|---|
| `stub` | where `rsp_loop()` is: waiting for a packet, in the continue loop, or done |
| `bp_table` | the breakpoint table with its count |
| `down`, `up` | the bytes of the connection: packets to the stub; `+`, `-` and answers back |
| `client`, `cmd`, `tries`, `believed` | the client (external): what it waits for, its command, how often it sent it, the breakpoints it believes set |
| `surplus`, `confused` | kept for the properties: stale answers to come, and whether there was ever one |

A handler is one action: it takes the packet, changes the machine and answers.
`WriteRegs` is `G` (it drops the word read ahead, through `nova_pc_set()`), `WriteSomeRegs` a
`G` packet that ends behind a register and so drops nothing, `WriteMem`
is `M` (`nova_mem_write_byte()`, which does not), `Step` and `Continue` are `s` and
`c`, `bp_add` and `bp_remove` are `Z` and `z`, `KillAnswer` is `k`, `Ask` everything
that only reads, `Refuse` a packet longer than the buffer, which fails its checksum.
`ContinueStep` is one turn of the loop around `cpu_step()`. The client sends one
command at a time; when the acknowledgement is late or negative it sends it again,
at most `MaxTries` times, and it may hang up. TCP loses nothing and keeps the order.
Left out: the hexadecimal text, and the bytes inside a word (a write of a cell is
one command).

Run `gdb`: 3 cells (an instruction, the cell read ahead, one that is neither), 9
words, a table of 2 breakpoints against 3 addresses, `MaxTries` 2, sessions of two
kinds: up to four commands that set, clear and meet breakpoints, and two commands
with one repetition that write registers and memory, step, continue and kill.

- `AnswersCounted`: every packet that fits is answered exactly once, so that the
  answers on their way are those waited for and one stale one per repetition (which the client
  takes for the answer to a later command: the protocol has nothing that tells them apart);
- `BreakpointsHold`: a CPU told to continue stops at every breakpoint the client
  believes set;
- `StaleByWrite`: a word read ahead goes stale only by a write to its own cell, by
  the debugger or a STORE, and for one step;
- `StepIsInstruction`: otherwise a step is one instruction of `NovaIsa`.

A closed connection ends the system, hence `CHECK_DEADLOCK FALSE`. A breakpoint may
never be met, so that no liveness of `c` can be promised.

Divergences and limits of the code that the model shows or leaves out. SPEC.md:606-609
calls the prefetch invisible to programs; a STORE into the next cell executes the old
word (`StaleByWrite` names the exception). PacketSize=3fff promises 16 383 bytes, the
buffer holds 4096, so that a longer packet is refused as often as it is sent. A
negative acknowledgement of the stub's own answer is ignored. The continue loop reads
no byte, so a client cannot interrupt it. A repeated packet is executed again, and its
second answer is taken for that to a later command (hence `confused`). A pc beyond
memory in `G` is ignored, but still drops the word read ahead.

### Proofs: `GdbStubProofs`

For every size, program, session, table and number of tries: `TypeOK` (of the machine),
`StaleByWrite` and `StepIsInstruction` hold with the debugger in the loop. The
inductive invariant is `TypeOK /\ ChannelOK`; `ChannelOK` (what is in `down` or in
`cmd` comes from the session) is needed because a handler writes what a packet
holds. Steps of the client and handlers that write nothing leave the machine alone;
`Step` and `ContinueStep` use the module's first part, the results on `cpu_step()`.

`AnswersCounted` is an induction over the steps of both ends. What it adds, `LinkOK`,
gives the types of both channels, says what the client waits for in each of its states, and
that `surplus` is what was sent again and not yet answered. `Count` is the number of
positions in a channel with a message of a kind: `CountAppend` and its companions say
what a message sent or taken does to it.

`BreakpointsHold` needs more: `InStep` says that while nothing confuses the client, the
table holds what the client believes, but for the command under way, whose effect is
given by whether its packet or its answer is in the channel. `ClientInStep` and
`HandleInStep` keep it, `ContinueInStep` uses it: the loop looks pc up after each step.

## The assembler: `Assembler`

`Assembler.tla` is `asm.c` line by line. A line is what the tokenizer yields: a label, a
mnemonic, operands (numbers, register names, other names). `process_line()` is one
step, with an action per way out: `Skip` (no instruction), `Measure` (pass 1),
`Encode` (pass 2), and the errors `BadLabel`, `BadInsn`, `TooBig`, which leave
`word_addr` alone; whether the line's label is in the table after an error depends on
which error it was, as in the code. `EndPass1`, `Fail`, `write_bin`, `write_elf` and
`CannotOpen` are the steps of `main()`. `encode` keeps mnemonic, registers and the
immediate cut to its field; where they lie in the word is left out, as are the
tokenizer and the ELF headers.

Run `asm`: every source of up to four of eighteen lines, with immediates of two bits
(`Half` = 2), two labels, three instructions and one tolerated error, so that each
limit is met by sources of this length. The program ends, hence `CHECK_DEADLOCK FALSE`.

- `PassesAgree`: pass 2 meets every label at the address pass 1 recorded;
- `WrittenMeansSource`: the file holds the source's instructions in order, each branch
  leads to its label, and each number is the one written, as `execute()` extends it;
- `AcceptsExactly`: a file is written for exactly the `Legal` sources, which are
  defined without passes and table. It makes the oddities part of what is stated: a
  forward branch counts as one to address 0 in pass 1, so from word 1024 on none is
  accepted (`Place + 1 <= Half` in `LegalInsn`: the rejection is part of the definition, and
  no property calls it wrong); the 1025th label and those after it are dropped with a message only, and
  are an error where they are used.

Divergences. LI accepts 1024 to 2047 and loads a negative number. A symbol's value in
the ELF file is 8 times its word address, while `.text` holds words of 4 bytes. `fgets`
splits lines longer than 255 characters (not modelled).

### Proofs: `AssemblerProofs`

For every set of sources, every register table and all limits, `PassesAgree`. The
inductive invariant adds `Counted` (`word_addr` is the number of instructions before
the current line, while the pass has no error) and `Collected` (every label of the
table was entered at its place). The only counting fact is `PlaceNext`: a line with
an instruction moves what follows by one; it rests on the library's theorems on
finite sets.

For `WrittenMeansSource` and `AcceptsExactly` the invariant (`RunInv`) says of each pass
what it has done so far without mentioning the pass: the table is that of the first
labels of the source that fit (`TableOf`); pass 1 has found no error up to a line exactly
if each line before satisfies `FirstOK`, pass 2 if each satisfies `SecondOK`, two
predicates over the source; and the words in the buffer are those of the lines before
(`Encoded`, `WordMeans`). `LegalJoin` and `LegalSplit` show that both predicates together
are `Legal`. Assumed beside the sizes: a blank line is neither an instruction nor an
overlong line.

## The serial line: `Uart`

`Uart.tla` is two boards, clock by clock: the sender's core and `uart_tx`, the line,
`uart_rx`, the receive buffer and the receiver's core. `Clock` is one rising edge;
all registers take new values from old ones, as non-blocking assignments do. Each
core is the cycle of `cpu.v`: FETCH, EXECUTE, and for IN, LOAD and RET a third clock
(`WAIT`). Its program is free, with instructions of two and of three clocks, but for what
UART programs do, look at the status port before the data port. `tx`, `rx` are the
registers of the two state machines, `out` is `tx_data`, `tx_valid` in the top
level, `sync` the two synchronizing flip-flops, `buf` the receive buffer with its
flag. `inflight` and `unread` record what was sent and stored.

Run `uart`: 2 data bits (first, last, and a step between them), pairs of divisors
<<4,4>>, <<9,8>> and <<8,9>>, spikes of one clock on an idle line (with equal divisors;
both at once exceed what half-bit sampling bears), and receivers that run at most one
other instruction between two ports or are lazy. The divisors 8 and 9 are further apart
than any board's clocks: a byte of two bits is over before they are half a bit out of step. With
the eight bits of the real frame that point comes at about 5 %, which no run exercises.

- `LinkDelivers`: every byte received is the oldest one in flight, and as long as one is in
  flight another is received;
- `ReadsFresh`: a program that saw `rx_valid` reads a byte it has not read;
- `PromptReaderLosesNothing`: a receiver that comes back within a frame reads all.

Fairness is weak fairness of `Clock`: the clock ticks. It is all that is assumed; the
programs may wait for ever. Reading the port clears the flag also in the clock in which
a byte is stored (uart.v:257): a reader that is late by a frame loses that byte without
notice, which is why the last property speaks of prompt readers, whom it does not happen to.
Lazy receivers meet it in the run, and no property calls it wrong. A reset in the
middle of a frame is left out.

### Proofs: `UartProofs`

`ReadsFresh` for every number of bits, pair of divisors and program. The inductive
invariant is a chain: what the program saw is still flagged, and what is flagged is
unread; it holds because only the program's own read lowers the flag.

`PromptSafe` proves `PromptReaderLosesNothing` for all programs and divisors with
`Timely`: two rounds through the ports, 6 `MaxGap` + 6 clocks with every instruction one
of three, fit into the time from one stored byte to the earliest next, half a bit and
`Bits` + 1 whole ones. In the run that is 12 clocks of 14 for the divisor 4. With the
board's divisor 868 (100 MHz at 115200 baud, nova16_top.v:95) and 8 bits it is 8246
clocks, which leaves room for 1373 instructions between two ports. The invariant compares two
counts of clocks: `NextByte`, the fewest until a byte can be stored, falls by at most
one in a clock (`RxNext`, one case per state of `uart_rx`); `NextRead`, the most until the
program reads a byte that is there, falls by at least one until it does (`ReadNext`).
While a byte is flagged, `NextRead` is the smaller (`InTime`).

`LinkDelivers` compares both ends of the line bit by bit over a whole frame and is a
liveness property besides: it stays with TLC.

## Command buffers and drawing: `GravRast`, `GravCmd`

`GravRast.tla` holds the pure part of `gravityon.c`: the viewport transformation,
culling, barycentric coverage, the bounding box cut by scissor and image, the depth
comparison, and `draw_line()` over the turns of its loop (`Walk`, a recursive function).
Coordinates are whole half pixels, so that nothing is rounded; w is 1, a triangle has one
depth, and varyings are constant. `InTriangle` (weighted means of the corners) and `Joins` (a chain of
neighbouring pixels) say what coverage and lines are without that arithmetic.

`GravCmd.tla` is the rest, with the application around it:

| Variable | Code |
|---|---|
| `created`, `gone` | the `gravCreate*` calls made, and the objects destroyed |
| `null`, `wild` | the failed calls, by what the application's variable holds since: NULL, or what an uninitialised one held |
| `recording`, `cmds` | the `GravCommandBuffer` |
| `pixels` | the memory of each image |
| `state`, `at` | `RastState` and the command `gravSubmitCommandBuffer()` executes |
| `memory` | the application's uniform data, which it may change (`Update`) |
| `accepted`, `drawn`, `undefined` | kept for the properties: commands acknowledged, draws made, a bad handle used |

A `gravCreate*` that fails returns its error and does not write the handle
(gravityon.c:372-377, 421-423). An application that sets its variables to NULL first has NULL;
one that does not (gravityon/README.md:69-75, `initialised` is FALSE) has NULL or a pointer
to nothing by chance, which passes every check. Using the latter counts as a fault even
where it happens to point to something. An application destroys only what it created.
Creation of instance, device and command buffer succeeds.

`Record` is `gravCmd*` with `push_cmd()`; `Execute` is one turn of the submission's
loop, with one action per type of command; `Fault` stands for the use of a handle that
is NULL, never written or destroyed, after which C promises nothing. Which handles a command dereferences, and
in which order its early returns come, is `Touched`. Vertex and index data are given
with the buffer; draws stay within it, because the code does not check.

Run `grav`: two images of 2 x 2 pixels and six kinds of application: three surfaces
in any order under several pipelines; any order of passes, bindings, scissors and
draws, submitted twice; uniforms of several sizes that change before, between and after
the draws; one failed creation or destroyed object at any place; the same with uninitialised variables,
with two passes, offsets and indexed draws; and wireframes of all
slopes, partly outside the image. Draws begin with the first vertex or with a later one.

`Painting` is `execute_draw()`'s loop over its triangles as a recursive function, and
`AreaViewport` the viewport that a render pass begins with. `GravAssumption` types what an
application hands over as `gravityon.h` does: viewports and scissors of integers, images with
a width and a height, a count of vertices, framebuffers made of images.

- `DrawsAsRecorded`: each draw uses what was last bound or set before it in the accepted
  commands (read from the list, without executing it), and no draw is missing. Its vertices
  are those it names (`Ranged`) if it begins with the first one: the code takes no
  notice of `firstVertex` and `vertexOffset`;
- `OnlyStrayHandlesHurt`: a bad dereference needs an object that the commands reach and that
  was destroyed, or whose creation failed with an uninitialised variable; a handle that reads
  NULL never leads to one;
- `NearestWins`: in a pass that clears both images and tests depth, each pixel shows
  the nearest surface, or the clear colour, in whatever order they were drawn;
- `OutlineJoins`: wireframe lines are connected, end, and show their corners.

An application stops when its menu is used up: `CHECK_DEADLOCK FALSE`.

Run `grav_doc_range` checks `DrawsItsRange`, that a draw takes the vertices from the one it
names on, and finds it violated: `firstVertex` and `vertexOffset` are recorded
(gravityon.c:582, 592) but never used (gravityon.c:983, 991), where gravityon.h:408-409
declares them, gpu_cmd.h:82 explains the first, and the software GPU obeys it (gpu_sim.c:542).

Other divergences. Without a depth
image the depth test still runs against 1.0 (gravityon.c:637, 760; gravityon.h:226 says
there is none); `inRenderPass` is never read, so that a draw behind
`gravCmdEndRenderPass()` still hits the framebuffer; the errors for a missing render
pass or pipeline are never returned, such draws are skipped; lists of lines and points
are drawn as triangles; a wireframe ignores scissor and depth; a pixel on a shared
edge is shaded by both triangles; a depth image smaller than the colour image is read
beyond its end (the model's have one size).

### Proofs: `GravCmdProofs`

`HandlesSafe` proves `OnlyStrayHandlesHurt` for every set of objects, application, recording and number of
submissions. The inductive invariant adds `Setting` (types; what failed was
tried), `Shaded` (a pipeline that exists has a shader that existed), `Recording`
(the buffer holds the accepted commands, none of which was recorded with a NULL handle
the library checks) and `BoundHeld` (what is bound came from a command of this
buffer, and the pipeline's handle was followed when it was bound). Then each handle in
`Touched` is one that NULL was excluded for, and one of `Reached`; if it is not live, it was
destroyed or never written.

`RecordingSafe` proves `DrawsAsRecorded`, which reads each draw's settings from the list of
commands. `StateMeans` says this of the state in the middle of a submission: each
field of `state` is what the last command before `at` that sets it gave; `Listed`, that
the draws made are those before `at`, in order and each once. `FirstVertices` adds that a
range which begins with the first vertex is what the code reads. `DrawInv` joins them with
what is left of earlier submissions. Assumed: a pipeline's own uniforms are absent or the
application's memory, which is what `gravCreateGraphicsPipeline()` can be given.

`LineJoins`: for all integer end points `draw_line()` arrives after `Length` turns, no
earlier, and its pixels are neighbours. The invariant of its loop (`Flat` and `Steep`, for the
longer axis) says that turn n has gone n pixels along the longer axis, what the error term is
in terms of the pixels gone along both, and bounds it on both sides; at the end the bounds
leave one place for the shorter axis (`Arrival`). The library's induction
theorems cannot be instantiated here, so `Induction` over a set of numbers is derived from
the well-foundedness of `<` on Nat; with it the recursive functions of the model, which are
functions on 0 .. n, can be proved about.

`OutlinesSafe` proves `OutlineJoins` from it. What is added to the invariant is that an
existing image has all its pixels (`ImagesWhole`), that viewports and draws are typed
(`Places`), and that the corners of the last wireframe are white right after the draw
(`LastWhite`). The condition is `Within`: no draw has read a vertex outside its buffer. The code
does not check this, and what lies there is not modelled.

`CoveredIsTriangle`: the three signs that `rasterize_triangle()` compares are those of a
point that is a weighted mean of the corners, so that it fills the closed triangle, for
every triangle with an area. `FragmentFact` adds that the bounding box never cuts off
a covered pixel, for all its rounding.

`NearestSafe` proves `NearestWins`. The inductive invariant `PassNearest` says at each
command of a submission what the property says of a pass, and that the depth image holds
the depth of the surface seen: only then does the comparison with one number decide against
all surfaces drawn before (`NearestStep`). Its conditions are

- `Paired`: a framebuffer's two images are two and of one size. The code compares neither;
  a smaller depth image is read beyond its end.
- `Upright`: no viewport is flat or mirrored. A mirrored one turns every triangle around,
  so that the other faces are culled, which the property, stated before the transformation,
  does not follow; a flat one leaves no area.
- `Within`, as above.

`PassNearest` was checked by TLC on the run `grav` before it was proved.

## What is proved, and what is only checked

Every theorem is over arbitrary constants, under the named assumptions of its modules,
which TLC evaluates in the runs. Some theorems have a condition of their own: `LatchSafe`
on the program (`KeepsExt`, `Vectored`), `PromptSafe` on the program's pace (`Timely`);
`AtPacketSafe` and `ImplementsQueue` of `GpuCoreProofs` have the conditions on the driver named
there, `OutlinesSafe` and `NearestSafe` those on vertices, images and viewports.

Refinements are proved for the RTL core (`IsaSpec`) and for the GPU's ring in software
and in hardware (`QueueSpec`). Recursive functions over the naturals are within reach of the
proofs (`Induction` in `GravCmdProofs`). Only model-checked, on the instances above:

- `LinkDelivers`: the phase of two clocks with different divisors against each other, bit by
  bit over a frame; its invariant would have to bound the drift at every bit;
- all liveness (`WatchdogFrees`, `TimerWakesWaiter`, `PinsHeard`, `CommandEnds`,
  `LinkDelivers`), which is beyond the prover.

## Not modelled

- EEPROM: an array two instructions use, loaded before the first step and saved after
  the last. The file is truncated before it is written, holds the low 32 bits of each
  word, and is written only at the normal end and if something changed: a crash or a
  closed debugger connection loses the run's ESTOREs. No text promises more.
- Data path, flags, AES, hash, random numbers, GPU bytecode, fixed-point mathematics:
  sequential arithmetic. The models take arithmetic as a parameter.
- The interactive debugger `dbg.c`: a command loop over its own copy of the base
  instructions, to which `NovaIsa` applies. Two points met while reading it: an entry
  of the breakpoint table is only deactivated, never used again, so that the table
  fills; and `bp_hit` compares an unmasked pc.
- `cpu_synth.v`: a second implementation of traps and levels that nothing in the
  repository simulates. It differs from `sim.c` in what MEPC holds after an
  ECALL (its own address, so that ERET repeats it), halts when MTVEC is 0, takes a
  port's old word for IN, and never consults `mpu_check`: there is no common
  specification to check both against.
- GPU: shader, depth, frame buffer and VGA blocks, which are not connected to
  `gpu_core.v`; a second `gpu_setup_ring()` while commands are queued.
- Options, binary loading, dumps, image files, examples, display wiring, the netlist:
  I/O or generated.

## Plan

Done: `NovaCpu` with liveness and proofs; the GPU queue in software and hardware; the
instruction set with pipeline and RTL core; the debugging stub; the assembler; the
serial line; command buffers and drawing; the proofs named above. Open:

1. `LinkDelivers`' order, by an invariant that bounds, at each bit of a frame, the distance between
   the sender's and the receiver's clock;
2. a second `gpu_setup_ring()` while commands are queued (gpu_io.h:176), which no property
   covers yet.
