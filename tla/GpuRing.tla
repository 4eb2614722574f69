------------------------------- MODULE GpuRing -------------------------------
(***************************************************************************)
(* The GPU command ring (gpu_cmd.h) between a driver and the simulated GPU *)
(* (gpu_sim.c).  The driver fills the ring through its own GPURingBuffer,  *)
(* tells the GPU its head with OUT RING_HEAD, learns the GPU's tail with   *)
(* IN RING_TAIL, and rings the doorbell; gpusim_process() then runs inside *)
(* that OUT.  A PRESENT may call the driver back in the middle of it, and  *)
(* the callback may do all of this again.                                  *)
(*                                                                         *)
(* A cell stands for 32 bits and says which command it belongs to and its  *)
(* place in the packet.                                                    *)
(***************************************************************************)
EXTENDS Naturals, Sequences, FiniteSets

CONSTANTS Size,         \* cells of the ring
          Cmd, BufCells,
          Torn,         \* what is executed when header and payload do not belong together
          MaxDepth      \* bound: nested calls of gpusim_process()

HdrCells == 2           \* sizeof(GPUCmdHeader): type and payloadBytes
Cells(c) == HdrCells + c.len

ASSUME SizeAssumption == Size \in Nat /\ Size > HdrCells
ASSUME DepthAssumption == MaxDepth \in Nat
ASSUME BufAssumption == BufCells \in Nat
ASSUME CmdAssumption  == /\ \A c \in Cmd : c.len \in Nat
                         /\ Torn \notin Cmd

VARIABLES mem,          \* ring memory
          drv,          \* the driver's GPURingBuffer
          ring,         \* the GPU's: head as last published, tail as read
          depth,        \* calls of gpusim_process() under way
          host,         \* the driver runs (at the top, or in the IRQ callback)
          regs,
          irqMask, irqStatus    \* GPU_IRQ_FRAME_DONE

vars == <<mem, drv, ring, depth, host, regs, irqMask, irqStatus>>

Index == 0 .. Size - 1
Blank == [cmd |-> Torn, off |-> 0]            \* the memset of gpu_ring_init()
Cell  == [cmd : Cmd \union {Torn}, off : Nat]
Ring  == [head : Index, tail : Index]

-----------------------------------------------------------------------------
(* gpu_cmd.h *)

Distance(from, to) == IF to >= from THEN to - from ELSE Size - from + to
Used(rb) == Distance(rb.tail, rb.head)
FreeNoGap(rb) == Size - Used(rb)
Free(rb) == Size - Used(rb) - 1               \* gpu_ring_free()
Empty(rb) == rb.head = rb.tail                \* gpu_ring_empty()

Advance(x, n) ==                              \* the two branches of every copy
    LET remaining == Size - x
    IN  IF remaining >= n THEN (x + n) % Size ELSE n - remaining

SkipClipped(x, n) == (x + BufCells) % Size
Skip(x, n) == (x + n) % Size                  \* gpu_ring_skip()

Written(c) ==                                 \* memory after gpu_ring_write()
    [i \in Index |-> LET d == Distance(drv.head, i)
                     IN  IF d < Cells(c) THEN [cmd |-> c, off |-> d] ELSE mem[i]]

-----------------------------------------------------------------------------
(* The driver *)

Q == INSTANCE GpuQueue WITH queue <- << >>

Init == /\ mem = [i \in Index |-> Blank]
        /\ drv = [head |-> 0, tail |-> 0] /\ ring = [head |-> 0, tail |-> 0]
        /\ depth = 0 /\ host = TRUE
        /\ regs = Q!NewRegs
        /\ irqMask = FALSE /\ irqStatus = FALSE

WriteUnheaded(c) ==
    /\ host
    /\ Free(drv) >= c.len
    /\ mem' = Written(c)
    /\ drv' = [drv EXCEPT !.head = Advance(Advance(drv.head, HdrCells), c.len)]
    /\ UNCHANGED <<ring, depth, host, regs, irqMask, irqStatus>>
\* gpu_ring_write() of a payload that is there and whose size does not overflow: -1
\* changes nothing.
Write(c) ==
    /\ host
    /\ Free(drv) >= Cells(c)
    /\ mem' = Written(c)
    /\ drv' = [drv EXCEPT !.head = Advance(Advance(drv.head, HdrCells), c.len)]
    /\ UNCHANGED <<ring, depth, host, regs, irqMask, irqStatus>>

WriteHead ==                                  \* OUT RING_HEAD
    /\ host
    /\ ring' = [ring EXCEPT !.head = drv.head]
    /\ UNCHANGED <<mem, drv, depth, host, regs, irqMask, irqStatus>>

ReadTailAhead ==
    /\ host
    /\ drv' = [drv EXCEPT !.tail = ring.head]
    /\ UNCHANGED <<mem, ring, depth, host, regs, irqMask, irqStatus>>
ReadTail ==                                   \* IN RING_TAIL
    /\ host
    /\ drv' = [drv EXCEPT !.tail = ring.tail]
    /\ UNCHANGED <<mem, ring, depth, host, regs, irqMask, irqStatus>>

Doorbell ==                                   \* OUT DOORBELL: gpusim_process() starts
    /\ host /\ depth < MaxDepth
    /\ depth' = depth + 1
    /\ host' = FALSE
    /\ UNCHANGED <<mem, drv, ring, regs, irqMask, irqStatus>>

WriteCtrl ==                                  \* OUT CTRL, GPU_CTRL_RESET
    /\ host
    /\ regs' = Q!CtrlReset(regs)
    /\ UNCHANGED <<mem, drv, ring, depth, host, irqMask, irqStatus>>

WriteIrq ==                                   \* OUT IRQ_MASK, OUT IRQ_CLEAR
    /\ host
    /\ \/ irqMask' \in BOOLEAN /\ irqStatus' = irqStatus
       \/ irqStatus' = FALSE /\ irqMask' = irqMask
    /\ UNCHANGED <<mem, drv, ring, depth, host, regs>>

CallbackReturns ==                            \* back into the loop that called it
    /\ host /\ depth > 0
    /\ host' = FALSE
    /\ UNCHANGED <<mem, drv, ring, depth, regs, irqMask, irqStatus>>

-----------------------------------------------------------------------------
(* gpusim_process() *)

At(i) == mem[Advance(ring.tail, i)]
HdrCmd == At(0).cmd                           \* hdr.type
HdrLen == At(1).cmd.len                       \* hdr.payloadBytes
Received == IF \A i \in 0 .. HdrCells + HdrLen - 1 : At(i) = [cmd |-> HdrCmd, off |-> i]
            THEN HdrCmd ELSE Torn

NoHeaderStrict == Used(ring) <= HdrCells
NoHeader == Empty(ring) \/ Used(ring) < HdrCells      \* the loop ends

SkipOversize ==
    /\ ~host /\ ~NoHeader
    /\ HdrLen > BufCells
    /\ ring' = [ring EXCEPT !.tail = Skip(Advance(@, HdrCells), HdrLen)]
    /\ UNCHANGED <<mem, drv, depth, host, regs, irqMask, irqStatus>>

Present(c) ==                                 \* case GPU_CMD_PRESENT, and its callback
    IF c.type = "PRESENT" /\ irqMask
    THEN irqStatus' = TRUE /\ host' = TRUE
    ELSE UNCHANGED <<irqStatus, host>>

ExecNext ==
    /\ ~host /\ ~NoHeader
    /\ HdrLen <= BufCells
    /\ ring' = [ring EXCEPT !.tail = Advance(Advance(@, HdrCells), HdrLen)]
    /\ regs' = Q!ExecCmd(regs, Received)
    /\ Present(Received)
    /\ UNCHANGED <<mem, drv, depth, irqMask>>

ProcessReturns ==
    /\ ~host /\ NoHeader
    /\ depth' = depth - 1
    /\ host' = TRUE
    /\ UNCHANGED <<mem, drv, ring, regs, irqMask, irqStatus>>

-----------------------------------------------------------------------------
Next == \/ \E c \in Cmd : Write(c)
        \/ WriteHead \/ ReadTail \/ Doorbell \/ WriteCtrl \/ WriteIrq \/ CallbackReturns
        \/ SkipOversize \/ ExecNext \/ ProcessReturns

Spec == Init /\ [][Next]_vars

-----------------------------------------------------------------------------
(* Properties *)

\* Every index stays inside the ring and every cell of it holds a piece of a command;
\* the loop never runs without a call (gpu_cmd.h:208-296).
TypeOK == /\ mem \in [Index -> Cell]
          /\ drv \in Ring /\ ring \in Ring
          /\ depth \in 0 .. MaxDepth
          /\ host \in BOOLEAN /\ (depth = 0 => host)
          /\ irqMask \in BOOLEAN /\ irqStatus \in BOOLEAN

Pending == Distance(ring.tail, drv.head)      \* cells written and not yet read
Starts(d) == mem[Advance(ring.tail, d)].off = 0

\* The three positions lie in the order tail seen by the driver, tail, published head,
\* written head around the ring: what the driver believes free is free, although its copy
\* of the tail is old, and full is never mistaken for empty (gpu_ring_free()).
PositionsInOrder == /\ Distance(drv.tail, ring.tail) + Pending = Used(drv)
                    /\ Used(ring) <= Pending

\* Between the GPU's tail and the driver's head the ring holds whole packets one after
\* another, and the published head lies between two of them: no wrap-around of a header or
\* payload, and no later write, tears a command that was not yet read (gpu_ring_write()).
WholeAt(d) ==
    LET c == mem[Advance(ring.tail, d)].cmd
    IN  /\ c \in Cmd
        /\ d + Cells(c) <= Pending
        /\ \A j \in 0 .. Cells(c) - 1 : mem[Advance(ring.tail, d + j)] = [cmd |-> c, off |-> j]
        /\ d + Cells(c) < Pending => Starts(d + Cells(c))
PacketsWhole == /\ Pending > 0 => Starts(0)
                /\ \A d \in 0 .. Pending - 1 : Starts(d) => WholeAt(d)
                /\ Used(ring) < Pending => Starts(Used(ring))

\* A header the loop reads belongs to one command, and the payload it names has been
\* written and published: gpu_ring_read_payload() itself does not look.
HeaderNamesPacket == ~NoHeader => /\ Received \in Cmd
                                  /\ Cells(Received) <= Used(ring)

\* gpusim_process() returns only when all that was published has been read, also when an
\* oversize packet was skipped or the callback published more meanwhile.
DoorbellDrains == [][depth' < depth => Empty(ring)]_vars

\* The ring implements the queue: commands take effect once each, in the order written,
\* with interrupts, nested doorbells and stale copies of head and tail in between.
Firsts == {d \in 0 .. Pending - 1 : Starts(d)}
Nth(S, k) == CHOOSE d \in S : Cardinality({e \in S : e < d}) = k - 1
Queue == LET F == Firsts
         IN  [k \in 1 .. Cardinality(F) |-> mem[Advance(ring.tail, Nth(F, k))].cmd]
A == INSTANCE GpuQueue WITH queue <- Queue
QueueSpec == A!QSpec
=============================================================================
