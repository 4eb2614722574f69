------------------------------- MODULE GpuCore -------------------------------
(***************************************************************************)
(* The GPU in hardware (gpu_core.v): the state machine that fetches the    *)
(* driver's commands from the shared RAM, 64 bits at a time, and the port  *)
(* registers around it.  One Clock step is one rising edge: every block of *)
(* the module reads the old values, at most one OUT of the CPU arrives and *)
(* the RAM may answer.  The driver is that of GpuRing, and so are the cells*)
(* of 32 bits; the core has no notion of the size of the ring.             *)
(*                                                                         *)
(* Registers without a reset start at 0, as the bitstream loads them.      *)
(***************************************************************************)
EXTENDS Naturals, Sequences

CONSTANTS Size,         \* cells of the ring, as the driver sees it
          Cmd, BufCells, Torn,
          IdxMod,       \* 2^6: rb_payload_idx
          PtrMod,       \* 2^32: rb_ptr, in cells
          Wraps         \* the driver goes on at the ring's start when it reached the end

ASSUME SizeAssumption == Size \in Nat /\ Size > 2
ASSUME BufAssumption == BufCells \in Nat
ASSUME CmdAssumption == /\ \A c \in Cmd : c.len \in Nat
                        /\ Torn \notin Cmd
ASSUME IdxAssumption == IdxMod \in Nat \ {0}
ASSUME PtrAssumption == PtrMod \in Nat /\ PtrMod >= Size

VARIABLES mem, drv,     \* the driver's ring
          head, tail,   \* reg_ring_head, reg_ring_tail
          doorbell,     \* doorbell_pulse
          irqMask, irqStatus,
          rbState, ptr, \* rb_state, rb_ptr
          hdr, idx,     \* rb_cmd_type and rb_payload_sz, rb_payload_idx
          whole,        \* what was read so far is one packet
          req, acked,   \* ram_req; ram_ack was up in the last clock
          exec,         \* << >>, or the command behind exec_cmd_valid
          status,       \* reg_status: RESET 0x41, BUSY 0x02, IDLE 0x01, EMPTY 0x45
          regs          \* viewport, scissor, raster and depth state

port == <<head, doorbell, irqMask>>
ring == <<rbState, ptr, hdr, idx, whole, req, tail>>
vars == <<mem, drv, port, irqStatus, ring, acked, exec, status, regs>>

D == INSTANCE GpuRing WITH ring <- [head |-> head, tail |-> tail], depth <- 0, host <- TRUE, MaxDepth <- 0
Q == INSTANCE GpuQueue WITH queue <- << >>

-----------------------------------------------------------------------------
Init == /\ mem = [i \in D!Index |-> D!Blank]
        /\ drv = [head |-> 0, tail |-> 0]
        /\ head = 0 /\ tail = 0 /\ doorbell = FALSE
        /\ irqMask = FALSE /\ irqStatus = FALSE
        /\ rbState = "IDLE" /\ ptr = 0 /\ hdr = [cmd |-> Torn, len |-> 0] /\ idx = 0 /\ whole = TRUE
        /\ req = FALSE /\ acked = FALSE
        /\ exec = << >>
        /\ status = "RESET"
        /\ regs = Q!NewRegs

-----------------------------------------------------------------------------
(* The driver: stores into the ring, and what it knows of the tail *)

Write(c) == /\ D!Free(drv) >= D!Cells(c)
            /\ Wraps \/ drv.head + D!Cells(c) < Size
            /\ mem' = D!Written(c)
            /\ drv' = [drv EXCEPT !.head = D!Advance(D!Advance(drv.head, D!HdrCells), c.len)]
            /\ UNCHANGED <<port, irqStatus, ring, acked, exec, status, regs>>

ReadTail == /\ tail < Size
            /\ drv' = [drv EXCEPT !.tail = tail]
            /\ UNCHANGED <<mem, port, irqStatus, ring, acked, exec, status, regs>>

-----------------------------------------------------------------------------
(* Port registers: the pulse falls only in a clock without an OUT *)

Outs == {"none", "doorbell", "head", "mask", "unmask", "clear", "other"}

Port(out) ==
    /\ doorbell' = ((out = "doorbell") \/ (doorbell /\ out # "none"))
    /\ head' = IF out = "head" THEN drv.head ELSE head
    /\ irqMask' = ((out = "mask") \/ (irqMask /\ out # "unmask"))

\* Two blocks assign reg_irq_status: when both do in one clock either may be last.
Raise == rbState = "EXEC" /\ hdr.cmd.type = "PRESENT" /\ irqMask
Irq(out) == IF Raise /\ out = "clear" THEN irqStatus' \in BOOLEAN
            ELSE irqStatus' = (Raise \/ (irqStatus /\ out # "clear"))

-----------------------------------------------------------------------------
(* The ring controller *)

RamCell(i) == IF i < Size THEN mem[i] ELSE D!Blank     \* beyond the ring: other memory
RbEmpty == ptr = head
NextWord == (ptr + 2) % PtrMod                         \* rb_ptr + 8
Starts == rbState = "IDLE" /\ doorbell /\ ~RbEmpty

Idle == /\ rbState = "IDLE"
        /\ rbState' = IF Starts THEN "FETCH" ELSE "IDLE"
        /\ req' = FALSE
        /\ UNCHANGED <<ptr, hdr, idx, whole, tail>>

Fetch == /\ rbState = "FETCH"
         /\ rbState' = "WAIT" /\ req' = TRUE
         /\ UNCHANGED <<ptr, hdr, idx, whole, tail>>

Wait(ack) ==
    /\ rbState = "WAIT"
    /\ IF ack
       THEN LET c == RamCell(ptr).cmd
                n == RamCell(ptr + 1).cmd.len
            IN  /\ hdr' = [cmd |-> c, len |-> n]
                /\ whole' = \A i \in {0, 1} : RamCell(ptr + i) = [cmd |-> c, off |-> i]
                /\ ptr' = NextWord /\ idx' = 0 /\ req' = FALSE
                /\ rbState' = IF n > 0 THEN "PAYLOAD" ELSE "EXEC"
                /\ tail' = tail
       ELSE UNCHANGED ring

MoreByOne == 2 * idx <= hdr.len
More == 2 * idx < hdr.len                     \* rb_payload_idx*8 < rb_payload_sz

\* Of a longer payload the index comes round to 0 before it has counted the words, and
\* the controller reads on over the whole of memory.
Countable(n) == n <= 2 * (IdxMod - 1)

PayloadUnasked(ack) ==
    /\ rbState = "PAYLOAD"
    /\ IF ~More
       THEN rbState' = "EXEC" /\ req' = FALSE /\ UNCHANGED <<ptr, hdr, idx, whole, tail>>
       ELSE IF ack THEN ptr' = NextWord /\ idx' = (idx + 1) % IdxMod /\ UNCHANGED <<rbState, req, hdr, whole, tail>>
       ELSE UNCHANGED ring
Payload(ack) ==
    /\ rbState = "PAYLOAD"
    /\ IF ~More
       THEN rbState' = "EXEC" /\ req' = FALSE /\ UNCHANGED <<ptr, hdr, idx, whole, tail>>
       ELSE IF ack
       THEN /\ whole' = (whole /\ \A i \in {0, 1} :
                            2 * idx + i < hdr.len =>
                               RamCell(ptr + i) = [cmd |-> hdr.cmd, off |-> 2 + 2 * idx + i])
            /\ ptr' = NextWord /\ idx' = (idx + 1) % IdxMod /\ req' = FALSE
            /\ UNCHANGED <<rbState, hdr, tail>>
       ELSE req' = TRUE /\ UNCHANGED <<rbState, ptr, hdr, idx, whole, tail>>

Issue == /\ rbState = "EXEC"
         /\ tail' = ptr
         /\ rbState' = "IDLE"
         /\ UNCHANGED <<ptr, hdr, idx, whole, req>>

Rb(ack) == Idle \/ Fetch \/ Wait(ack) \/ Payload(ack) \/ Issue

\* The controller and the status block both assign reg_status.
SeenEmpty == rbState = "IDLE" /\ tail = head
Assigned == (IF Starts THEN {"BUSY"} ELSE {}) \union (IF SeenEmpty THEN {"EMPTY"} ELSE {})
              \union (IF rbState = "EXEC" THEN {"IDLE"} ELSE {})
Status == status' \in IF Assigned = {} THEN {status} ELSE Assigned

-----------------------------------------------------------------------------
(* The execute block: exec_cmd_valid is up for one clock *)

CoreTypes == {"SET_VIEWPORT", "SET_SCISSOR", "SET_RASTER", "SET_DEPTH"}

ExecHeld == IF rbState = "EXEC" THEN <<IF whole THEN hdr.cmd ELSE Torn>> ELSE exec
ExecValid == IF rbState = "EXEC" THEN <<IF whole THEN hdr.cmd ELSE Torn>> ELSE << >>

Exec == /\ exec' = ExecValid
        /\ regs' = IF exec # << >> /\ exec[1].type \in CoreTypes
                   THEN Q!ExecCmd(regs, exec[1]) ELSE regs

-----------------------------------------------------------------------------
\* The RAM answers a request with one clock of ram_ack, after any time.
Clock(out, ack) == /\ ack => req /\ ~acked
                   /\ acked' = ack
                   /\ Port(out) /\ Irq(out) /\ Rb(ack) /\ Status /\ Exec
                   /\ UNCHANGED <<mem, drv>>

Next == \/ \E c \in Cmd : Write(c)
        \/ ReadTail
        \/ \E out \in Outs, ack \in BOOLEAN : Clock(out, ack)

Fairness == /\ WF_vars(\E out \in Outs : Clock(out, FALSE))
            /\ WF_vars(\E out \in Outs : Clock(out, TRUE))

Spec == Init /\ [][Next]_vars
FairSpec == Spec /\ Fairness

-----------------------------------------------------------------------------
(* Properties *)

\* Commands reach the execute block whole, once each and in the order written, whatever
\* the RAM's delays, lost doorbells and OUTs in the same clock (gpu_core.v:209-280).
Waiting == exec \o D!Queue
A == INSTANCE GpuQueue WITH queue <- Waiting
QueueSpec == A!QSpec

\* A command once begun comes to its end if and only if the word index can count its
\* payload, which is up to 504 bytes: of a longer one the controller never lets go, and
\* neither OUT nor doorbell gets it out (gpu_core.v:244-260).
Runaway == rbState = "PAYLOAD" /\ ~Countable(hdr.len)
CommandEnds == /\ rbState # "IDLE" ~> rbState = "IDLE" \/ Runaway
               /\ [][Runaway => Runaway']_vars

\* The core is between two packets whenever it is idle, so the next header it reads is one:
\* a packet is its header and as many bytes as the header says (gpu_cmd.h:11-14).
AtPacket == rbState = "IDLE" /\ ptr # drv.head => ptr < Size /\ mem[ptr].off = 0
=============================================================================
