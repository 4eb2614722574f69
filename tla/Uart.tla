-------------------------------- MODULE Uart -------------------------------
(***************************************************************************)
(* Two boards joined by a serial line, clock by clock: the sender's core   *)
(* and uart_tx, the receiver's uart_rx, buffer and core (fpga/uart.v, with *)
(* the ports of cpu.v and fpga/nova16_top.v).  Every register of the step  *)
(* takes its new value from the old values of the others.                  *)
(*                                                                         *)
(* The programs are free, except that they look at the status port before  *)
(* they use the other one: the sender writes when it last saw tx_ready,    *)
(* the receiver reads when it last saw rx_valid.  A receiver that is not   *)
(* lazy runs at most MaxGap instructions between two ports.                *)
(***************************************************************************)
EXTENDS Integers, Sequences

CONSTANTS
  Bits,           \* data bits: 8
  Divisors,       \* pairs of baud_div of the sender and the receiver
  MaxGap

ASSUME UartAssumption ==
  /\ Bits \in Nat \ {0} /\ MaxGap \in Nat
  /\ \A d \in Divisors : d[1] \in Nat /\ d[2] \in Nat /\ d[1] >= 2 /\ d[2] >= 2

VARIABLES
  div,            \* BAUD_DIV of both boards
  a,              \* the sender's core: its phase, and whether it saw tx_ready
  out,            \* tx_data, tx_valid
  tx,             \* uart_tx
  noise,          \* a spike pulls the idle line low for this clock
  sync,           \* rx_s0, rx_s1
  rx,             \* uart_rx
  buf,            \* rx_buf, rx_buf_valid
  b,              \* the receiver's core
  lazy,
  inflight,       \* bytes written and not yet received
  unread          \* bytes stored since the last read: 0, 1, or 2 for more

vars == <<div, a, out, tx, noise, sync, rx, buf, b, lazy, inflight, unread>>

Byte == 0 .. 2 ^ Bits - 1

(* The core: one instruction is a fetch, an execution and, for IN, LOAD and *)
(* RET, a wait                                                              *)
Phase == {"FETCH", "EXECUTE", "WAIT"}
NextPhase(p, op) == CASE p = "FETCH" -> "EXECUTE"
                      [] p = "EXECUTE" /\ op \in {"status", "read", "load"} -> "WAIT"
                      [] OTHER -> "FETCH"

\* Port 0xFD is read, port 0xFE written, or another instruction runs.
Others == {"load", "other"}
SendOps == IF a.phase # "EXECUTE" THEN {"none"}
           ELSE Others \cup {"status"} \cup (IF a.saw THEN {"write"} ELSE {})
ReadOps == IF b.phase # "EXECUTE" THEN {"none"}
           ELSE (IF lazy \/ b.gap < MaxGap THEN Others ELSE {})
             \cup (IF b.saw THEN IF lazy THEN {"status", "read"} ELSE {"read"} ELSE {"status"})

-----------------------------------------------------------------------------
Init == /\ div \in Divisors /\ lazy \in BOOLEAN
        /\ a = [phase |-> "FETCH", saw |-> FALSE]
        /\ b = [phase |-> "FETCH", saw |-> FALSE, gap |-> 0]
        /\ out = [data |-> 0, valid |-> FALSE]
        /\ tx = [state |-> "IDLE", cnt |-> 0, shift |-> 0, idx |-> 0, ready |-> TRUE, pin |-> 1]
        /\ rx = [state |-> "IDLE", cnt |-> 0, shift |-> 0, idx |-> 0, valid |-> FALSE, data |-> 0]
        /\ noise = FALSE /\ sync = <<1, 1>>
        /\ buf = [data |-> 0, valid |-> FALSE]
        /\ inflight = << >> /\ unread = 0

(* The sender *)
SendCore(op) == a' = [phase |-> NextPhase(a.phase, op),
                      saw |-> CASE op = "status" -> tx.ready
                                [] op = "write"  -> FALSE
                                [] OTHER         -> a.saw]

WritePort(op, v) == out' = [data |-> IF op = "write" THEN v ELSE out.data,
                            valid |-> op = "write"]

TxIdle == /\ tx.state = "IDLE"
          /\ tx' = IF out.valid
                   THEN [tx EXCEPT !.shift = out.data, !.cnt = div[1] - 1, !.pin = 0,
                                   !.ready = FALSE, !.state = "START"]
                   ELSE [tx EXCEPT !.pin = 1, !.ready = TRUE]
TxCount == /\ tx.state # "IDLE" /\ tx.cnt # 0
           /\ tx' = [tx EXCEPT !.cnt = @ - 1]
TxFirst == /\ tx.state = "START" /\ tx.cnt = 0
           /\ tx' = [tx EXCEPT !.cnt = div[1] - 1, !.pin = tx.shift % 2, !.shift = @ \div 2,
                               !.idx = 0, !.state = "DATA"]
TxBit == /\ tx.state = "DATA" /\ tx.cnt = 0
         /\ tx' = IF tx.idx = Bits - 1
                  THEN [tx EXCEPT !.cnt = div[1] - 1, !.pin = 1, !.state = "STOP"]
                  ELSE [tx EXCEPT !.cnt = div[1] - 1, !.pin = tx.shift % 2, !.shift = @ \div 2,
                                  !.idx = @ + 1]
TxStop == /\ tx.state = "STOP" /\ tx.cnt = 0
          /\ tx' = [tx EXCEPT !.ready = TRUE, !.state = "IDLE"]

uart_tx == TxIdle \/ TxCount \/ TxFirst \/ TxBit \/ TxStop

(* The receiver *)
Line == IF noise THEN 0 ELSE tx.pin
RxSync == sync' = <<Line, sync[1]>>
Low == sync[2] = 0
Quiet == [rx EXCEPT !.valid = FALSE]

RxIdle == /\ rx.state = "IDLE"
          /\ rx' = IF Low THEN [Quiet EXCEPT !.cnt = div[2] \div 2 - 1, !.state = "START"]
                   ELSE Quiet
RxCount == /\ rx.state # "IDLE" /\ rx.cnt # 0
           /\ rx' = [Quiet EXCEPT !.cnt = @ - 1]
\* Variant: a spike is taken for a start bit.
RxStartTrusting == /\ rx.state = "START" /\ rx.cnt = 0
                   /\ rx' = [Quiet EXCEPT !.cnt = div[2] - 1, !.idx = 0, !.state = "DATA"]
RxStart == /\ rx.state = "START" /\ rx.cnt = 0
           /\ rx' = IF Low THEN [Quiet EXCEPT !.cnt = div[2] - 1, !.idx = 0, !.state = "DATA"]
                    ELSE [Quiet EXCEPT !.state = "IDLE"]
RxBit == /\ rx.state = "DATA" /\ rx.cnt = 0
         /\ rx' = [Quiet EXCEPT
                     !.cnt = div[2] - 1,
                     !.shift = @ \div 2 + sync[2] * 2 ^ (Bits - 1),
                     !.idx = IF @ = Bits - 1 THEN @ ELSE @ + 1,
                     !.state = IF rx.idx = Bits - 1 THEN "STOP" ELSE "DATA"]
RxStop == /\ rx.state = "STOP" /\ rx.cnt = 0
          /\ rx' = IF Low THEN [Quiet EXCEPT !.state = "IDLE"]
                   ELSE [rx EXCEPT !.state = "IDLE", !.data = rx.shift, !.valid = TRUE]

uart_rx == RxIdle \/ RxCount \/ RxStart \/ RxBit \/ RxStop

\* Variant: the flag is never taken back.
BufferSticky(op) == buf' = IF rx.valid THEN [data |-> rx.data, valid |-> TRUE] ELSE buf
\* Variant: looking at the status clears the flag.
BufferPeeked(op) == buf' = [data  |-> IF rx.valid THEN rx.data ELSE buf.data,
                            valid |-> (rx.valid \/ buf.valid) /\ op \notin {"status", "read"}]
\* Reading the port clears the flag, also in the clock in which a byte comes.
Buffer(op) == buf' = [data  |-> IF rx.valid THEN rx.data ELSE buf.data,
                      valid |-> (rx.valid \/ buf.valid) /\ op # "read"]

ReadCore(op) == b' = [phase |-> NextPhase(b.phase, op),
                      saw |-> CASE op = "status" -> buf.valid
                                [] op = "read"   -> FALSE
                                [] OTHER         -> b.saw,
                      gap |-> CASE lazy \/ op \in {"status", "read"} -> 0
                                [] ~lazy /\ op \in Others -> b.gap + 1
                                [] OTHER        -> b.gap]

(* What has been sent, received, stored and read *)
Received == rx'.valid
Track(op, v, rop) ==
  /\ LET q == IF Received /\ inflight # << >> THEN Tail(inflight) ELSE inflight
     IN  inflight' = IF op = "write" THEN Append(q, v) ELSE q
  /\ LET kept == IF rop = "read" THEN 0 ELSE unread
     IN  unread' = IF rx.valid /\ kept < 2 THEN kept + 1 ELSE kept

\* A spike lasts a clock, and the receiver has seen the line rest before it.
\* (A start bit just behind a spike is sampled too early; the receiver bears
\* that, or a difference of the divisors, not both.)
Spike == noise' = FALSE \/ /\ noise' = TRUE /\ ~noise /\ div[1] = div[2]
                           /\ tx.state = "IDLE" /\ rx.state = "IDLE" /\ sync = <<1, 1>>

Clock == \E op \in SendOps, v \in Byte, rop \in ReadOps :
           /\ op # "write" => v = 0
           /\ SendCore(op) /\ WritePort(op, v) /\ uart_tx
           /\ Spike /\ RxSync /\ uart_rx /\ Buffer(rop) /\ ReadCore(rop)
           /\ Track(op, v, rop)
           /\ UNCHANGED <<div, lazy>>

Next == Clock

Spec == Init /\ [][Next]_vars /\ WF_vars(Next)

-----------------------------------------------------------------------------
(* Properties *)

\* Every byte the sender's program writes comes out of the receiver, once and
\* in order: the status it polls is never old enough to let it write into a
\* busy transmitter, no spike becomes a byte, and as long as bytes are on
\* their way another one is received.
LinkDelivers ==
  /\ [][Received => inflight # << >> /\ rx'.data = Head(inflight)]_vars
  /\ (inflight # << >>) ~> rx.valid

\* A program that saw rx_valid finds a byte it has not read before.
ReadsFresh == [][(b.phase = "EXECUTE" /\ b.saw /\ ~b'.saw) => unread > 0]_vars

\* A receiver that comes back within a frame loses nothing: what was stored
\* is flagged, and is read before the next byte is stored.
PromptReaderLosesNothing == ~lazy => /\ unread <= 1
                                     /\ (unread = 1) <=> buf.valid
=============================================================================
