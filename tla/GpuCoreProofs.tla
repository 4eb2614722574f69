---------------------------- MODULE GpuCoreProofs ----------------------------
(***************************************************************************)
(* The hardware's ring controller, for every size of the ring, every set   *)
(* of commands, every delay of the RAM and every OUT in every clock.       *)
(*                                                                         *)
(* The core agrees with the driver only where it has the driver's idea of  *)
(* a packet: the driver stays inside the ring, payloads are whole words of *)
(* 64 bits, and the word index can count them (Fitting).  Without a wrap   *)
(* nothing written is overwritten, so the argument is made in addresses:   *)
(* from the bottom of the ring up to the driver's head lie whole packets,  *)
(* and IInv says for each state of the controller how far into the packet  *)
(* at reg_ring_tail it has read.                                           *)
(*                                                                         *)
(* How the packets of a ring are counted is taken from GpuRingProofs.      *)
(***************************************************************************)
EXTENDS GpuCore, FiniteSetTheorems, FunctionTheorems, SequenceTheorems, TLAPS

R == INSTANCE GpuRingProofs WITH ring <- [head |-> head, tail |-> tail], depth <- 0,
                                 host <- TRUE, MaxDepth <- 0

\* What the core's reader supports of what a driver may write (gpu_core.v:246-252).
Fitting == /\ ~Wraps
           /\ \A c \in Cmd : c.len % 2 = 0 /\ Countable(c.len)

\* Commands on whose effect the hardware and the software GPU agree (gpu_core.v:314-338).
Executable == \A c \in Cmd : /\ c.len <= BufCells
                             /\ c.type \in CoreTypes \/ c.type \notin DOMAIN Q!Target \cup Q!Draws

USE SizeAssumption, CmdAssumption

-----------------------------------------------------------------------------
(* The invariant *)

PacketLen(c) == 2 + c.len

\* A packet begins at x, or nothing is written there yet.
Begins(x) == x < drv.head => mem[x].off = 0

Packet(x) ==
    LET c == mem[x].cmd
    IN  /\ c \in Cmd
        /\ x + PacketLen(c) <= drv.head
        /\ \A j \in 0 .. PacketLen(c) - 1 : mem[x + j] = [cmd |-> c, off |-> j]
        /\ Begins(x + PacketLen(c))

Positions == /\ drv \in [head : 0 .. Size - 1, tail : Nat]
             /\ head \in Nat /\ tail \in Nat
             /\ tail <= head /\ head <= drv.head
             /\ Begins(head) /\ Begins(tail)

Packets == \A x \in 0 .. drv.head - 1 : mem[x].off = 0 => Packet(x)

\* How far the controller has come in the packet at the tail.
Reading == LET c == mem[tail].cmd
           IN  /\ whole /\ tail < head
               /\ hdr = [cmd |-> c, len |-> c.len]

Controller ==
    /\ rbState \in {"IDLE", "FETCH", "WAIT", "PAYLOAD", "EXEC"}
    /\ rbState \in {"IDLE", "FETCH", "WAIT"} => ptr = tail
    /\ rbState \in {"FETCH", "WAIT"} => tail < head
    /\ rbState = "PAYLOAD" => /\ Reading
                              /\ idx \in Nat /\ 2 * idx <= hdr.len
                              /\ ptr = tail + 2 + 2 * idx
    /\ rbState = "EXEC" => Reading /\ ptr = tail + PacketLen(hdr.cmd)

Executing == /\ rbState # "IDLE" => exec = << >>
             /\ exec = << >> \/ \E c \in Cmd : exec = <<c>>

IInv == Positions /\ Packets /\ Controller /\ Executing

-----------------------------------------------------------------------------
(* What the parts of a step do *)

LEMMA SmallMod ==
    ASSUME NEW a \in Nat, NEW n \in Nat, a < n
    PROVE  a % n = a
  BY Z3

\* Inside the ring the read position does not wrap.
LEMMA NextWordFact ==
    ASSUME ptr \in Nat, ptr + 2 < Size
    PROVE  NextWord = ptr + 2
  <1>1. ptr + 2 \in Nat /\ PtrMod \in Nat /\ ptr + 2 < PtrMod
    BY PtrAssumption
  <1> QED BY <1>1, SmallMod DEF NextWord

LEMMA LenFact ==
    ASSUME NEW c \in Cmd
    PROVE  PacketLen(c) \in Nat /\ PacketLen(c) > 1 /\ c.len \in Nat
  BY DEF PacketLen

\* gpu_ring_write() of a driver that stays inside the ring.
LEMMA WriteFact ==
    ASSUME Positions, Fitting, NEW c \in Cmd, Write(c)
    PROVE  /\ drv' = [drv EXCEPT !.head = drv.head + PacketLen(c)]
           /\ drv.head + PacketLen(c) \in 0 .. Size - 1
           /\ \A i \in 0 .. Size - 1 :
                 mem'[i] = IF i \in drv.head .. drv.head + PacketLen(c) - 1
                           THEN [cmd |-> c, off |-> i - drv.head] ELSE mem[i]
           /\ UNCHANGED <<port, irqStatus, ring, acked, exec, status, regs>>
  <1> DEFINE h == drv.head
             n == PacketLen(c)
  <1>1. /\ h \in 0 .. Size - 1 /\ c.len \in Nat /\ n \in Nat /\ n = 2 + c.len /\ h + n < Size
        /\ Size \in Nat
    BY LenFact DEF Positions, Write, Fitting, D!Cells, D!HdrCells, PacketLen
  <1>2. mem' = D!Written(c) /\ drv' = [drv EXCEPT !.head = D!Advance(D!Advance(h, D!HdrCells), c.len)]
    BY DEF Write
  <1>3. D!Advance(h, D!HdrCells) = h + 2
    <2>1. Size - h >= 2 /\ h + 2 \in Nat /\ h + 2 < Size
      BY <1>1
    <2> QED BY <2>1, SmallMod DEF D!Advance, D!HdrCells
  <1>4. D!Advance(h + 2, c.len) = h + n
    <2>1. Size - (h + 2) >= c.len /\ (h + 2) + c.len = h + n /\ h + n \in Nat /\ h + n < Size
      BY <1>1
    <2> QED BY <2>1, SmallMod DEF D!Advance
  <1>5. ASSUME NEW i \in 0 .. Size - 1
        PROVE  mem'[i] = IF i \in h .. h + n - 1 THEN [cmd |-> c, off |-> i - h] ELSE mem[i]
    <2>1. mem'[i] = IF D!Distance(h, i) < n THEN [cmd |-> c, off |-> D!Distance(h, i)] ELSE mem[i]
      BY <1>2, <1>5 DEF D!Written, D!Index, D!Cells, D!HdrCells, PacketLen
    <2>2. CASE i >= h
      <3>1. D!Distance(h, i) = i - h
        BY <2>2 DEF D!Distance
      <3>2. i - h < n <=> i \in h .. h + n - 1
        BY <1>1, <1>5, <2>2
      <3> QED BY <2>1, <3>1, <3>2
    <2>3. CASE ~(i >= h)
      <3>1. D!Distance(h, i) = Size - h + i
        BY <2>3 DEF D!Distance
      <3>2. ~(Size - h + i < n) /\ i \notin h .. h + n - 1
        BY <1>1, <1>5, <2>3
      <3> QED BY <2>1, <3>1, <3>2
    <2> QED BY <2>2, <2>3
  <1> QED
    <2>1. UNCHANGED <<port, irqStatus, ring, acked, exec, status, regs>>
      BY DEF Write
    <2>2. h + n \in 0 .. Size - 1
      BY <1>1
    <2> QED BY <1>2, <1>3, <1>4, <1>5, <2>1, <2>2

\* A header is read whole, and names the packet at the tail.
LEMMA PacketFact ==
    ASSUME Positions, Packets, tail < head
    PROVE  LET c == mem[tail].cmd
           IN  /\ c \in Cmd /\ PacketLen(c) \in Nat /\ c.len \in Nat
               /\ tail + PacketLen(c) <= head
               /\ Begins(tail + PacketLen(c))
               /\ \A j \in 0 .. PacketLen(c) - 1 :
                     tail + j < Size /\ RamCell(tail + j) = [cmd |-> c, off |-> j]
  <1> DEFINE c == mem[tail].cmd
             n == PacketLen(c)
  <1>1. /\ tail \in Nat /\ head \in Nat /\ drv.head \in Nat /\ tail < drv.head /\ head <= drv.head
        /\ drv.head < Size /\ Size \in Nat
    BY DEF Positions
  <1>2. Packet(tail)
    BY <1>1 DEF Positions, Packets, Begins
  <1>3. c \in Cmd /\ n \in Nat /\ n > 1 /\ c.len \in Nat /\ tail + n <= drv.head
    BY <1>2, LenFact DEF Packet
  <1>4. \A j \in 0 .. n - 1 : mem[tail + j] = [cmd |-> c, off |-> j]
    BY <1>2 DEF Packet
  <1>5. tail + n <= head
    <2> SUFFICES ASSUME ~(tail + n <= head)
                 PROVE  FALSE
      OBVIOUS
    <2>1. head - tail \in 0 .. n - 1 /\ tail + (head - tail) = head /\ head < drv.head /\ head - tail # 0
      BY <1>1, <1>3
    <2>2. mem[head] = [cmd |-> c, off |-> head - tail]
      BY <1>4, <2>1
    <2>3. mem[head].off = 0
      BY <2>1 DEF Positions, Begins
    <2> QED BY <2>1, <2>2, <2>3
  <1>6. ASSUME NEW j \in 0 .. n - 1
        PROVE  tail + j < Size /\ RamCell(tail + j) = [cmd |-> c, off |-> j]
    <2>1. tail + j < Size
      BY <1>1, <1>3
    <2> QED BY <1>4, <2>1 DEF RamCell
  <1>7. Begins(tail + n)
    BY <1>2 DEF Packet
  <1> QED BY <1>3, <1>5, <1>6, <1>7

-----------------------------------------------------------------------------
(* The invariant is inductive *)

LEMMA InitInv == Init => IInv
  BY DEF Init, IInv, Positions, Packets, Controller, Executing, Begins

LEMMA WriteStep ==
    ASSUME IInv, Fitting, NEW c \in Cmd, Write(c)
    PROVE  IInv'
  <1> DEFINE h == drv.head
             n == PacketLen(c)
  <1>1. /\ drv' = [drv EXCEPT !.head = h + n]
        /\ h + n \in 0 .. Size - 1 /\ h \in 0 .. Size - 1
        /\ \A i \in 0 .. Size - 1 :
              mem'[i] = IF i \in h .. h + n - 1 THEN [cmd |-> c, off |-> i - h] ELSE mem[i]
        /\ UNCHANGED <<head, tail, rbState, ptr, hdr, idx, whole, exec>>
    BY WriteFact DEF IInv, Positions, port, ring
  <1>2. n \in Nat /\ n > 1 /\ drv'.head = h + n /\ drv' \in [head : 0 .. Size - 1, tail : Nat]
    BY <1>1, LenFact DEF IInv, Positions
  <1>3. /\ head \in Nat /\ tail \in Nat /\ tail <= head /\ head <= h
        /\ Begins(head) /\ Begins(tail)
    BY DEF IInv, Positions
  <1> HIDE DEF n
  <1>4. \A i \in 0 .. h - 1 : mem'[i] = mem[i]
    <2> TAKE i \in 0 .. h - 1
    <2>1. i \in 0 .. Size - 1 /\ i \notin h .. h + n - 1
      BY <1>1, <1>2
    <2> QED BY <1>1, <2>1
  <1>5. \A j \in 0 .. n - 1 : mem'[h + j] = [cmd |-> c, off |-> j]
    <2> TAKE j \in 0 .. n - 1
    <2>1. h + j \in 0 .. Size - 1 /\ h + j \in h .. h + n - 1 /\ (h + j) - h = j
      BY <1>1, <1>2
    <2> QED BY <1>1, <2>1
  <1>6. mem'[h] = [cmd |-> c, off |-> 0]
    <2>1. 0 \in 0 .. n - 1 /\ h + 0 = h
      BY <1>1, <1>2
    <2>2. mem'[h + 0] = [cmd |-> c, off |-> 0]
      BY <1>5, <2>1
    <2> QED BY <2>1, <2>2
  <1>7. ASSUME NEW x \in 0 .. h, Begins(x)
        PROVE  x < drv'.head => mem'[x].off = 0
    <2>1. CASE x = h
      BY <1>6, <2>1
    <2>2. CASE x < h
      BY <1>1, <1>4, <1>7, <2>2 DEF Begins
    <2> QED BY <1>1, <1>7, <2>1, <2>2
  <1>8. Positions'
    <2>1. Begins(head)' /\ Begins(tail)'
      BY <1>1, <1>2, <1>3, <1>7 DEF Begins
    <2>2. head' <= drv'.head
      BY <1>1, <1>2, <1>3
    <2> QED BY <1>1, <1>2, <1>3, <2>1, <2>2 DEF Positions
  <1>9. ASSUME NEW x \in 0 .. h + n - 1, mem'[x].off = 0
        PROVE  Packet(x)'
    <2>1. CASE x < h
      <3> DEFINE b == mem[x].cmd
      <3>1. x \in 0 .. h - 1 /\ mem'[x] = mem[x] /\ mem[x].off = 0
        BY <1>1, <1>4, <1>9, <2>1
      <3>2. /\ b \in Cmd /\ x + PacketLen(b) <= h /\ Begins(x + PacketLen(b))
            /\ \A j \in 0 .. PacketLen(b) - 1 : mem[x + j] = [cmd |-> b, off |-> j]
        BY <3>1 DEF IInv, Packets, Packet
      <3>3. PacketLen(b) \in Nat
        BY <3>2, LenFact
      <3>4. \A j \in 0 .. PacketLen(b) - 1 : mem'[x + j] = [cmd |-> b, off |-> j]
        <4> TAKE j \in 0 .. PacketLen(b) - 1
        <4>1. x + j \in 0 .. h - 1
          BY <1>1, <3>1, <3>2, <3>3
        <4> QED BY <1>4, <3>2, <4>1
      <3>5. x + PacketLen(b) < drv'.head => mem'[x + PacketLen(b)].off = 0
        <4>1. x + PacketLen(b) \in 0 .. h
          BY <1>1, <3>1, <3>2, <3>3
        <4> QED BY <1>7, <3>2, <4>1
      <3>6. x + PacketLen(b) <= drv'.head
        BY <1>1, <1>2, <3>1, <3>2, <3>3
      <3> QED BY <3>1, <3>2, <3>4, <3>5, <3>6 DEF Packet, Begins
    <2>2. CASE x = h
      <3>1. h + PacketLen(c) = h + n /\ h + PacketLen(c) <= drv'.head /\ ~(h + PacketLen(c) < drv'.head)
        BY <1>1, <1>2 DEF n
      <3> QED BY <1>5, <1>6, <2>2, <3>1 DEF Packet, Begins, n
    <2>3. CASE x > h
      <3>1. x - h \in 0 .. n - 1 /\ h + (x - h) = x /\ x - h # 0
        BY <1>1, <1>2, <2>3
      <3>2. mem'[x] = [cmd |-> c, off |-> x - h]
        BY <1>5, <3>1
      <3> QED BY <1>9, <3>1, <3>2
    <2> QED BY <1>1, <1>2, <2>1, <2>2, <2>3
  <1>10. Controller'
    <2>1. ASSUME tail < head
          PROVE  mem'[tail] = mem[tail]
      <3>1. tail \in 0 .. h - 1
        BY <1>1, <1>3, <2>1
      <3> QED BY <1>4, <3>1
    <2>2. Reading => Reading'
      BY <1>1, <2>1 DEF Reading
    <2> QED BY <1>1, <2>2 DEF IInv, Controller
  <1>11. Executing'
    BY <1>1 DEF IInv, Executing
  <1>12. Packets'
    <2> SUFFICES ASSUME NEW x \in 0 .. drv'.head - 1, mem'[x].off = 0
                 PROVE  Packet(x)'
      BY DEF Packets
    <2>1. x \in 0 .. h + n - 1
      BY <1>1, <1>2
    <2> QED BY <1>9, <2>1, Zenon
  <1> QED BY <1>8, <1>10, <1>11, <1>12 DEF IInv

\* What is left of a step when neither the ring's memory nor the driver's head moves.
LEMMA SamePackets ==
    ASSUME IInv, mem' = mem, drv'.head = drv.head, drv' \in [head : 0 .. Size - 1, tail : Nat]
    PROVE  /\ Packets'
           /\ \A x : Begins(x)' <=> x < drv.head => mem[x].off = 0
  BY DEF IInv, Packets, Packet, Begins

LEMMA ReadTailStep ==
    ASSUME IInv, ReadTail
    PROVE  IInv'
  <1>1. /\ mem' = mem /\ drv'.head = drv.head /\ drv' \in [head : 0 .. Size - 1, tail : Nat]
        /\ UNCHANGED <<head, tail, rbState, ptr, hdr, idx, whole, exec>>
    BY DEF ReadTail, IInv, Positions, port, ring
  <1>2. Packets' /\ Positions'
    BY <1>1, SamePackets DEF IInv, Positions, Begins
  <1>3. Controller' /\ Executing'
    BY <1>1 DEF IInv, Controller, Reading, Executing
  <1> QED BY <1>2, <1>3 DEF IInv

\* One clock of the controller, with what the other blocks do to the head and to exec.
LEMMA RbStep ==
    ASSUME IInv, Fitting, NEW ack \in BOOLEAN, Rb(ack), mem' = mem, drv' = drv,
           head' \in {head, drv.head}, exec' = ExecValid
    PROVE  IInv'
  <1>1. /\ tail \in Nat /\ head \in Nat /\ head' \in Nat /\ drv.head \in Nat
        /\ tail <= head /\ head <= head' /\ head' <= drv.head
        /\ drv \in [head : 0 .. Size - 1, tail : Nat]
    BY DEF IInv, Positions
  <1>2. Packets' /\ Begins(head)' /\ (Begins(tail) /\ tail' = tail => Begins(tail)')
    BY <1>1, SamePackets DEF IInv, Positions, Begins
  <1>3. ASSUME tail' = tail
        PROVE  Positions'
    BY <1>1, <1>2, <1>3 DEF IInv, Positions
  <1>4. ASSUME rbState # "EXEC"
        PROVE  Executing'
    BY <1>4 DEF Executing, ExecValid
  <1>5. CASE Idle
    <2>1. Controller'
      BY <1>1, <1>5 DEF Idle, Starts, RbEmpty, IInv, Controller
    <2> QED BY <1>2, <1>3, <1>4, <1>5, <2>1 DEF Idle, IInv
  <1>6. CASE Fetch
    <2>1. Controller'
      BY <1>1, <1>6 DEF Fetch, IInv, Controller
    <2> QED BY <1>2, <1>3, <1>4, <1>6, <2>1 DEF Fetch, IInv
  <1>7. CASE Wait(ack)
    <2>1. rbState = "WAIT" /\ ptr = tail /\ tail < head /\ tail < head' /\ tail' = tail
      <3>1. rbState = "WAIT" /\ tail' = tail
        BY <1>7 DEF Wait, ring
      <3> QED BY <1>1, <3>1 DEF IInv, Controller
    <2>2. CASE ~ack
      <3>1. Controller'
        BY <1>7, <2>1, <2>2 DEF Wait, ring, Controller
      <3> QED BY <1>2, <1>3, <1>4, <2>1, <3>1 DEF IInv
    <2>3. CASE ack
      <3> DEFINE c == mem[tail].cmd
      <3>1. /\ c \in Cmd /\ PacketLen(c) \in Nat /\ c.len \in Nat /\ PacketLen(c) = 2 + c.len
            /\ \A j \in 0 .. PacketLen(c) - 1 : RamCell(tail + j) = [cmd |-> c, off |-> j]
        BY <2>1, PacketFact DEF IInv, PacketLen
      <3> HIDE DEF c
      <3>2. \A i \in {0, 1} : RamCell(ptr + i) = [cmd |-> c, off |-> i]
        BY <2>1, <3>1
      <3>3. RamCell(ptr) = [cmd |-> c, off |-> 0] /\ RamCell(ptr + 1) = [cmd |-> c, off |-> 1]
        <4>1. ptr + 0 = ptr
          BY <1>1, <2>1
        <4> QED BY <3>2, <4>1
      <3>7. NextWord = tail + 2
        <4>1. ptr \in Nat /\ ptr + 2 < Size /\ ptr + 2 = tail + 2
          <5>1. tail + PacketLen(c) <= head
            BY <2>1, PacketFact DEF IInv, c
          <5> QED BY <1>1, <2>1, <3>1, <5>1
        <4> QED BY <4>1, NextWordFact
      <3>4. /\ hdr' = [cmd |-> c, len |-> c.len] /\ whole' = TRUE
            /\ ptr' = tail + 2 /\ idx' = 0
            /\ rbState' = IF c.len > 0 THEN "PAYLOAD" ELSE "EXEC"
        BY <1>7, <2>1, <2>3, <3>2, <3>3, <3>7 DEF Wait
      <3>5. Reading'
        BY <2>1, <3>4 DEF Reading, c
      <3>6. Controller'
        <4>1. CASE c.len > 0
          BY <1>1, <3>1, <3>4, <3>5, <4>1, <2>1 DEF Controller
        <4>2. CASE ~(c.len > 0)
          <5>1. ptr' = tail' + PacketLen(c) /\ hdr'.cmd = c /\ rbState' = "EXEC"
            BY <1>1, <2>1, <3>1, <3>4, <4>2
          <5> QED BY <3>5, <5>1 DEF Controller, PacketLen
        <4> QED BY <4>1, <4>2
      <3> QED BY <1>2, <1>3, <1>4, <2>1, <3>6 DEF IInv
    <2> QED BY <2>2, <2>3
  <1>8. CASE Payload(ack)
    <2> DEFINE c == mem[tail].cmd
    <2>1. /\ rbState = "PAYLOAD" /\ Reading /\ idx \in Nat /\ 2 * idx <= hdr.len
          /\ ptr = tail + 2 + 2 * idx /\ tail' = tail
      BY <1>8 DEF Payload, IInv, Controller, ring
    <2>2. /\ c \in Cmd /\ c.len \in Nat /\ PacketLen(c) = 2 + c.len
          /\ tail < head /\ tail < head' /\ whole /\ hdr = [cmd |-> c, len |-> c.len]
          /\ \A j \in 0 .. PacketLen(c) - 1 : RamCell(tail + j) = [cmd |-> c, off |-> j]
          /\ c.len % 2 = 0 /\ c.len <= 2 * (IdxMod - 1)
          /\ tail + PacketLen(c) <= head
      BY <1>1, <2>1, PacketFact DEF Reading, IInv, PacketLen, Fitting, Countable
    <2>3. hdr' = hdr /\ (whole' => Reading')
      BY <1>8, <2>1, <2>2 DEF Payload, Reading, ring
    <2> HIDE DEF c
    <2>4. CASE ~More
      <3>1. rbState' = "EXEC" /\ whole' = whole /\ ptr' = ptr
        BY <1>8, <2>4 DEF Payload
      <3>2. 2 * idx = c.len
        BY <2>1, <2>2, <2>4 DEF More
      <3>3. ptr' = tail' + PacketLen(hdr'.cmd)
        BY <1>1, <2>1, <2>2, <2>3, <3>1, <3>2
      <3>4. Controller'
        BY <2>2, <2>3, <3>1, <3>3 DEF Controller
      <3> QED BY <1>2, <1>3, <1>4, <2>1, <3>4 DEF IInv
    <2>5. CASE More /\ ack
      <3>1. 2 * idx < c.len /\ 2 * idx + 2 <= c.len
        BY <2>1, <2>2, <2>5 DEF More
      <3>2. ASSUME NEW i \in {0, 1}
            PROVE  RamCell(ptr + i) = [cmd |-> hdr.cmd, off |-> 2 + 2 * idx + i]
        <4>1. /\ 2 + 2 * idx + i \in 0 .. PacketLen(c) - 1
              /\ ptr + i = tail + (2 + 2 * idx + i)
          BY <1>1, <2>1, <2>2, <3>1
        <4> QED BY <2>2, <4>1
      <3>7. NextWord = ptr + 2
        <4>1. ptr \in Nat /\ ptr + 2 < Size
          BY <1>1, <2>1, <2>2, <3>1
        <4> QED BY <4>1, NextWordFact
      <3>3. whole' /\ rbState' = "PAYLOAD" /\ ptr' = ptr + 2 /\ idx' = (idx + 1) % IdxMod
        BY <1>8, <2>1, <2>2, <2>5, <3>2, <3>7 DEF Payload
      <3>4. idx' = idx + 1
        <4>1. idx + 1 \in Nat /\ IdxMod \in Nat /\ idx + 1 < IdxMod
          BY <2>1, <2>2, <3>1, IdxAssumption
        <4> QED BY <3>3, <4>1, SmallMod
      <3>5. idx' \in Nat /\ 2 * idx' <= hdr'.len /\ ptr' = tail' + 2 + 2 * idx'
        BY <1>1, <2>1, <2>2, <2>3, <3>1, <3>3, <3>4
      <3>6. Controller'
        BY <2>3, <3>3, <3>5 DEF Controller
      <3> QED BY <1>2, <1>3, <1>4, <2>1, <3>6 DEF IInv
    <2>6. CASE More /\ ~ack
      <3>1. UNCHANGED <<rbState, ptr, hdr, idx, whole>>
        BY <1>8, <2>6 DEF Payload
      <3>2. Controller'
        BY <2>1, <2>2, <2>3, <3>1 DEF Controller
      <3> QED BY <1>2, <1>3, <1>4, <2>1, <3>2 DEF IInv
    <2> QED BY <2>4, <2>5, <2>6
  <1>9. CASE Issue
    <2> DEFINE c == mem[tail].cmd
    <2>1. /\ rbState = "EXEC" /\ Reading /\ ptr = tail + PacketLen(hdr.cmd)
          /\ tail' = ptr /\ ptr' = ptr /\ rbState' = "IDLE"
      BY <1>9 DEF Issue, IInv, Controller
    <2>2. /\ c \in Cmd /\ whole /\ hdr.cmd = c /\ PacketLen(c) \in Nat
          /\ tail + PacketLen(c) <= head /\ Begins(tail + PacketLen(c))
      BY <2>1, PacketFact DEF Reading, IInv
    <2>3. tail' = tail + PacketLen(c) /\ tail' \in Nat /\ tail' <= head'
      BY <1>1, <2>1, <2>2
    <2>4. Begins(tail)'
      BY <1>1, <2>2, <2>3, SamePackets DEF Begins
    <2>5. Positions'
      BY <1>1, <1>2, <2>3, <2>4 DEF Positions
    <2>6. exec' = <<c>>
      BY <2>1, <2>2 DEF ExecValid
    <2>7. Controller' /\ Executing'
      BY <2>1, <2>2, <2>6 DEF Controller, Executing
    <2> QED BY <1>2, <2>5, <2>7 DEF IInv
  <1> QED BY <1>5, <1>6, <1>7, <1>8, <1>9 DEF Rb

LEMMA NextInv ==
    ASSUME Fitting, IInv, [Next]_vars
    PROVE  IInv'
  <1>1. CASE \E c \in Cmd : Write(c)
    BY <1>1, WriteStep
  <1>2. CASE ReadTail
    BY <1>2, ReadTailStep
  <1>3. ASSUME NEW out \in Outs, NEW ack \in BOOLEAN, Clock(out, ack)
        PROVE  IInv'
    <2>1. Rb(ack) /\ mem' = mem /\ drv' = drv /\ head' \in {head, drv.head} /\ exec' = ExecValid
      BY <1>3 DEF Clock, Port, Exec
    <2> QED BY <2>1, RbStep
  <1>4. CASE UNCHANGED vars
    BY <1>4 DEF vars, port, ring, IInv, Positions, Packets, Packet, Controller, Reading, Executing,
                Begins
  <1> QED BY <1>1, <1>2, <1>3, <1>4 DEF Next

LEMMA Invariance ==
    ASSUME Fitting
    PROVE  Spec => []IInv
  <1>1. IInv /\ [Next]_vars => IInv'
    BY NextInv
  <1> QED BY <1>1, InitInv, PTL DEF Spec

\* Whenever the core is idle behind the driver, the next header it reads is one: word after
\* word, whatever the delays, it has advanced exactly over the packets (gpu_core.v:233-275).
THEOREM AtPacketSafe ==
    ASSUME Fitting
    PROVE  Spec => []AtPacket
  <1>1. IInv => AtPacket
    <2> SUFFICES ASSUME IInv, rbState = "IDLE", ptr # drv.head
                 PROVE  ptr < Size /\ mem[ptr].off = 0
      BY DEF AtPacket
    <2>1. ptr = tail /\ tail < drv.head /\ drv.head < Size
      BY DEF IInv, Positions, Controller
    <2> QED BY <2>1 DEF IInv, Positions, Begins
  <1> QED BY <1>1, Invariance, PTL

-----------------------------------------------------------------------------
(* The core implements the queue *)

Count == Cardinality(D!Firsts)

\* The queue in addresses: without a wrap, distances from the tail are differences.
QueueShape ==
    /\ D!Firsts = {d \in 0 .. drv.head - tail - 1 : mem[tail + d].off = 0}
    /\ IsFiniteSet(D!Firsts) /\ Count \in Nat
    /\ \A k \in 1 .. Count : D!Nth(D!Firsts, k) \in D!Firsts
    /\ D!Queue \in Seq(Cmd) /\ Len(D!Queue) = Count
    /\ D!Queue = [k \in 1 .. Count |-> mem[tail + D!Nth(D!Firsts, k)].cmd]

\* The library's operators are the same in every module.
LEMMA SameSizes ==
    /\ \A S : R!IsFiniteSet(S) <=> IsFiniteSet(S)
    /\ \A S : D!Cardinality(S) = Cardinality(S) /\ R!Cardinality(S) = Cardinality(S)
    /\ \A S, k : D!Nth(S, k) = R!Nth(S, k)
  <1>1. \A S : R!IsFiniteSet(S) <=> IsFiniteSet(S)
    BY Zenon DEF R!IsFiniteSet, IsFiniteSet
  <1>2. \A S : D!Cardinality(S) = Cardinality(S) /\ R!Cardinality(S) = Cardinality(S)
    BY Zenon DEF D!Cardinality, R!Cardinality, Cardinality
  <1>3. \A S, k : D!Nth(S, k) = R!Nth(S, k)
    BY <1>2, Zenon DEF D!Nth, R!Nth
  <1> QED BY <1>1, <1>2, <1>3

LEMMA NthFact ==
    ASSUME NEW S \in SUBSET Nat, IsFiniteSet(S)
    PROVE  /\ Cardinality(S) \in Nat
           /\ \A k \in 1 .. Cardinality(S) : D!Nth(S, k) \in S
  <1>1. /\ R!Cardinality(S) \in Nat
        /\ \A k \in 1 .. R!Cardinality(S) : R!Nth(S, k) \in S
    BY R!NthFact, SameSizes, BufAssumption DEF R!HdrCells
  <1> QED BY <1>1, SameSizes

LEMMA NthAppend ==
    ASSUME NEW S \in SUBSET Nat, IsFiniteSet(S), NEW p \in Nat, \A d \in S : d < p
    PROVE  /\ Cardinality(S \cup {p}) = Cardinality(S) + 1
           /\ \A k \in 1 .. Cardinality(S) : D!Nth(S \cup {p}, k) = D!Nth(S, k)
           /\ D!Nth(S \cup {p}, Cardinality(S) + 1) = p
  <1>1. /\ R!Cardinality(S \cup {p}) = R!Cardinality(S) + 1
        /\ \A k \in 1 .. R!Cardinality(S) : R!Nth(S \cup {p}, k) = R!Nth(S, k)
        /\ R!Nth(S \cup {p}, R!Cardinality(S) + 1) = p
    BY R!NthAppend, SameSizes, BufAssumption DEF R!HdrCells
  <1> QED BY <1>1, SameSizes

LEMMA NthTail ==
    ASSUME NEW S \in SUBSET Nat, IsFiniteSet(S), 0 \in S,
           NEW m \in Nat, m > 0, \A d \in S : d = 0 \/ m <= d,
           NEW T \in SUBSET Nat, \A d \in Nat : d \in T <=> m + d \in S
    PROVE  /\ IsFiniteSet(T) /\ Cardinality(S) = Cardinality(T) + 1
           /\ D!Nth(S, 1) = 0
           /\ \A k \in 1 .. Cardinality(T) : D!Nth(S, k + 1) = m + D!Nth(T, k)
  <1>1. /\ R!IsFiniteSet(T) /\ R!Cardinality(S) = R!Cardinality(T) + 1
        /\ R!Nth(S, 1) = 0
        /\ \A k \in 1 .. R!Cardinality(T) : R!Nth(S, k + 1) = m + R!Nth(T, k)
    BY R!NthTail, SameSizes, BufAssumption DEF R!HdrCells
  <1> QED BY <1>1, SameSizes

LEMMA QueueFact == IInv => QueueShape
  <1> SUFFICES ASSUME IInv
               PROVE  QueueShape
    OBVIOUS
  <1> DEFINE F == D!Firsts
             p == drv.head - tail
  <1>1. /\ tail \in Nat /\ drv.head \in Nat /\ tail <= drv.head /\ drv.head < Size /\ Size \in Nat
        /\ p \in Nat /\ p < Size
    BY DEF IInv, Positions
  <1>2. D!Pending = p
    BY <1>1 DEF D!Pending, D!Distance
  <1>3. ASSUME NEW d \in 0 .. p - 1
        PROVE  D!Advance(tail, d) = tail + d
    <2>1. Size - tail >= d /\ tail + d \in Nat /\ tail + d < Size
      BY <1>1
    <2> QED BY <2>1, SmallMod DEF D!Advance
  <1>4. F = {d \in 0 .. p - 1 : mem[tail + d].off = 0}
    <2>1. F = {d \in 0 .. p - 1 : mem[D!Advance(tail, d)].off = 0}
      BY <1>2, Zenon DEF D!Firsts, D!Starts
    <2> QED BY <1>3, <2>1
  <1>5. F \in SUBSET (0 .. p - 1) /\ F \in SUBSET Nat
    BY <1>1, <1>4
  <1> HIDE DEF F
  <1>6. IsFiniteSet(F) /\ Cardinality(F) \in Nat
    <2>1. 0 \in Int /\ p - 1 \in Int
      BY <1>1
    <2> HIDE DEF p
    <2>2. IsFiniteSet(0 .. p - 1)
      BY <2>1, FS_Interval
    <2> QED BY <1>5, <2>2, FS_Subset, FS_CardinalityType
  <1>7. \A k \in 1 .. Cardinality(F) : D!Nth(F, k) \in F
    BY <1>5, <1>6, NthFact
  <1>8. D!Queue = [k \in 1 .. Cardinality(F) |-> mem[D!Advance(tail, D!Nth(F, k))].cmd]
    <2>1. D!Cardinality(F) = Cardinality(F)
      BY SameSizes
    <2> QED BY <2>1, Zenon DEF D!Queue, F
  <1>9. D!Queue = [k \in 1 .. Cardinality(F) |-> mem[tail + D!Nth(F, k)].cmd]
    <2>1. \A k \in 1 .. Cardinality(F) : D!Advance(tail, D!Nth(F, k)) = tail + D!Nth(F, k)
      BY <1>3, <1>5, <1>7
    <2> QED BY <1>8, <2>1
  <1>10. ASSUME NEW d \in F
         PROVE  mem[tail + d].cmd \in Cmd
    <2>1. tail + d \in 0 .. drv.head - 1 /\ mem[tail + d].off = 0
      BY <1>1, <1>4, <1>5
    <2> QED BY <2>1 DEF IInv, Packets, Packet
  <1>11. D!Queue \in [1 .. Cardinality(F) -> Cmd]
    BY <1>7, <1>9, <1>10
  <1>12. D!Queue \in Seq(Cmd)
    BY <1>6, <1>11, SeqDef
  <1>13. Len(D!Queue) = Cardinality(F)
    <2>1. DOMAIN D!Queue = 1 .. Len(D!Queue) /\ Len(D!Queue) \in Nat
      BY <1>12, LenProperties
    <2>2. DOMAIN D!Queue = 1 .. Cardinality(F)
      BY <1>9
    <2>3. \A i, j \in Nat : 1 .. i = 1 .. j => i = j
      <3> SUFFICES ASSUME NEW i \in Nat, NEW j \in Nat, i < j
                   PROVE  1 .. i # 1 .. j
        OBVIOUS
      <3>1. j \in 1 .. j /\ j \notin 1 .. i
        OBVIOUS
      <3> QED BY <3>1
    <2> QED BY <1>6, <2>1, <2>2, <2>3
  <1> QED BY <1>4, <1>6, <1>7, <1>9, <1>12, <1>13 DEF QueueShape, Count, F

LEMMA QueueFactNext == IInv' => QueueShape'
  BY QueueFact, PTL

\* gpu_ring_write() submits its command.
LEMMA WriteSubmits ==
    ASSUME IInv, Fitting, NEW c \in Cmd, Write(c)
    PROVE  D!Queue' = Append(D!Queue, c)
  <1> DEFINE h == drv.head
             n == PacketLen(c)
             p == drv.head - tail
             F == D!Firsts
             q == Append(D!Queue, c)
  <1>1. /\ h \in Nat /\ n \in Nat /\ n > 1 /\ tail \in Nat /\ tail <= h /\ h + n < Size /\ Size \in Nat
        /\ drv'.head = h + n /\ tail' = tail
        /\ \A i \in 0 .. Size - 1 :
              mem'[i] = IF i \in h .. h + n - 1 THEN [cmd |-> c, off |-> i - h] ELSE mem[i]
    BY WriteFact, LenFact DEF IInv, Positions, ring
  <1>2. QueueShape /\ QueueShape'
    BY WriteStep, QueueFact, QueueFactNext
  <1> HIDE DEF n
  <1>3. p \in Nat /\ drv'.head - tail' = p + n /\ tail + p = h
    BY <1>1
  <1>4. \A d \in 0 .. p - 1 : mem'[tail + d] = mem[tail + d]
    <2> TAKE d \in 0 .. p - 1
    <2>1. tail + d \in 0 .. Size - 1 /\ tail + d \notin h .. h + n - 1
      BY <1>1
    <2> QED BY <1>1, <2>1
  <1>5. \A d \in p .. p + n - 1 : mem'[tail + d] = [cmd |-> c, off |-> d - p]
    <2> TAKE d \in p .. p + n - 1
    <2>1. tail + d \in 0 .. Size - 1 /\ tail + d \in h .. h + n - 1 /\ (tail + d) - h = d - p
      BY <1>1, <1>3
    <2> QED BY <1>1, <2>1
  <1>6. F = {d \in 0 .. p - 1 : mem[tail + d].off = 0} /\ F \in SUBSET Nat /\ \A d \in F : d < p
    <2>1. F = {d \in 0 .. p - 1 : mem[tail + d].off = 0}
      BY <1>2 DEF QueueShape
    <2> HIDE DEF F
    <2> QED BY <1>3, <2>1
  <1>7. F' = {d \in 0 .. p + n - 1 : mem'[tail + d].off = 0}
    BY <1>1, <1>2, <1>3 DEF QueueShape
  <1> HIDE DEF F, p
  <1>8. F' = F \cup {p}
    <2>1. ASSUME NEW d \in 0 .. p + n - 1
          PROVE  mem'[tail + d].off = 0 <=> d \in F \cup {p}
      <3>1. CASE d < p
        <4>1. d \in 0 .. p - 1 /\ d # p
          BY <1>3, <3>1
        <4> QED BY <1>4, <1>6, <4>1
      <3>2. CASE d >= p
        <4>1. mem'[tail + d] = [cmd |-> c, off |-> d - p]
          BY <1>1, <1>3, <1>5, <3>2
        <4>2. d - p = 0 <=> d = p
          BY <1>3
        <4>3. d \notin F
          BY <1>3, <1>6, <3>2
        <4> QED BY <4>1, <4>2, <4>3
      <3> QED BY <1>3, <3>1, <3>2
    <2>2. F \cup {p} \subseteq 0 .. p + n - 1
      BY <1>1, <1>3, <1>6
    <2> QED BY <1>7, <2>1, <2>2
  <1>9. IsFiniteSet(F) /\ Count \in Nat /\ Count = Cardinality(F) /\ Count' = Cardinality(F')
    BY <1>2 DEF QueueShape, Count, F
  <1>10. /\ Count' = Count + 1
         /\ \A k \in 1 .. Count : D!Nth(F', k) = D!Nth(F, k)
         /\ D!Nth(F', Count + 1) = p
    <2>1. /\ Cardinality(F \cup {p}) = Cardinality(F) + 1
          /\ \A k \in 1 .. Cardinality(F) : D!Nth(F \cup {p}, k) = D!Nth(F, k)
          /\ D!Nth(F \cup {p}, Cardinality(F) + 1) = p
      BY <1>3, <1>6, <1>9, NthAppend
    <2> QED BY <1>8, <1>9, <2>1
  <1>11. D!Queue' = [k \in 1 .. Count + 1 |-> mem'[tail + D!Nth(F', k)].cmd]
    BY <1>1, <1>2, <1>10 DEF QueueShape, F
  <1>12. q \in [1 .. Count + 1 -> Cmd] /\ (\A k \in 1 .. Count : q[k] = D!Queue[k]) /\ q[Count + 1] = c
    <2>1. D!Queue \in Seq(Cmd) /\ Len(D!Queue) = Count
      BY <1>2 DEF QueueShape
    <2>2. /\ q \in Seq(Cmd) /\ Len(q) = Count + 1
          /\ \A k \in 1 .. Count : q[k] = D!Queue[k]
          /\ q[Count + 1] = c
      BY <2>1, AppendProperties
    <2> HIDE DEF q
    <2> QED BY <2>2, LenProperties
  <1> HIDE DEF q
  <1>13. ASSUME NEW k \in 1 .. Count + 1
         PROVE  mem'[tail + D!Nth(F', k)].cmd = q[k]
    <2>1. CASE k = Count + 1
      <3>1. mem'[tail + p] = [cmd |-> c, off |-> p - p]
        BY <1>1, <1>3, <1>5
      <3> QED BY <1>10, <1>12, <2>1, <3>1
    <2>2. CASE k \in 1 .. Count
      <3>1. D!Nth(F, k) \in 0 .. p - 1
        <4>1. D!Nth(F, k) \in F
          BY <1>2, <2>2 DEF QueueShape, F
        <4> QED BY <1>6, <4>1
      <3>2. D!Queue[k] = mem[tail + D!Nth(F, k)].cmd
        BY <1>2, <2>2 DEF QueueShape, F
      <3> QED BY <1>4, <1>10, <1>12, <2>2, <3>1, <3>2
    <2> QED BY <1>9, <2>1, <2>2
  <1>14. D!Queue' = q
    BY <1>11, <1>12, <1>13
  <1> QED BY <1>14 DEF q

\* The last clock of a command takes it from the ring and holds it for the execute block.
LEMMA IssueTakes ==
    ASSUME IInv, IInv', Issue, mem' = mem, drv' = drv
    PROVE  /\ hdr.cmd \in Cmd
           /\ D!Queue # << >> /\ Head(D!Queue) = hdr.cmd /\ D!Queue' = Tail(D!Queue)
  <1> DEFINE c == mem[tail].cmd
             n == PacketLen(c)
             p == drv.head - tail
             F == D!Firsts
             q == Tail(D!Queue)
  <1>1. QueueShape /\ QueueShape'
    BY QueueFact, QueueFactNext
  <1>2. /\ c \in Cmd /\ hdr.cmd = c /\ n \in Nat /\ tail' = tail + n /\ tail < head /\ tail + n <= head
        /\ \A j \in 0 .. n - 1 : tail + j < Size /\ RamCell(tail + j) = [cmd |-> c, off |-> j]
    <2>1. rbState = "EXEC" /\ Reading /\ ptr = tail + PacketLen(hdr.cmd) /\ tail' = ptr
      BY DEF Issue, IInv, Controller
    <2> QED BY <2>1, PacketFact DEF Reading, IInv
  <1>3. /\ tail \in Nat /\ drv.head \in Nat /\ n \in Nat /\ n > 0 /\ p \in Nat /\ n <= p
        /\ drv'.head - tail' = p - n /\ p - n \in Nat
    <2>1. n > 1
      BY <1>2, LenFact
    <2>2. tail \in Nat /\ drv.head \in Nat /\ head \in Nat /\ tail <= head /\ head <= drv.head
      BY DEF IInv, Positions
    <2> HIDE DEF n
    <2> QED BY <1>2, <2>1, <2>2
  <1> HIDE DEF n
  <1>4. \A j \in 0 .. n - 1 : mem[tail + j] = [cmd |-> c, off |-> j]
    BY <1>2 DEF RamCell
  <1>5. F = {d \in 0 .. p - 1 : mem[tail + d].off = 0} /\ F \in SUBSET Nat /\ \A d \in F : d < p
    <2>1. F = {d \in 0 .. p - 1 : mem[tail + d].off = 0}
      BY <1>1 DEF QueueShape
    <2> HIDE DEF F
    <2> QED BY <1>3, <2>1
  <1>6. F' = {d \in 0 .. p - n - 1 : mem[tail + n + d].off = 0}
    BY <1>1, <1>2, <1>3 DEF QueueShape
  <1> HIDE DEF F, p, c
  <1>7. 0 \in F
    <2>1. 0 \in 0 .. n - 1 /\ tail + 0 = tail /\ 0 \in 0 .. p - 1
      BY <1>3
    <2>2. mem[tail + 0] = [cmd |-> c, off |-> 0]
      BY <1>4, <2>1
    <2> QED BY <1>5, <2>1, <2>2
  <1>8. \A d \in F : d = 0 \/ n <= d
    <2> SUFFICES ASSUME NEW d \in F, d < n
                 PROVE  d = 0
      BY <1>3, <1>5
    <2>1. d \in 0 .. n - 1 /\ mem[tail + d].off = 0
      BY <1>3, <1>5
    <2>2. mem[tail + d] = [cmd |-> c, off |-> d]
      BY <1>4, <2>1
    <2> QED BY <2>1, <2>2
  <1>9. F' \in SUBSET Nat /\ \A d \in Nat : d \in F' <=> n + d \in F
    <2>1. F' \in SUBSET Nat
      BY <1>3, <1>6
    <2> SUFFICES ASSUME NEW d \in Nat
                 PROVE  d \in F' <=> n + d \in F
      BY <2>1
    <2>2. /\ d \in 0 .. p - n - 1 <=> n + d \in 0 .. p - 1
          /\ tail + n + d = tail + (n + d)
      BY <1>3
    <2> QED BY <1>5, <1>6, <2>2
  <1>10. /\ IsFiniteSet(F) /\ Count = Cardinality(F) /\ Count' = Cardinality(F')
         /\ Count \in Nat /\ Count' \in Nat
         /\ \A k \in 1 .. Count' : D!Nth(F', k) \in F'
    BY <1>1 DEF QueueShape, Count, F
  <1>11. /\ Count = Count' + 1 /\ D!Nth(F, 1) = 0
         /\ \A k \in 1 .. Count' : D!Nth(F, k + 1) = n + D!Nth(F', k)
    <2>1. /\ Cardinality(F) = Cardinality(F') + 1 /\ D!Nth(F, 1) = 0
          /\ \A k \in 1 .. Cardinality(F') : D!Nth(F, k + 1) = n + D!Nth(F', k)
      <3>1. F \in SUBSET Nat /\ IsFiniteSet(F) /\ n \in Nat /\ n > 0
        BY <1>3, <1>5, <1>10
      <3> QED BY <1>7, <1>8, <1>9, <3>1, NthTail, Zenon
    <2> QED BY <1>10, <2>1
  <1>12. /\ D!Queue \in Seq(Cmd) /\ Len(D!Queue) = Count
         /\ \A k \in 1 .. Count : D!Queue[k] = mem[tail + D!Nth(F, k)].cmd
         /\ D!Queue' = [k \in 1 .. Count' |-> mem[tail + n + D!Nth(F', k)].cmd]
    BY <1>1, <1>2 DEF QueueShape, F
  <1>13. D!Queue # << >> /\ Head(D!Queue) = c
    <2>1. Len(D!Queue) > 0 /\ 1 \in 1 .. Count /\ tail + 0 = tail
      BY <1>3, <1>10, <1>11, <1>12
    <2>2. D!Queue[1] = c
      BY <1>11, <1>12, <2>1 DEF c
    <2>3. D!Queue # << >>
      BY <2>1, EmptySeq
    <2> QED BY <1>12, <2>2, <2>3
  <1>14. q \in [1 .. Count' -> Cmd] /\ \A k \in 1 .. Count' : q[k] = D!Queue[k + 1]
    <2>1. /\ q \in Seq(Cmd) /\ Len(q) = Len(D!Queue) - 1
          /\ \A k \in 1 .. Len(q) : q[k] = D!Queue[k + 1]
      BY <1>12, <1>13, HeadTailProperties
    <2> HIDE DEF q
    <2>2. Len(q) = Count'
      BY <1>10, <1>11, <1>12, <2>1
    <2> QED BY <2>1, <2>2, LenProperties
  <1> HIDE DEF q
  <1>15. ASSUME NEW k \in 1 .. Count'
         PROVE  mem[tail + n + D!Nth(F', k)].cmd = q[k]
    <2>1. k + 1 \in 1 .. Count /\ D!Nth(F', k) \in Nat
      <3>1. k + 1 \in 1 .. Count
        BY <1>10, <1>11
      <3>2. D!Nth(F', k) \in F'
        BY <1>10
      <3> QED BY <1>9, <3>1, <3>2
    <2>2. tail + D!Nth(F, k + 1) = tail + n + D!Nth(F', k)
      BY <1>3, <1>11, <2>1
    <2> QED BY <1>12, <1>14, <2>1, <2>2
  <1>16. D!Queue' = q
    BY <1>12, <1>14, <1>15
  <1> QED BY <1>2, <1>13, <1>16 DEF q

\* Nothing else moves the queue.
LEMMA QueueStays ==
    ASSUME IInv, IInv', mem' = mem, drv'.head = drv.head, tail' = tail
    PROVE  D!Queue' = D!Queue
  BY DEF D!Queue, D!Firsts, D!Pending, D!Starts

\* Neither the queue nor the buffer's size matters to what a command does.
LEMMA SameExec ==
    ASSUME Executable, NEW c \in Cmd
    PROVE  ~A!Oversize(c) /\ \A r : A!ExecCmd(r, c) = IF c.type \in CoreTypes THEN Q!ExecCmd(r, c) ELSE r
  <1>1. ~A!Oversize(c)
    BY BufAssumption DEF Executable, A!Oversize
  <1>2. \A r : A!ExecCmd(r, c) = Q!ExecCmd(r, c)
    BY DEF A!ExecCmd, Q!ExecCmd, A!Target, Q!Target, A!Ranged, Q!Ranged, A!Draws, Q!Draws, A!Reg, Q!Reg
  <1>3. c.type \notin CoreTypes => \A r : Q!ExecCmd(r, c) = r
    BY DEF Executable, Q!ExecCmd
  <1> QED BY <1>1, <1>2, <1>3

\* Each clock and each access of the driver is a step of the queue, or none.
LEMMA StepOfQueue ==
    ASSUME Fitting, Executable, IInv, IInv', [Next]_vars
    PROVE  A!QNext \/ UNCHANGED <<Waiting, regs>>
  <1>1. D!Queue \in Seq(Cmd)
    BY QueueFact DEF QueueShape
  <1>2. ASSUME NEW c \in Cmd, Write(c)
        PROVE  A!QSubmit
    <2>1. D!Queue' = Append(D!Queue, c) /\ regs' = regs /\ exec' = exec
      BY <1>2, WriteSubmits DEF Write
    <2>2. exec \in Seq(Cmd)
      <3>1. CASE exec = << >>
        BY <3>1
      <3>2. ASSUME NEW b \in Cmd, exec = <<b>>
            PROVE  exec \in Seq(Cmd)
        BY <3>2
      <3> QED BY <3>1, <3>2 DEF IInv, Executing
    <2>3. exec \o Append(D!Queue, c) = Append(exec \o D!Queue, c)
      BY <1>1, <2>2
    <2> QED BY <2>1, <2>3 DEF A!QSubmit, Waiting
  <1>3. CASE UNCHANGED vars \/ ReadTail
    <2>1. UNCHANGED <<mem, tail, exec, regs>> /\ drv'.head = drv.head
      BY <1>3 DEF vars, ReadTail, IInv, Positions, ring
    <2> QED BY <2>1, QueueStays DEF Waiting
  <1>4. ASSUME NEW out \in Outs, NEW ack \in BOOLEAN, Clock(out, ack)
        PROVE  A!QTake \/ UNCHANGED <<Waiting, regs>>
    <2>1. Rb(ack) /\ mem' = mem /\ drv' = drv /\ exec' = ExecValid
      BY <1>4 DEF Clock, Exec
    <2>2. CASE rbState = "EXEC"
      <3>1. Issue /\ exec = << >> /\ whole
        BY <2>1, <2>2 DEF Rb, Idle, Fetch, Wait, Payload, IInv, Controller, Reading, Executing
      <3>2. /\ hdr.cmd \in Cmd
            /\ D!Queue # << >> /\ Head(D!Queue) = hdr.cmd /\ D!Queue' = Tail(D!Queue)
        BY <2>1, <3>1, IssueTakes
      <3>3. exec' = <<hdr.cmd>> /\ regs' = regs
        BY <1>4, <2>1, <2>2, <3>1 DEF ExecValid, Clock, Exec
      <3>4. <<Head(D!Queue)>> \o Tail(D!Queue) = << >> \o D!Queue
        BY <1>1, <3>2
      <3> QED BY <3>1, <3>2, <3>3, <3>4 DEF Waiting
    <2>3. CASE rbState # "EXEC"
      <3>1. tail' = tail /\ exec' = << >>
        BY <2>1, <2>3 DEF Rb, Idle, Fetch, Wait, Payload, Issue, ring, ExecValid
      <3>2. D!Queue' = D!Queue
        BY <2>1, <3>1, QueueStays
      <3>3. CASE exec = << >>
        BY <1>4, <3>1, <3>2, <3>3 DEF Clock, Exec, Waiting
      <3>4. CASE exec # << >>
        <4>1. PICK c \in Cmd : exec = <<c>>
          BY <3>4 DEF IInv, Executing
        <4>2. Waiting # << >> /\ Head(Waiting) = c /\ Tail(Waiting) = D!Queue
          BY <1>1, <4>1 DEF Waiting
        <4>3. Waiting' = D!Queue
          BY <1>1, <3>1, <3>2 DEF Waiting
        <4>4. regs' = IF c.type \in CoreTypes THEN Q!ExecCmd(regs, c) ELSE regs
          BY <1>4, <4>1 DEF Clock, Exec
        <4>5. regs' = IF A!Oversize(c) THEN regs ELSE A!ExecCmd(regs, c)
          BY <4>4, SameExec
        <4> QED BY <4>2, <4>3, <4>5 DEF A!QTake
      <3> QED BY <3>3, <3>4
    <2> QED BY <2>2, <2>3
  <1> QED BY <1>2, <1>3, <1>4 DEF Next, A!QNext

\* The core implements the queue of GpuQueue: whatever the RAM's delays, lost doorbells and
\* OUTs in the same clock, each command takes effect once and in the order in which the
\* driver wrote it (gpu_core.v:209-340).
THEOREM ImplementsQueue ==
    ASSUME Fitting, Executable
    PROVE  Spec => QueueSpec
  <1>1. Init => A!QInit
    <2> SUFFICES ASSUME Init
                 PROVE  A!QInit
      OBVIOUS
    <2>1. QueueShape
      BY InitInv, QueueFact
    <2>2. D!Firsts = {}
      BY <2>1 DEF QueueShape, Init
    <2>3. D!Queue = << >>
      <3>1. Cardinality(D!Firsts) = 0
        BY <2>2, FS_EmptySet
      <3>2. Len(D!Queue) = 0 /\ D!Queue \in Seq(Cmd)
        BY <2>1, <3>1 DEF QueueShape, Count
      <3> QED BY <3>2, EmptySeq
    <2>4. regs = A!NewRegs
      BY DEF Init, Q!NewRegs, A!NewRegs, Q!Reg, A!Reg, Q!Target, A!Target
    <2>5. Waiting = << >>
      BY <2>3 DEF Waiting, Init
    <2> QED BY <2>4, <2>5 DEF A!QInit
  <1>2. IInv /\ IInv' /\ [Next]_vars => [A!QNext]_<<Waiting, regs>>
    BY StepOfQueue
  <1> QED BY <1>1, <1>2, Invariance, PTL DEF Spec, QueueSpec, A!QSpec
=============================================================================
