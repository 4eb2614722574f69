---------------------------- MODULE GpuRingProofs ----------------------------
(***************************************************************************)
(* The ring keeps every packet whole until it is read, for every size of   *)
(* the ring, every set of commands and every interleaving of driver,       *)
(* nested doorbells and callbacks.                                         *)
(*                                                                         *)
(* All indices wrap around, so the argument is made in distances from the  *)
(* reader's tail: the first section proves what Advance and Distance do to *)
(* them, once, and the steps of the specification use only those facts.    *)
(*                                                                         *)
(* With whole packets the ring implements the queue: the positions where a *)
(* packet starts gain one at the end by a write and lose the first by a    *)
(* turn of the loop, and everything else leaves them as they are.          *)
(***************************************************************************)
EXTENDS GpuRing, FiniteSetTheorems, FunctionTheorems, SequenceTheorems, TLAPS

USE SizeAssumption, DepthAssumption DEF HdrCells, Cells, Index

-----------------------------------------------------------------------------
(* Positions and distances *)

\* The remainder, in the range that the ring's indices reach.
LEMMA ModFact ==
    ASSUME NEW a \in Nat, a < 2 * Size
    PROVE  a % Size = IF a < Size THEN a ELSE a - Size
  BY Z3

\* A copy advances a position by its length, once around at most.
LEMMA AdvanceFact ==
    ASSUME NEW x \in Index, NEW n \in Nat, n <= Size
    PROVE  /\ Advance(x, n) = IF x + n < Size THEN x + n ELSE x + n - Size
           /\ Advance(x, n) \in Index
  BY ModFact DEF Advance

\* gpu_ring_skip() moves as a copy of the same length would.
LEMMA SkipFact ==
    ASSUME NEW x \in Index, NEW n \in Nat, n <= Size
    PROVE  Skip(x, n) = Advance(x, n)
  <1>1. x + n \in Nat /\ x + n < 2 * Size
    OBVIOUS
  <1>2. (x + n) % Size = IF x + n < Size THEN x + n ELSE x + n - Size
    BY <1>1, ModFact
  <1> QED
    BY <1>2, AdvanceFact DEF Skip

LEMMA DistanceFact ==
    ASSUME NEW x \in Index, NEW y \in Index
    PROVE  /\ Distance(x, y) \in 0 .. Size - 1
           /\ Advance(x, Distance(x, y)) = y
           /\ Distance(x, y) = 0 <=> x = y
  BY AdvanceFact DEF Distance

\* Two advances make one, and an advance is the distance it made.
LEMMA AdvanceTwice ==
    ASSUME NEW x \in Index, NEW m \in Nat, NEW n \in Nat, m + n < Size
    PROVE  /\ Advance(Advance(x, m), n) = Advance(x, m + n)
           /\ Distance(x, Advance(x, m)) = m
  <1>1. m <= Size /\ n <= Size /\ m + n <= Size /\ m + n \in Nat
    OBVIOUS
  <1>2. Advance(x, m) \in Index
    BY <1>1, AdvanceFact
  <1>3. Advance(x, m) = IF x + m < Size THEN x + m ELSE x + m - Size
    BY <1>1, AdvanceFact
  <1>4. Advance(Advance(x, m), n) = IF Advance(x, m) + n < Size THEN Advance(x, m) + n
                                                               ELSE Advance(x, m) + n - Size
    BY <1>1, <1>2, AdvanceFact
  <1>5. Advance(x, m + n) = IF x + (m + n) < Size THEN x + (m + n) ELSE x + (m + n) - Size
    BY <1>1, AdvanceFact
  <1> QED
    BY <1>1, <1>2, <1>3, <1>4, <1>5 DEF Distance

\* Seen from one position, the distance between two others is the difference of theirs,
\* around the end of the ring when it runs backwards.
LEMMA DistanceBetween ==
    ASSUME NEW x \in Index, NEW m \in 0 .. Size - 1, NEW n \in 0 .. Size - 1
    PROVE  /\ n >= m => Distance(Advance(x, m), Advance(x, n)) = n - m
           /\ n < m  => Distance(Advance(x, m), Advance(x, n)) = Size - m + n
  <1>1. Advance(x, m) = IF x + m < Size THEN x + m ELSE x + m - Size
    BY AdvanceFact
  <1>2. Advance(x, n) = IF x + n < Size THEN x + n ELSE x + n - Size
    BY AdvanceFact
  <1> QED
    BY <1>1, <1>2 DEF Distance

-----------------------------------------------------------------------------
(* The invariant *)

IInv == TypeOK /\ PositionsInOrder /\ PacketsWhole

CellAt(d) == mem[Advance(ring.tail, d)]
CellAfter(d) == mem'[Advance(ring'.tail, d)]

\* The driver's copies of a tail never pass it, so the free space it computes is real.
LEMMA PendingFact ==
    ASSUME TypeOK, PositionsInOrder
    PROVE  /\ Pending \in 0 .. Size - 1
           /\ Used(ring) \in 0 .. Size - 1 /\ Used(drv) \in 0 .. Size - 1
           /\ Advance(ring.tail, Pending) = drv.head
           /\ Advance(ring.tail, Used(ring)) = ring.head
           /\ Pending + Free(drv) < Size
  <1>1. /\ drv.head \in Index /\ drv.tail \in Index
        /\ ring.head \in Index /\ ring.tail \in Index
    BY DEF TypeOK, Ring
  <1>2. /\ Distance(ring.tail, drv.head) \in 0 .. Size - 1
        /\ Advance(ring.tail, Distance(ring.tail, drv.head)) = drv.head
    BY <1>1, DistanceFact
  <1>3. /\ Distance(ring.tail, ring.head) \in 0 .. Size - 1
        /\ Advance(ring.tail, Distance(ring.tail, ring.head)) = ring.head
    BY <1>1, DistanceFact
  <1>4. Distance(drv.tail, drv.head) \in 0 .. Size - 1 /\ Distance(drv.tail, ring.tail) \in 0 .. Size - 1
    BY <1>1, DistanceFact
  <1>5. Pending + Free(drv) < Size
    BY <1>2, <1>4 DEF PositionsInOrder, Pending, Used, Free
  <1> QED
    BY <1>2, <1>3, <1>4, <1>5 DEF Pending, Used

\* A header the loop finds starts a whole packet that is published to its end.
LEMMA FirstPacket ==
    ASSUME IInv, ~NoHeader
    PROVE  /\ Received = HdrCmd /\ HdrCmd \in Cmd /\ HdrLen = HdrCmd.len
           /\ Cells(HdrCmd) \in Nat /\ HdrCells + HdrLen = Cells(HdrCmd)
           /\ Cells(HdrCmd) <= Used(ring)
  <1> DEFINE c == CellAt(0).cmd
  <1>1. Used(ring) > 0 /\ Pending > 0
    <2>1. Used(ring) >= HdrCells
      BY PendingFact DEF IInv, NoHeader
    <2> QED
      BY <2>1, PendingFact DEF IInv, PositionsInOrder
  <1>2. Starts(0) /\ WholeAt(0)
    BY <1>1, PendingFact DEF IInv, PacketsWhole
  <1>3. c \in Cmd /\ c.len \in Nat /\ Cells(c) <= Pending
    BY <1>2, PendingFact, CmdAssumption DEF WholeAt, CellAt, IInv
  <1>4. \A j \in 0 .. Cells(c) - 1 : CellAt(j) = [cmd |-> c, off |-> j]
    BY <1>2 DEF WholeAt, CellAt
  <1>5. CellAt(1).cmd = c
    BY <1>3, <1>4
  <1>6. Cells(c) <= Used(ring)
    <2> SUFFICES ASSUME Used(ring) < Cells(c)
                 PROVE  FALSE
      BY <1>3, PendingFact DEF IInv
    <2>1. Starts(Used(ring))
      BY <1>3, PendingFact DEF IInv, PacketsWhole
    <2>2. CellAt(Used(ring)).off = Used(ring)
      BY <1>3, <1>4, PendingFact DEF IInv
    <2> QED
      BY <1>1, <2>1, <2>2 DEF Starts, CellAt
  <1>7. HdrCmd = c /\ HdrLen = c.len
    BY <1>5 DEF HdrCmd, HdrLen, At, CellAt
  <1>8. Received = c
    BY <1>3, <1>4, <1>7 DEF Received, At, CellAt
  <1> QED
    BY <1>3, <1>6, <1>7, <1>8

-----------------------------------------------------------------------------
(* The driver writes *)

\* gpu_ring_write() adds its packet behind the pending ones and touches none of their cells.
LEMMA WriteAppends ==
    ASSUME IInv, NEW c \in Cmd, Write(c)
    PROVE  /\ c.len \in Nat /\ Pending + Cells(c) < Size
           /\ drv'.head \in Index
           /\ Pending' = Pending + Cells(c)
           /\ Used(drv)' = Used(drv) + Cells(c)
           /\ \A d \in 0 .. Pending - 1 : CellAfter(d) = CellAt(d)
           /\ \A j \in 0 .. Cells(c) - 1 : CellAfter(Pending + j) = [cmd |-> c, off |-> j]
  <1> DEFINE k == Cells(c)
             x == ring.tail
             a == Distance(drv.tail, x)
  <1>1. c.len \in Nat /\ k \in Nat /\ k = HdrCells + c.len
    BY CmdAssumption
  <1>2. x \in Index /\ drv.tail \in Index /\ drv.head \in Index
    BY DEF IInv, TypeOK, Ring
  <1>3. /\ Pending \in 0 .. Size - 1 /\ Used(drv) \in 0 .. Size - 1
        /\ drv.head = Advance(x, Pending)
        /\ Pending + Free(drv) < Size
    BY PendingFact DEF IInv
  <1>4. Pending + k < Size /\ Used(drv) + k < Size
    BY <1>1, <1>3 DEF Write, Free
  <1>5. drv'.head = Advance(drv.head, k) /\ drv'.tail = drv.tail
    <2>1. drv' = [drv EXCEPT !.head = Advance(Advance(drv.head, HdrCells), c.len)]
      BY DEF Write
    <2>2. Advance(Advance(drv.head, HdrCells), c.len) = Advance(drv.head, HdrCells + c.len)
      BY <1>1, <1>2, <1>3, <1>4, AdvanceTwice
    <2> QED
      BY <1>1, <2>1, <2>2 DEF IInv, TypeOK, Ring
  <1>6. drv'.head = Advance(x, Pending + k)
    BY <1>1, <1>2, <1>3, <1>4, <1>5, AdvanceTwice
  <1>7. drv'.head \in Index /\ Pending' = Pending + k
    <2>1. ring' = ring
      BY DEF Write
    <2>2. /\ Pending + k \in Nat /\ 0 \in Nat
          /\ Pending + k <= Size /\ (Pending + k) + 0 < Size
      BY <1>1, <1>3, <1>4
    <2>3. Advance(x, Pending + k) \in Index
      BY <1>2, <2>2, AdvanceFact
    <2>4. Distance(x, Advance(x, Pending + k)) = Pending + k
      BY <1>2, <2>2, AdvanceTwice
    <2> QED
      BY <1>6, <2>1, <2>3, <2>4 DEF Pending
  <1>8. Used(drv)' = Used(drv) + k
    <2>1. drv.head = Advance(drv.tail, Used(drv))
      BY <1>2, DistanceFact DEF Used
    <2>2. drv'.head = Advance(drv.tail, Used(drv) + k)
      BY <1>1, <1>2, <1>3, <1>4, <1>5, <2>1, AdvanceTwice
    <2>3. Used(drv) + k \in Nat /\ Used(drv) + k + 0 < Size
      BY <1>1, <1>3, <1>4
    <2>4. Distance(drv.tail, Advance(drv.tail, Used(drv) + k)) = Used(drv) + k
      BY <1>2, <2>3, AdvanceTwice
    <2> QED
      BY <1>5, <2>2, <2>4 DEF Used
  <1>9. \A i \in Index : mem'[i] = IF Distance(drv.head, i) < k
                                  THEN [cmd |-> c, off |-> Distance(drv.head, i)] ELSE mem[i]
    BY DEF Write, Written
  <1>10. ASSUME NEW d \in 0 .. Pending - 1
         PROVE  CellAfter(d) = CellAt(d)
    <2>1. d \in Nat /\ d <= Size /\ d < Pending /\ d \in 0 .. Size - 1
      BY <1>3
    <2>2. Advance(x, d) \in Index
      BY <1>2, <2>1, AdvanceFact
    <2>3. Distance(Advance(x, Pending), Advance(x, d)) = Size - Pending + d
      <3> HIDE DEF x
      <3> QED BY <1>2, <1>3, <2>1, DistanceBetween
    <2>4. ~(Distance(drv.head, Advance(x, d)) < k)
      BY <1>1, <1>3, <1>4, <2>1, <2>3
    <2> QED
      BY <1>9, <2>2, <2>4 DEF CellAt, CellAfter, Write
  <1>11. ASSUME NEW j \in 0 .. k - 1
         PROVE  CellAfter(Pending + j) = [cmd |-> c, off |-> j]
    <2>1. /\ j \in Nat /\ j < k
          /\ Pending + j \in Nat /\ Pending + j <= Size /\ Pending + j \in 0 .. Size - 1
      BY <1>1, <1>3, <1>4
    <2>2. Advance(x, Pending + j) \in Index
      BY <1>2, <2>1, AdvanceFact
    <2>3. Distance(Advance(x, Pending), Advance(x, Pending + j)) = j
      <3>1. Distance(Advance(x, Pending), Advance(x, Pending + j)) = (Pending + j) - Pending
        <4> HIDE DEF x
        <4>1. Pending + j >= Pending
          BY <1>3, <2>1
        <4> QED
          BY <1>2, <1>3, <2>1, <4>1, DistanceBetween
      <3> QED
        BY <1>3, <2>1, <3>1
    <2> QED
      <3>1. CellAfter(Pending + j) = mem'[Advance(x, Pending + j)]
        BY DEF CellAfter, Write
      <3> QED
        BY <1>3, <1>9, <2>1, <2>2, <2>3, <3>1
  <1> QED
    BY <1>1, <1>4, <1>7, <1>8, <1>10, <1>11

\* A state is the same for the invariant when memory and positions are.
LEMMA PacketsAfter ==
    ASSUME ring'.tail \in Index, Pending' \in 0 .. Size - 1, Used(ring)' \in 0 .. Size - 1,
           Pending' > 0 => CellAfter(0).off = 0,
           Used(ring)' < Pending' => CellAfter(Used(ring)').off = 0,
           \A d \in 0 .. Pending' - 1 : CellAfter(d).off = 0 =>
              LET c == CellAfter(d).cmd
              IN  /\ c \in Cmd /\ d + Cells(c) <= Pending'
                  /\ \A j \in 0 .. Cells(c) - 1 : CellAfter(d + j) = [cmd |-> c, off |-> j]
                  /\ d + Cells(c) < Pending' => CellAfter(d + Cells(c)).off = 0
    PROVE  PacketsWhole'
  BY DEF PacketsWhole, WholeAt, Starts, CellAfter

LEMMA WriteStep ==
    ASSUME IInv, NEW c \in Cmd, Write(c)
    PROVE  IInv'
  <1> DEFINE k == Cells(c)
  <1>1. /\ c.len \in Nat /\ k \in Nat /\ k = HdrCells + c.len /\ k > 0
        /\ Pending + k < Size /\ Pending \in 0 .. Size - 1
        /\ drv'.head \in Index /\ Pending' = Pending + k /\ Used(drv)' = Used(drv) + k
        /\ Used(ring) \in 0 .. Size - 1 /\ Used(ring) <= Pending
    BY WriteAppends, PendingFact DEF IInv, PositionsInOrder
  <1>2. \A d \in 0 .. Pending - 1 : CellAfter(d) = CellAt(d)
    BY WriteAppends
  <1>3. \A j \in 0 .. k - 1 : CellAfter(Pending + j) = [cmd |-> c, off |-> j]
    BY WriteAppends
  <1>4. ring' = ring /\ drv'.tail = drv.tail
    BY DEF Write, IInv, TypeOK, Ring
  <1>5. TypeOK'
    <2>1. drv' \in Ring
      BY <1>1 DEF Write, IInv, TypeOK, Ring
    <2>2. mem' \in [Index -> Cell]
      <3>1. \A i \in Index : Distance(drv.head, i) \in Nat
        <4>1. drv.head \in Index
          BY DEF IInv, TypeOK, Ring
        <4>2. ASSUME NEW i \in Index
              PROVE  Distance(drv.head, i) \in 0 .. Size - 1
          BY <4>1, DistanceFact
        <4> QED
          BY <4>2
      <3> QED
        BY <3>1 DEF Write, Written, IInv, TypeOK, Cell
    <2> QED
      BY <2>1, <2>2 DEF Write, IInv, TypeOK
  <1>6. PositionsInOrder'
    <2>1. Used(ring)' = Used(ring)
      BY <1>4 DEF Used
    <2>2. Distance(drv.tail, ring.tail)' = Distance(drv.tail, ring.tail)
      BY <1>4
    <2>3. Distance(drv.tail, ring.tail) \in Nat /\ Used(drv) \in Nat
      BY DistanceFact DEF IInv, TypeOK, Ring, Used
    <2> QED
      BY <1>1, <2>1, <2>2, <2>3 DEF IInv, PositionsInOrder
  <1>7. CellAfter(Pending) = [cmd |-> c, off |-> 0]
    <2>1. 0 \in 0 .. k - 1 /\ Pending + 0 = Pending
      BY <1>1
    <2> HIDE DEF k
    <2>2. CellAfter(Pending + 0) = [cmd |-> c, off |-> 0]
      BY <1>3, <2>1
    <2> QED
      BY <2>1, <2>2
  <1>8. PacketsWhole'
    <2>1. Used(ring)' = Used(ring) /\ ring'.tail \in Index
      BY <1>4 DEF Used, IInv, TypeOK, Ring
    <2>2. CellAfter(0).off = 0
      <3>1. CASE Pending = 0
        BY <1>7, <3>1
      <3>2. CASE Pending > 0
        BY <1>1, <1>2, <3>2 DEF IInv, PacketsWhole, Starts, CellAt
      <3> QED
        BY <1>1, <3>1, <3>2
    <2>3. CellAfter(Used(ring)).off = 0
      <3>1. CASE Used(ring) = Pending
        BY <1>7, <3>1
      <3>2. CASE Used(ring) < Pending
        BY <1>1, <1>2, <3>2 DEF IInv, PacketsWhole, Starts, CellAt
      <3> QED
        BY <1>1, <3>1, <3>2
    <2>4. ASSUME NEW d \in 0 .. Pending + k - 1, CellAfter(d).off = 0
          PROVE  LET b == CellAfter(d).cmd
                 IN  /\ b \in Cmd /\ d + Cells(b) <= Pending + k
                     /\ \A j \in 0 .. Cells(b) - 1 : CellAfter(d + j) = [cmd |-> b, off |-> j]
                     /\ d + Cells(b) < Pending + k => CellAfter(d + Cells(b)).off = 0
      <3>1. CASE d < Pending
        <4> DEFINE b == CellAt(d).cmd
        <4>1. WholeAt(d) /\ CellAfter(d).cmd = b
          BY <1>1, <1>2, <2>4, <3>1 DEF IInv, PacketsWhole, Starts, CellAt
        <4>2. /\ b \in Cmd /\ Cells(b) \in Nat /\ d + Cells(b) <= Pending
              /\ \A j \in 0 .. Cells(b) - 1 : CellAt(d + j) = [cmd |-> b, off |-> j]
              /\ d + Cells(b) < Pending => CellAt(d + Cells(b)).off = 0
          BY <4>1, CmdAssumption DEF WholeAt, Starts, CellAt
        <4>3. \A j \in 0 .. Cells(b) - 1 : CellAfter(d + j) = [cmd |-> b, off |-> j]
          BY <1>1, <1>2, <4>2
        <4>4. CellAfter(d + Cells(b)).off = 0
          <5>1. CASE d + Cells(b) = Pending
            BY <1>7, <5>1
          <5>2. CASE d + Cells(b) < Pending
            BY <1>1, <1>2, <4>2, <5>2
          <5> QED
            BY <1>1, <4>2, <5>1, <5>2
        <4> HIDE DEF b
        <4> QED
          BY <1>1, <4>1, <4>2, <4>3, <4>4
      <3>2. CASE d >= Pending
        <4>1. d - Pending \in 0 .. k - 1 /\ d = Pending + (d - Pending)
          BY <1>1, <3>2
        <4>2. CellAfter(d) = [cmd |-> c, off |-> d - Pending]
          BY <1>3, <4>1
        <4>3. d = Pending
          BY <1>1, <2>4, <4>1, <4>2
        <4> QED
          BY <1>1, <1>3, <4>2, <4>3
      <3> QED
        BY <1>1, <3>1, <3>2
    <2> QED
      BY <1>1, <2>1, <2>2, <2>3, <2>4, PacketsAfter
  <1> QED
    BY <1>5, <1>6, <1>8 DEF IInv

-----------------------------------------------------------------------------
(* The GPU takes a packet *)

\* What lies behind the packet is read from the new tail as it was from the old.
LEMMA TakeShifts ==
    ASSUME IInv, ~NoHeader, UNCHANGED <<mem, drv>>,
           ring' = [ring EXCEPT !.tail = Advance(ring.tail, Cells(HdrCmd))]
    PROVE  /\ HdrCmd \in Cmd /\ HdrCmd = CellAt(0).cmd /\ WholeAt(0)
           /\ Cells(HdrCmd) \in Nat /\ Cells(HdrCmd) > 0 /\ Cells(HdrCmd) <= Pending
           /\ Pending \in 0 .. Size - 1 /\ Pending' = Pending - Cells(HdrCmd)
           /\ \A d \in Nat : Cells(HdrCmd) + d < Size => CellAfter(d) = CellAt(Cells(HdrCmd) + d)
  <1> DEFINE n == Cells(HdrCmd)
             x == ring.tail
  <1>1. /\ HdrCmd \in Cmd /\ n \in Nat /\ n <= Used(ring) /\ n > 0 /\ HdrCmd = CellAt(0).cmd
        /\ Used(ring) \in 0 .. Size - 1 /\ Pending \in 0 .. Size - 1 /\ Used(ring) <= Pending
    BY FirstPacket, PendingFact, CmdAssumption
       DEF IInv, PositionsInOrder, HdrCmd, At, CellAt
  <1>2. x \in Index /\ Advance(x, Pending) = drv.head
    BY PendingFact DEF IInv, TypeOK, Ring
  <1>3. ring'.tail = Advance(x, n)
    BY DEF IInv, TypeOK, Ring
  <1>4. Pending' = Pending - n
    <2>1. n \in 0 .. Size - 1 /\ Pending >= n
      BY <1>1
    <2> HIDE DEF x, n
    <2>2. Distance(Advance(x, n), Advance(x, Pending)) = Pending - n
      BY <1>1, <1>2, <2>1, DistanceBetween
    <2> QED
      BY <1>2, <1>3, <2>2 DEF Pending
  <1>5. ASSUME NEW d \in Nat, n + d < Size
        PROVE  CellAfter(d) = CellAt(n + d)
    <2> HIDE DEF n
    <2>1. Advance(Advance(x, n), d) = Advance(x, n + d)
      BY <1>1, <1>2, <1>5, AdvanceTwice
    <2> QED
      BY <1>3, <2>1 DEF CellAfter, CellAt
  <1>6. WholeAt(0)
    <2>1. Starts(0) /\ 0 \in 0 .. Pending - 1
      BY <1>1 DEF IInv, PacketsWhole
    <2> QED
      BY <2>1 DEF IInv, PacketsWhole
  <1>7. n <= Pending
    BY <1>1
  <1> QED
    BY <1>1, <1>4, <1>5, <1>6, <1>7

LEMMA TakeStep ==
    ASSUME IInv, ~NoHeader, UNCHANGED <<mem, drv>>,
           ring' = [ring EXCEPT !.tail = Advance(ring.tail, Cells(HdrCmd))]
    PROVE  ring' \in Ring /\ PositionsInOrder' /\ PacketsWhole'
  <1> DEFINE n == Cells(HdrCmd)
             x == ring.tail
             a == Distance(drv.tail, x)
  <1>1. /\ HdrCmd \in Cmd /\ n \in Nat /\ n <= Used(ring) /\ n > 0 /\ HdrCmd = CellAt(0).cmd
        /\ Used(ring) \in 0 .. Size - 1 /\ Pending \in 0 .. Size - 1 /\ Used(ring) <= Pending
    BY FirstPacket, PendingFact, CmdAssumption
       DEF IInv, PositionsInOrder, HdrCmd, At, CellAt
  <1>2. x \in Index /\ drv.tail \in Index /\ drv.head \in Index /\ ring.head \in Index
    BY DEF IInv, TypeOK, Ring
  <1>3. /\ Advance(x, Pending) = drv.head /\ Advance(x, Used(ring)) = ring.head
        /\ Used(drv) \in 0 .. Size - 1 /\ a + Pending = Used(drv)
        /\ a \in 0 .. Size - 1 /\ Advance(drv.tail, a) = x
    BY <1>2, PendingFact, DistanceFact DEF IInv, PositionsInOrder
  <1>4. ring'.tail = Advance(x, n) /\ ring'.head = ring.head
    BY DEF IInv, TypeOK, Ring
  <1>5. ring'.tail \in Index /\ ring' \in Ring
    <2>1. Advance(x, n) \in Index
      BY <1>1, <1>2, AdvanceFact
    <2> QED
      BY <2>1, <1>4 DEF IInv, TypeOK, Ring
  <1>6. Pending' = Pending - n
    BY TakeShifts
  <1>7. Used(ring)' = Used(ring) - n
    <2>1. n \in 0 .. Size - 1 /\ Used(ring) >= n
      BY <1>1
    <2> HIDE DEF x, n
    <2>2. Distance(Advance(x, n), Advance(x, Used(ring))) = Used(ring) - n
      BY <1>1, <1>2, <2>1, DistanceBetween
    <2>3. Used(ring)' = Distance(ring'.tail, ring'.head)
      BY DEF Used
    <2> QED
      BY <1>3, <1>4, <2>2, <2>3
  <1>8. PositionsInOrder'
    <2>1. Used(drv)' = Used(drv)
      BY DEF Used
    <2>2. a + n \in Nat /\ (a + n) + 0 < Size /\ a + n < Size
      BY <1>1, <1>3
    <2>3. ring'.tail = Advance(drv.tail, a + n)
      <3> HIDE DEF a, x, n
      <3> QED
        BY <1>1, <1>2, <1>3, <1>4, <2>2, AdvanceTwice
    <2>4. Distance(drv.tail, Advance(drv.tail, a + n)) = a + n
      <3> HIDE DEF a, x, n
      <3> QED
        BY <1>2, <2>2, AdvanceTwice
    <2>5. Distance(drv.tail, ring.tail)' = a + n
      BY <2>3, <2>4
    <2> HIDE DEF a, n
    <2> QED
      BY <1>1, <1>3, <1>6, <1>7, <2>1, <2>5 DEF PositionsInOrder
  <1>9. ASSUME NEW d \in Nat, n + d < Size
        PROVE  CellAfter(d) = CellAt(n + d)
    BY <1>9, TakeShifts
  <1>10. WholeAt(0)
    BY TakeShifts
  <1>11. Pending > n => CellAt(n).off = 0
    BY <1>1, <1>10 DEF WholeAt, Starts, CellAt
  <1>12. PacketsWhole'
    <2> HIDE DEF n
    <2>1. Pending' > 0 => CellAfter(0).off = 0
      BY <1>1, <1>6, <1>9, <1>11
    <2>2. Used(ring)' < Pending' => CellAfter(Used(ring)').off = 0
      <3> SUFFICES ASSUME Used(ring) < Pending
                   PROVE  CellAfter(Used(ring) - n).off = 0
        BY <1>1, <1>6, <1>7
      <3>1. Starts(Used(ring))
        BY DEF IInv, PacketsWhole
      <3>2. Used(ring) - n \in Nat /\ n + (Used(ring) - n) = Used(ring) /\ Used(ring) < Size
        BY <1>1
      <3>3. CellAfter(Used(ring) - n) = CellAt(Used(ring))
        BY <1>9, <3>2
      <3> QED
        BY <3>1, <3>3 DEF Starts, CellAt
    <2>3. ASSUME NEW d \in 0 .. Pending' - 1, CellAfter(d).off = 0
          PROVE  LET b == CellAfter(d).cmd
                 IN  /\ b \in Cmd /\ d + Cells(b) <= Pending'
                     /\ \A j \in 0 .. Cells(b) - 1 : CellAfter(d + j) = [cmd |-> b, off |-> j]
                     /\ d + Cells(b) < Pending' => CellAfter(d + Cells(b)).off = 0
      <3> DEFINE b == CellAt(n + d).cmd
      <3>1. d \in Nat /\ n + d < Pending /\ n + d \in 0 .. Pending - 1 /\ n + d < Size
        BY <1>1, <1>6
      <3>2. CellAfter(d) = CellAt(n + d)
        BY <1>9, <3>1
      <3>3. WholeAt(n + d)
        BY <2>3, <3>1, <3>2 DEF IInv, PacketsWhole, Starts, CellAt
      <3>4. /\ b \in Cmd /\ Cells(b) \in Nat /\ (n + d) + Cells(b) <= Pending
            /\ \A j \in 0 .. Cells(b) - 1 : CellAt((n + d) + j) = [cmd |-> b, off |-> j]
            /\ (n + d) + Cells(b) < Pending => CellAt((n + d) + Cells(b)).off = 0
        BY <3>3, CmdAssumption DEF WholeAt, Starts, CellAt
      <3> HIDE DEF b
      <3>5. \A j \in 0 .. Cells(b) - 1 : CellAfter(d + j) = [cmd |-> b, off |-> j]
        <4> TAKE j \in 0 .. Cells(b) - 1
        <4>1. d + j \in Nat /\ n + (d + j) < Size /\ n + (d + j) = (n + d) + j
          BY <1>1, <3>1, <3>4
        <4>2. CellAfter(d + j) = CellAt(n + (d + j))
          BY <1>9, <4>1
        <4> QED
          BY <3>4, <4>1, <4>2
      <3>6. d + Cells(b) < Pending' => CellAfter(d + Cells(b)).off = 0
        <4> SUFFICES ASSUME d + Cells(b) < Pending'
                     PROVE  CellAfter(d + Cells(b)).off = 0
          OBVIOUS
        <4>1. /\ d + Cells(b) \in Nat /\ n + (d + Cells(b)) = (n + d) + Cells(b)
              /\ n + (d + Cells(b)) < Size /\ (n + d) + Cells(b) < Pending
          BY <1>1, <1>6, <3>1, <3>4
        <4>2. CellAfter(d + Cells(b)) = CellAt(n + (d + Cells(b)))
          BY <1>9, <4>1
        <4> QED
          BY <3>4, <4>1, <4>2
      <3>7. d + Cells(b) <= Pending'
        BY <1>1, <1>6, <3>1, <3>4
      <3>8. CellAfter(d).cmd = b
        BY <3>2 DEF b
      <3> QED
        BY <3>4, <3>5, <3>6, <3>7, <3>8
    <2>4. Pending' \in 0 .. Size - 1 /\ Used(ring)' \in 0 .. Size - 1
      BY <1>1, <1>6, <1>7
    <2> QED
      BY <1>5, <2>1, <2>2, <2>3, <2>4, PacketsAfter
  <1> QED
    BY <1>5, <1>8, <1>12

\* Both ways through the loop advance the tail by one packet.
LEMMA LoopTakesPacket ==
    ASSUME IInv, SkipOversize \/ ExecNext
    PROVE  /\ ~NoHeader /\ UNCHANGED <<mem, drv>>
           /\ ring' = [ring EXCEPT !.tail = Advance(ring.tail, Cells(HdrCmd))]
  <1>1. ~NoHeader /\ UNCHANGED <<mem, drv>>
    BY DEF SkipOversize, ExecNext
  <1>2. /\ HdrLen \in Nat /\ HdrCells + HdrLen = Cells(HdrCmd) /\ HdrCells + HdrLen < Size
        /\ ring.tail \in Index
    BY <1>1, FirstPacket, PendingFact, CmdAssumption DEF IInv, TypeOK, Ring
  <1>3. Advance(Advance(ring.tail, HdrCells), HdrLen) = Advance(ring.tail, Cells(HdrCmd))
    BY <1>2, AdvanceTwice
  <1>4. Skip(Advance(ring.tail, HdrCells), HdrLen) = Advance(Advance(ring.tail, HdrCells), HdrLen)
    <2>1. 2 \in Nat /\ 2 <= Size
      OBVIOUS
    <2>2. Advance(ring.tail, HdrCells) \in Index
      BY <1>2, <2>1, AdvanceFact
    <2> QED
      BY <1>2, <2>2, SkipFact
  <1> QED
    BY <1>1, <1>3, <1>4 DEF SkipOversize, ExecNext

-----------------------------------------------------------------------------
(* The theorems *)

LEMMA InitInv == Init => IInv
  <1> SUFFICES ASSUME Init
               PROVE  IInv
    OBVIOUS
  <1>1. Distance(0, 0) = 0
    BY DEF Distance
  <1>2. TypeOK
    <2>1. mem \in [Index -> Cell]
      BY DEF Init, Cell, Blank
    <2>2. drv \in Ring /\ ring \in Ring /\ depth \in 0 .. MaxDepth
      BY DEF Init, Ring
    <2>3. host \in BOOLEAN /\ (depth = 0 => host) /\ irqMask \in BOOLEAN /\ irqStatus \in BOOLEAN
      BY DEF Init
    <2> QED
      BY <2>1, <2>2, <2>3 DEF TypeOK
  <1>3. PositionsInOrder /\ PacketsWhole
    BY <1>1 DEF Init, PositionsInOrder, PacketsWhole, Pending, Used
  <1> QED
    BY <1>2, <1>3 DEF IInv

\* The driver's and the GPU's copies of head and tail are brought up to date.
LEMMA CopyStep ==
    ASSUME IInv, WriteHead \/ ReadTail
    PROVE  IInv'
  <1>1. /\ drv.head \in Index /\ drv.tail \in Index
        /\ ring.head \in Index /\ ring.tail \in Index
    BY DEF IInv, TypeOK, Ring
  <1>2. /\ Pending \in 0 .. Size - 1 /\ Used(ring) \in 0 .. Size - 1 /\ Used(drv) \in 0 .. Size - 1
        /\ Distance(ring.tail, ring.tail) = 0
    BY <1>1, PendingFact, DistanceFact DEF IInv
  <1>3. /\ drv'.head = drv.head /\ ring'.tail = ring.tail /\ mem' = mem
        /\ TypeOK' /\ Pending' = Pending
    BY <1>1 DEF WriteHead, ReadTail, IInv, TypeOK, Ring, Pending
  <1>4. Used(ring)' = Used(ring) \/ Used(ring)' = Pending
    BY <1>1 DEF WriteHead, ReadTail, Used, Pending, IInv, TypeOK, Ring
  <1>5. PositionsInOrder'
    <2>1. CASE WriteHead
      BY <1>2, <1>3, <1>4, <2>1 DEF WriteHead, IInv, PositionsInOrder, Used
    <2>2. CASE ReadTail
      <3>1. drv'.tail = ring.tail /\ ring' = ring
        BY <2>2 DEF ReadTail, IInv, TypeOK, Ring
      <3>2. Distance(drv.tail, ring.tail)' = 0 /\ Used(drv)' = Pending
        BY <1>2, <1>3, <3>1 DEF Used, Pending
      <3>3. Used(ring)' = Used(ring)
        BY <3>1 DEF Used
      <3> QED
        BY <1>2, <1>3, <3>2, <3>3 DEF IInv, PositionsInOrder
    <2> QED
      BY <2>1, <2>2
  <1>6. PacketsWhole'
    <2>1. \A d : Starts(d)' <=> mem[Advance(ring.tail, d)].off = 0
      BY <1>3 DEF Starts
    <2> QED
      BY <1>2, <1>3, <1>4 DEF IInv, PacketsWhole, WholeAt, Starts
  <1> QED
    BY <1>3, <1>5, <1>6 DEF IInv

LEMMA NextInv == IInv /\ [Next]_vars => IInv'
  <1> SUFFICES ASSUME IInv, [Next]_vars
               PROVE  IInv'
    OBVIOUS
  <1>1. ASSUME NEW c \in Cmd, Write(c)
        PROVE  IInv'
    BY <1>1, WriteStep
  <1>2. CASE WriteHead \/ ReadTail
    BY <1>2, CopyStep
  <1>3. CASE SkipOversize \/ ExecNext
    <2>1. ring' \in Ring /\ PositionsInOrder' /\ PacketsWhole'
      BY <1>3, LoopTakesPacket, TakeStep
    <2>2. TypeOK'
      BY <1>3, <2>1 DEF SkipOversize, ExecNext, Present, IInv, TypeOK
    <2> QED
      BY <2>1, <2>2 DEF IInv
  <1>4. CASE \/ UNCHANGED vars \/ Doorbell \/ WriteCtrl \/ WriteIrq \/ CallbackReturns
             \/ ProcessReturns
    <2>1. mem' = mem /\ drv' = drv /\ ring' = ring
      BY <1>4 DEF vars, Doorbell, WriteCtrl, WriteIrq, CallbackReturns, ProcessReturns
    <2>2. TypeOK'
      <3>1. /\ mem \in [Index -> Cell] /\ drv \in Ring /\ ring \in Ring /\ depth \in 0 .. MaxDepth
            /\ host \in BOOLEAN /\ (depth = 0 => host)
            /\ irqMask \in BOOLEAN /\ irqStatus \in BOOLEAN
        BY DEF IInv, TypeOK
      <3>2. depth' \in 0 .. MaxDepth /\ (depth' = 0 => host')
        <4>1. CASE Doorbell
          BY <3>1, <4>1 DEF Doorbell
        <4>2. CASE ProcessReturns
          BY <3>1, <4>2 DEF ProcessReturns
        <4>3. CASE UNCHANGED vars \/ WriteCtrl \/ WriteIrq \/ CallbackReturns
          BY <3>1, <4>3 DEF vars, WriteCtrl, WriteIrq, CallbackReturns
        <4> QED
          BY <1>4, <4>1, <4>2, <4>3
      <3>3. host' \in BOOLEAN /\ irqMask' \in BOOLEAN /\ irqStatus' \in BOOLEAN
        BY <1>4, <3>1 DEF vars, Doorbell, WriteCtrl, WriteIrq, CallbackReturns, ProcessReturns
      <3> QED
        BY <2>1, <3>1, <3>2, <3>3 DEF TypeOK
    <2>3. PositionsInOrder' /\ PacketsWhole'
      BY <2>1 DEF IInv, PositionsInOrder, PacketsWhole, WholeAt, Starts, Pending, Used
    <2> QED
      BY <2>2, <2>3 DEF IInv
  <1> QED
    BY <1>1, <1>2, <1>3, <1>4 DEF Next

\* The invariant holds in every reachable state.
THEOREM Invariance == Spec => []IInv
  BY InitInv, NextInv, PTL DEF Spec

\* Type correctness: no index leaves the ring, whatever the sizes of ring and packets.
THEOREM TypeCorrect == Spec => []TypeOK
  <1>1. IInv => TypeOK
    BY DEF IInv
  <1> QED
    BY <1>1, Invariance, PTL

\* Old copies of head and tail never make the driver see more space, or the GPU more
\* packets, than there are (gpu_ring_free(), gpu_ring_read_header()).
THEOREM PositionsSafe == Spec => []PositionsInOrder
  <1>1. IInv => PositionsInOrder
    BY DEF IInv
  <1> QED
    BY <1>1, Invariance, PTL

\* What lies between the two positions is a row of whole packets (gpu_ring_write()).
THEOREM PacketsSafe == Spec => []PacketsWhole
  <1>1. IInv => PacketsWhole
    BY DEF IInv
  <1> QED
    BY <1>1, Invariance, PTL

\* Every header that gpusim_process() reads is that of a whole and published packet.
THEOREM HeaderSafe == Spec => []HeaderNamesPacket
  <1>1. IInv => HeaderNamesPacket
    BY FirstPacket DEF HeaderNamesPacket
  <1> QED
    BY <1>1, Invariance, PTL

\* gpusim_process() does not return while a published packet is unread.
THEOREM DrainSafe == Spec => DoorbellDrains
  <1>1. IInv /\ [Next]_vars => (depth' < depth => Empty(ring))
    <2> SUFFICES ASSUME IInv, [Next]_vars, depth' < depth
                 PROVE  Empty(ring)
      OBVIOUS
    <2>1. depth \in Nat
      BY DEF IInv, TypeOK
    <2>2. ProcessReturns
      BY <2>1 DEF Next, vars, Write, WriteHead, ReadTail, Doorbell, WriteCtrl, WriteIrq,
                  CallbackReturns, SkipOversize, ExecNext
    <2>3. SUFFICES ASSUME Used(ring) < HdrCells
                   PROVE  ring.head = ring.tail
      BY <2>2 DEF ProcessReturns, NoHeader, Empty
    <2>4. CASE Used(ring) = 0
      <3>1. ring.head \in Index /\ ring.tail \in Index
        BY DEF IInv, TypeOK, Ring
      <3> QED
        BY <2>4, <3>1, DistanceFact DEF Used
    <2>5. CASE Used(ring) = 1
      <3>1. Pending > 0 /\ Pending \in Nat
        BY <2>5, PendingFact DEF IInv, PositionsInOrder
      <3>2. WholeAt(0)
        BY <3>1 DEF IInv, PacketsWhole
      <3>3. CellAt(0).cmd \in Cmd /\ Cells(CellAt(0).cmd) <= Pending /\ CellAt(0).cmd.len \in Nat
        BY <3>2, CmdAssumption DEF WholeAt, CellAt
      <3>4. CellAt(0 + 1).off = 1
        <4>1. 1 \in 0 .. Cells(CellAt(0).cmd) - 1
          BY <3>3
        <4>2. \A j \in 0 .. Cells(CellAt(0).cmd) - 1 :
                 CellAt(0 + j) = [cmd |-> CellAt(0).cmd, off |-> j]
          BY <3>2 DEF WholeAt, CellAt
        <4>3. CellAt(0 + 1) = [cmd |-> CellAt(0).cmd, off |-> 1]
          BY <4>1, <4>2
        <4> QED
          BY <4>3
      <3>5. Starts(0 + 1)
        BY <2>5, <3>1, <3>3 DEF IInv, PacketsWhole
      <3> QED
        BY <3>4, <3>5 DEF Starts, CellAt
    <2> QED
      BY <2>3, <2>4, <2>5, PendingFact DEF IInv
  <1> QED
    BY <1>1, Invariance, PTL DEF Spec, DoorbellDrains

-----------------------------------------------------------------------------
(* The ring implements the queue.  Its packets are counted by the          *)
(* positions at which they start: the k-th has k - 1 others below it.      *)

Below(S, d) == {e \in S : e < d}

\* Every number from 1 to the size of S counts exactly one of its elements.
LEMMA NthFact ==
    ASSUME NEW S \in SUBSET Nat, IsFiniteSet(S)
    PROVE  /\ Cardinality(S) \in Nat
           /\ \A k \in 1 .. Cardinality(S) : /\ Nth(S, k) \in S
                                             /\ Cardinality(Below(S, Nth(S, k))) = k - 1
           /\ \A d \in S, k \in 1 .. Cardinality(S) :
                 Cardinality(Below(S, d)) = k - 1 => Nth(S, k) = d
  <1> DEFINE n == Cardinality(S)
  <1>1. n \in Nat
    BY FS_CardinalityType
  <1>2. ASSUME NEW d \in S
        PROVE  /\ IsFiniteSet(Below(S, d))
               /\ Cardinality(Below(S, d)) \in Nat /\ Cardinality(Below(S, d)) < n
    <2>1. Below(S, d) \in SUBSET S /\ d \notin Below(S, d) /\ Below(S, d) \cup {d} \in SUBSET S
      BY <1>2 DEF Below
    <2>2. IsFiniteSet(Below(S, d)) /\ Cardinality(Below(S, d)) \in Nat
      BY <2>1, FS_Subset, FS_CardinalityType
    <2>3. Cardinality(Below(S, d) \cup {d}) = Cardinality(Below(S, d)) + 1
      BY <2>1, <2>2, FS_AddElement
    <2>4. Cardinality(Below(S, d) \cup {d}) <= n
      BY <2>1, FS_Subset
    <2> QED
      BY <1>1, <2>2, <2>3, <2>4
  <1>3. ASSUME NEW d \in S, NEW e \in S, d < e
        PROVE  Cardinality(Below(S, d)) < Cardinality(Below(S, e))
    <2>1. d \notin Below(S, d) /\ Below(S, d) \cup {d} \in SUBSET Below(S, e)
      <3>1. d \in Nat /\ e \in Nat /\ \A c \in S : c \in Nat
        OBVIOUS
      <3>2. \A c \in S : c < d => c < e
        BY <1>3, <3>1
      <3>3. d \notin Below(S, d)
        <4>1. ~(d < d)
          BY <3>1
        <4> QED
          BY <4>1, Zenon DEF Below
      <3>4. \A c \in Below(S, d) \cup {d} : c \in Below(S, e)
        BY <1>3, <3>2, Zenon DEF Below
      <3> QED
        BY <3>3, <3>4
    <2>2. Cardinality(Below(S, d) \cup {d}) = Cardinality(Below(S, d)) + 1
      BY <1>2, <2>1, FS_AddElement
    <2>3. Cardinality(Below(S, d) \cup {d}) <= Cardinality(Below(S, e))
      BY <1>2, <2>1, FS_Subset
    <2> QED
      BY <1>2, <2>2, <2>3
  <1>4. ASSUME NEW d \in S, NEW e \in S, Cardinality(Below(S, d)) = Cardinality(Below(S, e))
        PROVE  d = e
    <2>1. ~(d < e) /\ ~(e < d)
      <3>1. \A c \in S : Cardinality(Below(S, c)) \in Nat
        BY <1>2
      <3> QED
        BY <1>3, <1>4, <3>1
    <2>2. d \in Nat /\ e \in Nat
      OBVIOUS
    <2> QED
      BY <2>1, <2>2
  <1>5. ASSUME NEW k \in 1 .. n
        PROVE  \E d \in S : Cardinality(Below(S, d)) = k - 1
    <2> DEFINE f == [d \in S |-> Cardinality(Below(S, d))]
               T == 0 .. n - 1
    <2>1. f \in [S -> T]
      <3>1. \A d \in S : Cardinality(Below(S, d)) \in T
        BY <1>1, <1>2
      <3> QED
        BY <3>1
    <2>2. \A d \in S, e \in S : f[d] = f[e] => d = e
      BY <1>4
    <2>3. f \in Injection(S, T)
      <3> HIDE DEF f
      <3> QED
        BY <2>1, <2>2 DEF Injection, IsInjective
    <2>4. IsFiniteSet(T) /\ Cardinality(T) = n
      <3> HIDE DEF n
      <3>1. 0 \in Int /\ n - 1 \in Int
        BY <1>1
      <3>2. IsFiniteSet(T) /\ Cardinality(T) = IF 0 > n - 1 THEN 0 ELSE (n - 1) - 0 + 1
        BY <3>1, FS_Interval
      <3> QED
        BY <1>1, <3>2
    <2>5. f \in Surjection(S, T)
      <3> HIDE DEF f, T
      <3> QED
        BY <2>3, <2>4, FS_Injection
    <2>6. k - 1 \in T
      BY <1>1, <1>5
    <2>7. PICK d \in S : f[d] = k - 1
      <3> HIDE DEF f, T
      <3> QED
        BY <2>5, <2>6 DEF Surjection
    <2> QED
      BY <2>7
  <1>6. ASSUME NEW k \in 1 .. n
        PROVE  Nth(S, k) \in S /\ Cardinality(Below(S, Nth(S, k))) = k - 1
    BY <1>5, <1>6 DEF Nth, Below
  <1> QED
    BY <1>1, <1>4, <1>6

\* An element above all others is counted last, and the count of the others stays.
LEMMA NthAppend ==
    ASSUME NEW S \in SUBSET Nat, IsFiniteSet(S), NEW p \in Nat, \A d \in S : d < p
    PROVE  /\ Cardinality(S \cup {p}) = Cardinality(S) + 1
           /\ \A k \in 1 .. Cardinality(S) : Nth(S \cup {p}, k) = Nth(S, k)
           /\ Nth(S \cup {p}, Cardinality(S) + 1) = p
  <1> DEFINE T == S \cup {p}
             n == Cardinality(S)
  <1>1. p \notin S /\ T \in SUBSET Nat
    OBVIOUS
  <1>2. IsFiniteSet(T) /\ Cardinality(T) = n + 1 /\ n \in Nat
    BY <1>1, FS_AddElement, FS_CardinalityType
  <1>5. \A d \in T, k \in 1 .. n + 1 : Cardinality(Below(T, d)) = k - 1 => Nth(T, k) = d
    <2> HIDE DEF T
    <2> QED
      BY <1>1, <1>2, NthFact
  <1>3. ASSUME NEW k \in 1 .. n
        PROVE  Nth(T, k) = Nth(S, k)
    <2>1. Nth(S, k) \in S /\ Cardinality(Below(S, Nth(S, k))) = k - 1
      BY <1>3, NthFact
    <2>2. Below(T, Nth(S, k)) = Below(S, Nth(S, k))
      <3>1. ~(p < Nth(S, k))
        <4>1. Nth(S, k) \in Nat /\ Nth(S, k) < p
          BY <2>1
        <4> QED
          BY <4>1
      <3> QED
        BY <3>1 DEF Below
    <2>3. k \in 1 .. n + 1 /\ Nth(S, k) \in T
      BY <1>2, <1>3, <2>1
    <2> HIDE DEF T
    <2> QED
      BY <1>5, <2>1, <2>2, <2>3
  <1>4. Nth(T, n + 1) = p
    <2>1. Below(T, p) = S
      <3>1. ~(p < p)
        OBVIOUS
      <3> QED
        BY <3>1, Zenon DEF Below
    <2>2. n + 1 \in 1 .. n + 1 /\ p \in T /\ n = (n + 1) - 1
      BY <1>2
    <2> HIDE DEF T
    <2> QED
      BY <1>5, <2>1, <2>2
  <1> QED
    BY <1>2, <1>3, <1>4

\* A set moved down by m has as many elements.
LEMMA ShiftCount ==
    ASSUME NEW S \in SUBSET Nat, IsFiniteSet(S), NEW m \in Nat, \A d \in S : m <= d,
           NEW T \in SUBSET Nat, \A d \in Nat : d \in T <=> m + d \in S
    PROVE  IsFiniteSet(T) /\ Cardinality(T) = Cardinality(S)
  <1> DEFINE f == [d \in S |-> d - m]
  <1>1. \A d \in S : d \in Nat /\ m <= d /\ d - m \in Nat /\ m + (d - m) = d
    OBVIOUS
  <1>2. \A d \in T : d \in Nat /\ m + d \in S /\ (m + d) - m = d
    OBVIOUS
  <1>3. f \in [S -> T]
    <2>1. \A d \in S : d - m \in T
      BY <1>1
    <2> QED
      BY <2>1
  <1>4. \A d \in S, e \in S : f[d] = f[e] => d = e
    <2> TAKE d \in S, e \in S
    <2>1. f[d] = d - m /\ f[e] = e - m
      OBVIOUS
    <2> HIDE DEF f
    <2> QED
      BY <1>1, <2>1
  <1>5. \A e \in T : \E d \in S : f[d] = e
    BY <1>2
  <1>6. f \in Bijection(S, T)
    <2> HIDE DEF f
    <2> QED
      BY <1>3, <1>4, <1>5 DEF Bijection, Injection, IsInjective, Surjection
  <1>7. ExistsBijection(S, T)
    BY <1>6 DEF ExistsBijection
  <1> QED
    BY <1>7, FS_Bijection

\* Without its first element, and moved down, a set is counted one lower.
LEMMA NthTail ==
    ASSUME NEW S \in SUBSET Nat, IsFiniteSet(S), 0 \in S,
           NEW m \in Nat, m > 0, \A d \in S : d = 0 \/ m <= d,
           NEW T \in SUBSET Nat, \A d \in Nat : d \in T <=> m + d \in S
    PROVE  /\ IsFiniteSet(T) /\ Cardinality(S) = Cardinality(T) + 1
           /\ Nth(S, 1) = 0
           /\ \A k \in 1 .. Cardinality(T) : Nth(S, k + 1) = m + Nth(T, k)
  <1> DEFINE R == S \ {0}
  <1>1. /\ R \in SUBSET Nat /\ IsFiniteSet(R) /\ Cardinality(R) = Cardinality(S) - 1
        /\ Cardinality(S) \in Nat
    BY FS_RemoveElement, FS_CardinalityType
  <1>2. (\A d \in R : m <= d) /\ (\A d \in Nat : d \in T <=> m + d \in R)
    <2>1. \A d \in Nat : m + d \in Nat /\ m + d # 0
      OBVIOUS
    <2> QED
      BY <2>1
  <1>3. IsFiniteSet(T) /\ Cardinality(T) = Cardinality(R)
    <2> HIDE DEF R
    <2> QED
      BY <1>1, <1>2, ShiftCount
  <1>4. Cardinality(T) \in Nat /\ Cardinality(S) = Cardinality(T) + 1
    <2>1. Cardinality(T) = Cardinality(S) - 1 /\ Cardinality(T) \in Nat
      BY <1>1, <1>3, FS_CardinalityType, Zenon
    <2> QED
      BY <1>1, <2>1
  <1>5. \A d \in S, k \in 1 .. Cardinality(S) :
           Cardinality(Below(S, d)) = k - 1 => Nth(S, k) = d
    BY NthFact
  <1>6. Nth(S, 1) = 0
    <2>1. Below(S, 0) = {}
      <3>1. \A d \in S : ~(d < 0)
        <4>1. \A d \in Nat : ~(d < 0)
          OBVIOUS
        <4> QED
          BY <4>1
      <3> QED
        BY <3>1, Zenon DEF Below
    <2>2. Cardinality(Below(S, 0)) = 1 - 1
      BY <2>1, FS_EmptySet
    <2>3. 1 \in 1 .. Cardinality(S)
      BY <1>4
    <2> QED
      BY <1>5, <2>2, <2>3
  <1>7. ASSUME NEW k \in 1 .. Cardinality(T)
        PROVE  Nth(S, k + 1) = m + Nth(T, k)
    <2> DEFINE d == Nth(T, k)
               B == Below(S, m + d)
    <2>1. d \in T /\ Cardinality(Below(T, d)) = k - 1
      BY <1>3, <1>7, NthFact
    <2> HIDE DEF d
    <2>2. d \in Nat /\ m + d \in S /\ 0 < m + d
      BY <2>1
    <2>3. B \ {0} \in SUBSET Nat /\ \A e \in B \ {0} : m <= e
      <3>1. \A e \in B : e \in S
        BY DEF Below
      <3> HIDE DEF B
      <3> QED
        BY <3>1
    <2>4. Below(T, d) \in SUBSET Nat /\ \A e \in Nat : e \in Below(T, d) <=> m + e \in B \ {0}
      <3>1. \A e \in Nat : m + e # 0 /\ (m + e < m + d <=> e < d)
        BY <2>2
      <3> QED
        BY <3>1 DEF Below
    <2>5. 0 \in B /\ IsFiniteSet(B)
      <3>1. B \in SUBSET S
        BY DEF Below
      <3>2. IsFiniteSet(B)
        BY <3>1, FS_Subset
      <3> QED
        BY <2>2, <3>2 DEF Below
    <2>6. IsFiniteSet(B \ {0}) /\ Cardinality(B \ {0}) = Cardinality(B) - 1 /\ Cardinality(B) \in Nat
      BY <2>5, FS_RemoveElement, FS_CardinalityType
    <2>7. Cardinality(Below(T, d)) = Cardinality(B \ {0})
      <3> HIDE DEF B
      <3> QED
        BY <2>3, <2>4, <2>6, ShiftCount
    <2>8. Cardinality(B) = (k + 1) - 1 /\ k + 1 \in 1 .. Cardinality(S)
      <3> HIDE DEF B
      <3> QED
        BY <1>4, <1>7, <2>1, <2>6, <2>7
    <2> QED
      BY <1>5, <2>2, <2>8 DEF d
  <1> QED
    BY <1>3, <1>4, <1>6, <1>7

\* The queue lists the packets between the two positions.
LEMMA QueueFact ==
    ASSUME IInv
    PROVE  /\ Firsts \in SUBSET Nat /\ IsFiniteSet(Firsts) /\ Cardinality(Firsts) \in Nat
           /\ \A d \in Firsts : d < Pending /\ CellAt(d).cmd \in Cmd
           /\ Queue \in Seq(Cmd) /\ Len(Queue) = Cardinality(Firsts)
           /\ \A k \in 1 .. Cardinality(Firsts) : Queue[k] = CellAt(Nth(Firsts, k)).cmd
  <1> DEFINE n == Cardinality(Firsts)
  <1>1. Pending \in 0 .. Size - 1
    BY PendingFact DEF IInv
  <1>2. Firsts \in SUBSET (0 .. Pending - 1) /\ Firsts \in SUBSET Nat
    BY <1>1 DEF Firsts
  <1>3. IsFiniteSet(Firsts) /\ n \in Nat
    <2>1. IsFiniteSet(0 .. Pending - 1)
      BY <1>1, FS_Interval
    <2> QED
      BY <1>2, <2>1, FS_Subset, FS_CardinalityType
  <1>4. \A d \in Firsts : d < Pending /\ CellAt(d).cmd \in Cmd
    <2>1. \A d \in Firsts : d \in 0 .. Pending - 1 /\ WholeAt(d)
      BY DEF Firsts, IInv, PacketsWhole
    <2>2. \A d \in Firsts : CellAt(d).cmd \in Cmd
      BY <2>1 DEF WholeAt, CellAt
    <2> QED
      BY <1>1, <2>1, <2>2
  <1>5. \A k \in 1 .. n : Nth(Firsts, k) \in Firsts
    BY <1>2, <1>3, NthFact
  <1>6. Queue = [k \in 1 .. n |-> CellAt(Nth(Firsts, k)).cmd]
    BY DEF Queue, CellAt
  <1>7. Queue \in [1 .. n -> Cmd]
    BY <1>4, <1>5, <1>6
  <1>8. Queue \in Seq(Cmd) /\ Len(Queue) = n
    <2>1. Queue \in Seq(Cmd)
      <3> HIDE DEF n
      <3> QED
        BY <1>3, <1>7, SeqDef
    <2>2. DOMAIN Queue = 1 .. Len(Queue) /\ Len(Queue) \in Nat /\ DOMAIN Queue = 1 .. n
      BY <1>6, <2>1, LenProperties
    <2>3. \A i, j \in Nat : 1 .. i = 1 .. j => i = j
      <3> SUFFICES ASSUME NEW i \in Nat, NEW j \in Nat, i < j
                   PROVE  1 .. i # 1 .. j
        OBVIOUS
      <3>1. j \in 1 .. j /\ j \notin 1 .. i
        OBVIOUS
      <3> QED
        BY <3>1
    <2> HIDE DEF n
    <2> QED
      BY <1>3, <2>1, <2>2, <2>3
  <1> QED
    BY <1>2, <1>3, <1>4, <1>6, <1>8

\* gpu_ring_write() submits its command.
LEMMA WriteSubmits ==
    ASSUME IInv, NEW c \in Cmd, Write(c)
    PROVE  Queue' = Append(Queue, c)
  <1> DEFINE n == Cardinality(Firsts)
             q == Append(Queue, c)
  <1>1. /\ Pending \in Nat /\ Cells(c) \in Nat /\ Cells(c) > 0 /\ Pending' = Pending + Cells(c)
        /\ \A d \in 0 .. Pending - 1 : CellAfter(d) = CellAt(d)
        /\ \A j \in 0 .. Cells(c) - 1 : CellAfter(Pending + j) = [cmd |-> c, off |-> j]
    <2>1. Pending \in 0 .. Size - 1 /\ c.len \in Nat
      BY PendingFact, WriteAppends DEF IInv
    <2> QED
      BY <2>1, WriteAppends
  <1>2. /\ Firsts \in SUBSET Nat /\ IsFiniteSet(Firsts) /\ n \in Nat
        /\ \A d \in Firsts : d < Pending
        /\ Queue \in Seq(Cmd) /\ Len(Queue) = n
        /\ \A k \in 1 .. n : Queue[k] = CellAt(Nth(Firsts, k)).cmd
    BY QueueFact
  <1>3. CellAfter(Pending) = [cmd |-> c, off |-> 0]
    <2>1. 0 \in 0 .. Cells(c) - 1 /\ Pending + 0 = Pending
      BY <1>1
    <2>2. CellAfter(Pending + 0) = [cmd |-> c, off |-> 0]
      BY <1>1, <2>1
    <2> QED
      BY <2>1, <2>2
  <1>4. Firsts' = Firsts \cup {Pending}
    <2>1. Firsts' = {d \in 0 .. Pending' - 1 : CellAfter(d).off = 0}
      BY DEF Firsts, Starts, CellAfter
    <2>2. Firsts = {d \in 0 .. Pending - 1 : CellAt(d).off = 0}
      BY DEF Firsts, Starts, CellAt
    <2>3. ASSUME NEW d \in 0 .. Pending' - 1, CellAfter(d).off = 0, d # Pending
          PROVE  d \in Firsts
      <3>1. CASE d < Pending
        BY <1>1, <2>2, <2>3, <3>1
      <3>2. CASE d > Pending
        <4>1. d - Pending \in 0 .. Cells(c) - 1 /\ d = Pending + (d - Pending) /\ d - Pending # 0
          BY <1>1, <3>2
        <4>2. CellAfter(d) = [cmd |-> c, off |-> d - Pending]
          BY <1>1, <4>1
        <4> QED
          BY <2>3, <4>1, <4>2
      <3> QED
        BY <1>1, <2>3, <3>1, <3>2
    <2>4. ASSUME NEW d \in Firsts \cup {Pending}
          PROVE  d \in 0 .. Pending' - 1 /\ CellAfter(d).off = 0
      <3>1. CASE d = Pending
        BY <1>1, <1>3, <3>1
      <3>2. CASE d \in Firsts
        BY <1>1, <2>2, <3>2
      <3> QED
        BY <2>4, <3>1, <3>2
    <2> QED
      BY <2>1, <2>3, <2>4
  <1>5. /\ Cardinality(Firsts') = n + 1
        /\ \A k \in 1 .. n : Nth(Firsts', k) = Nth(Firsts, k)
        /\ Nth(Firsts', n + 1) = Pending
    BY <1>1, <1>2, <1>4, NthAppend
  <1>6. Queue' = [k \in 1 .. n + 1 |-> CellAfter(Nth(Firsts', k)).cmd]
    BY <1>5 DEF Queue, CellAfter
  <1>7. q \in [1 .. n + 1 -> Cmd] /\ (\A k \in 1 .. n : q[k] = Queue[k]) /\ q[n + 1] = c
    <2>1. /\ q \in Seq(Cmd) /\ Len(q) = n + 1
          /\ \A k \in 1 .. n : q[k] = Queue[k]
          /\ q[n + 1] = c
      BY <1>2, AppendProperties
    <2> HIDE DEF q
    <2> QED
      BY <2>1, LenProperties
  <1>8. ASSUME NEW k \in 1 .. n + 1
        PROVE  CellAfter(Nth(Firsts', k)).cmd = q[k]
    <2>1. CASE k = n + 1
      BY <1>3, <1>5, <1>7, <2>1
    <2>2. CASE k \in 1 .. n
      <3>1. Nth(Firsts, k) \in Firsts
        BY <1>2, <2>2, NthFact
      <3>2. Nth(Firsts, k) \in 0 .. Pending - 1
        <4>1. Nth(Firsts, k) \in Nat /\ Nth(Firsts, k) < Pending
          BY <1>2, <3>1
        <4> QED
          BY <1>1, <4>1
      <3> QED
        BY <1>1, <1>2, <1>5, <1>7, <2>2, <3>2
    <2> QED
      BY <1>2, <2>1, <2>2
  <1> HIDE DEF n, q
  <1>9. Queue' = q
    BY <1>6, <1>7, <1>8
  <1> QED
    BY <1>9 DEF q

\* Both ways through the loop take the first command.
LEMMA TakeTakes ==
    ASSUME IInv, ~NoHeader, UNCHANGED <<mem, drv>>,
           ring' = [ring EXCEPT !.tail = Advance(ring.tail, Cells(HdrCmd))]
    PROVE  Queue # << >> /\ Head(Queue) = HdrCmd /\ Queue' = Tail(Queue)
  <1> DEFINE n == Cells(HdrCmd)
             len == Cardinality(Firsts')
             q == Tail(Queue)
  <1>1. /\ HdrCmd = CellAt(0).cmd /\ WholeAt(0) /\ n \in Nat /\ n > 0 /\ n <= Pending
        /\ Pending \in 0 .. Size - 1 /\ Pending' = Pending - n
        /\ \A d \in Nat : n + d < Size => CellAfter(d) = CellAt(n + d)
    BY TakeShifts
  <1> HIDE DEF n
  <1>2. /\ Firsts \in SUBSET Nat /\ IsFiniteSet(Firsts) /\ \A d \in Firsts : d < Pending
        /\ Queue \in Seq(Cmd) /\ Len(Queue) = Cardinality(Firsts)
        /\ \A k \in 1 .. Cardinality(Firsts) : Queue[k] = CellAt(Nth(Firsts, k)).cmd
    BY QueueFact
  <1>3. /\ Firsts = {d \in 0 .. Pending - 1 : CellAt(d).off = 0}
        /\ Firsts' = {d \in 0 .. Pending' - 1 : CellAfter(d).off = 0}
    BY DEF Firsts, Starts, CellAt, CellAfter
  <1>4. \A j \in 0 .. n - 1 : CellAt(j).off = j
    <2>1. \A j \in 0 .. n - 1 : CellAt(0 + j) = [cmd |-> HdrCmd, off |-> j]
      BY <1>1 DEF WholeAt, CellAt, n
    <2> TAKE j \in 0 .. n - 1
    <2>2. 0 + j = j
      BY <1>1
    <2>3. CellAt(j) = [cmd |-> HdrCmd, off |-> j]
      BY <2>1, <2>2
    <2> QED
      BY <2>3
  <1>5. 0 \in Firsts
    BY <1>1, <1>3, <1>4
  <1>6. \A d \in Firsts : d = 0 \/ n <= d
    <2> SUFFICES ASSUME NEW d \in Firsts, d < n
                 PROVE  d = 0
      BY <1>1, <1>2
    <2>1. d \in 0 .. n - 1 /\ CellAt(d).off = 0
      BY <1>1, <1>3
    <2> QED
      BY <1>4, <2>1
  <1>7. Firsts' \in SUBSET Nat /\ \A d \in Nat : d \in Firsts' <=> n + d \in Firsts
    <2>1. Firsts' \in SUBSET Nat
      BY <1>1, <1>3
    <2>2. ASSUME NEW d \in Nat
          PROVE  d \in Firsts' <=> n + d \in Firsts
      <3>1. d \in 0 .. Pending' - 1 <=> n + d \in 0 .. Pending - 1
        BY <1>1
      <3>2. d \in 0 .. Pending' - 1 => n + d < Size
        BY <1>1
      <3>3. d \in 0 .. Pending' - 1 => CellAfter(d) = CellAt(n + d)
        BY <1>1, <3>2
      <3> QED
        BY <1>3, <3>1, <3>3
    <2> QED
      BY <2>1, <2>2
  <1>8. /\ IsFiniteSet(Firsts') /\ Cardinality(Firsts) = len + 1 /\ Nth(Firsts, 1) = 0
        /\ \A k \in 1 .. len : Nth(Firsts, k + 1) = n + Nth(Firsts', k)
    BY <1>1, <1>2, <1>5, <1>6, <1>7, NthTail
  <1>9. len \in Nat /\ \A k \in 1 .. len : Nth(Firsts', k) \in Firsts'
    BY <1>7, <1>8, NthFact
  <1>10. Queue # << >> /\ Head(Queue) = HdrCmd
    <2>1. Len(Queue) = len + 1 /\ 1 \in 1 .. Cardinality(Firsts)
      BY <1>2, <1>8, <1>9
    <2>2. Queue[1] = HdrCmd
      BY <1>1, <1>2, <1>8, <2>1
    <2>3. Queue # << >>
      BY <1>9, <2>1, EmptySeq
    <2> QED
      BY <1>2, <2>2, <2>3
  <1>11. q \in [1 .. len -> Cmd] /\ \A k \in 1 .. len : q[k] = Queue[k + 1]
    <2>1. /\ q \in Seq(Cmd) /\ Len(q) = Len(Queue) - 1
          /\ \A k \in 1 .. Len(q) : q[k] = Queue[k + 1]
      BY <1>2, <1>10, HeadTailProperties
    <2> HIDE DEF q, len
    <2>2. Len(q) = len
      BY <1>2, <1>8, <1>9, <2>1
    <2> QED
      BY <2>1, <2>2, LenProperties
  <1>12. ASSUME NEW k \in 1 .. len
         PROVE  CellAfter(Nth(Firsts', k)).cmd = q[k]
    <2> DEFINE d == Nth(Firsts', k)
    <2>1. d \in Firsts' /\ d \in Nat /\ n + d \in Firsts
      BY <1>7, <1>9, <1>12
    <2>2. Nth(Firsts, k + 1) = n + d
      BY <1>8, <1>12
    <2> HIDE DEF d
    <2>3. CellAfter(d) = CellAt(n + d)
      <3>1. n + d < Pending /\ n + d \in Nat
        BY <1>1, <1>2, <2>1
      <3>2. n + d < Size
        BY <1>1, <3>1
      <3> QED
        BY <1>1, <2>1, <3>2
    <2>4. k + 1 \in 1 .. Cardinality(Firsts)
      <3> HIDE DEF len
      <3> QED
        BY <1>8, <1>9, <1>12
    <2> QED
      BY <1>2, <1>11, <1>12, <2>2, <2>3, <2>4 DEF d
  <1>13. Queue' = [k \in 1 .. len |-> CellAfter(Nth(Firsts', k)).cmd]
    BY DEF Queue, CellAfter
  <1> HIDE DEF len, q
  <1>14. Queue' = q
    BY <1>11, <1>12, <1>13
  <1> QED
    BY <1>10, <1>14 DEF q

\* What a command does to the registers does not depend on the queue.
LEMMA SameExec ==
    \A r, c : A!ExecCmd(r, c) = Q!ExecCmd(r, c) /\ A!CtrlReset(r) = Q!CtrlReset(r)
  BY DEF A!ExecCmd, Q!ExecCmd, A!CtrlReset, Q!CtrlReset, A!Target, Q!Target, A!Ranged, Q!Ranged,
         A!Draws, Q!Draws, A!Reg, Q!Reg

\* Each step of driver and GPU is one of the queue, or none.
LEMMA StepOfQueue ==
    ASSUME IInv, [Next]_vars
    PROVE  A!QNext \/ UNCHANGED <<Queue, regs>>
  <1>1. ASSUME NEW c \in Cmd, Write(c)
        PROVE  A!QSubmit
    <2>1. regs' = regs
      BY <1>1 DEF Write
    <2> QED
      BY <1>1, <2>1, WriteSubmits DEF A!QSubmit
  <1>2. CASE SkipOversize \/ ExecNext
    <2>1. Queue # << >> /\ Head(Queue) = HdrCmd /\ Queue' = Tail(Queue) /\ ~NoHeader
      BY <1>2, LoopTakesPacket, TakeTakes
    <2>2. Received = HdrCmd /\ HdrLen = HdrCmd.len
      BY <2>1, FirstPacket
    <2>3. HdrLen \in Nat
      BY <2>1, <2>2, FirstPacket, CmdAssumption
    <2>4. CASE SkipOversize
      <3>1. A!Oversize(Head(Queue)) /\ regs' = regs
        BY <2>1, <2>2, <2>4 DEF SkipOversize, A!Oversize
      <3> QED
        BY <2>1, <3>1 DEF A!QTake, A!QNext
    <2>5. CASE ExecNext
      <3>1. HdrLen <= BufCells /\ regs' = Q!ExecCmd(regs, Received)
        BY <2>5 DEF ExecNext
      <3>2. ~A!Oversize(Head(Queue))
        BY <2>1, <2>2, <2>3, <3>1, BufAssumption DEF A!Oversize
      <3>3. regs' = A!ExecCmd(regs, Head(Queue))
        BY <2>1, <2>2, <3>1, SameExec
      <3> QED
        BY <2>1, <3>2, <3>3 DEF A!QTake, A!QNext
    <2> QED
      BY <1>2, <2>4, <2>5
  <1>3. CASE \/ UNCHANGED vars \/ WriteHead \/ ReadTail \/ Doorbell \/ WriteCtrl \/ WriteIrq
             \/ CallbackReturns \/ ProcessReturns
    <2>1. mem' = mem /\ drv'.head = drv.head /\ ring'.tail = ring.tail
      BY <1>3 DEF vars, WriteHead, ReadTail, Doorbell, WriteCtrl, WriteIrq, CallbackReturns,
                  ProcessReturns, IInv, TypeOK, Ring
    <2>2. Queue' = Queue
      BY <2>1 DEF Queue, Firsts, Starts, Pending
    <2>3. CASE WriteCtrl
      <3>1. regs' = A!CtrlReset(regs)
        BY <2>3, SameExec DEF WriteCtrl
      <3> QED
        BY <2>2, <3>1 DEF A!QReset, A!QNext
    <2>4. CASE ~WriteCtrl
      BY <1>3, <2>2, <2>4 DEF vars, WriteHead, ReadTail, Doorbell, WriteIrq, CallbackReturns,
                              ProcessReturns
    <2> QED
      BY <2>3, <2>4
  <1> QED
    BY <1>1, <1>2, <1>3 DEF Next, A!QNext

\* The ring implements the queue of GpuQueue: commands take effect once each and in the
\* order in which gpu_ring_write() took them, whatever the sizes and the interleaving.
THEOREM ImplementsQueue == Spec => QueueSpec
  <1>1. Init => A!QInit
    <2> SUFFICES ASSUME Init
                 PROVE  A!QInit
      OBVIOUS
    <2>1. Pending = 0
      BY DEF Init, Pending, Distance
    <2>2. Firsts = {}
      BY <2>1 DEF Firsts
    <2>3. Queue = << >>
      <3>1. Cardinality(Firsts) = 0
        BY <2>2, FS_EmptySet
      <3>2. Len(Queue) = 0 /\ Queue \in Seq(Cmd)
        BY <3>1, InitInv, QueueFact
      <3> QED
        BY <3>2, EmptySeq
    <2>4. regs = A!NewRegs
      BY DEF Init, Q!NewRegs, A!NewRegs, Q!Reg, A!Reg, Q!Target, A!Target
    <2> QED
      BY <2>3, <2>4 DEF A!QInit
  <1>2. IInv /\ [Next]_vars => [A!QNext]_<<Queue, regs>>
    BY StepOfQueue
  <1> QED
    BY <1>1, <1>2, InitInv, NextInv, PTL DEF Spec, QueueSpec, A!QSpec
=============================================================================
