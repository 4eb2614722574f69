---------------------------- MODULE UartProofs -----------------------------
(***************************************************************************)
(* For every number of bits, every pair of divisors and every line: a      *)
(* program that saw rx_valid reads a byte it has not read before, also     *)
(* when a byte arrives in the clock of the read; and a program that comes  *)
(* back in time reads every byte.                                          *)
(*                                                                         *)
(* For the second the clocks are counted: NextByte is the fewest until the *)
(* next byte can be stored, NextRead the most until the program reads.     *)
(***************************************************************************)
EXTENDS Uart, TLAPS

\* What the program saw is still so: only its own read takes the flag back, and
\* while the flag is up there is an unread byte.
IInv == /\ unread \in 0 .. 2
        /\ "valid" \in DOMAIN rx
        /\ buf.valid \in BOOLEAN /\ b.saw \in BOOLEAN /\ rx.valid \in BOOLEAN
        /\ buf.valid => unread > 0
        /\ b.saw => buf.valid

-----------------------------------------------------------------------------
\* uart_rx drives rx_valid in every clock.
LEMMA RxValid ==
    ASSUME "valid" \in DOMAIN rx, uart_rx
    PROVE  rx'.valid \in BOOLEAN /\ "valid" \in DOMAIN rx'
  <1>1. Quiet.valid = FALSE /\ "valid" \in DOMAIN Quiet
    BY DEF Quiet
  <1>2. CASE RxIdle
    BY <1>1, <1>2 DEF RxIdle
  <1>3. CASE RxCount
    BY <1>1, <1>3 DEF RxCount
  <1>4. CASE RxStart
    BY <1>1, <1>4 DEF RxStart
  <1>5. CASE RxBit
    BY <1>1, <1>5 DEF RxBit
  <1>6. CASE RxStop
    BY <1>1, <1>6 DEF RxStop
  <1> QED
    BY <1>2, <1>3, <1>4, <1>5, <1>6 DEF uart_rx

LEMMA InitInv == Init => IInv
  BY DEF Init, IInv

LEMMA ClockInv ==
    ASSUME IInv, Clock
    PROVE  IInv'
  <1>1. PICK op \in SendOps, v \in Byte, rop \in ReadOps :
          uart_rx /\ Buffer(rop) /\ ReadCore(rop) /\ Track(op, v, rop)
    BY DEF Clock
  <1>2. rx'.valid \in BOOLEAN /\ "valid" \in DOMAIN rx'
    BY <1>1, RxValid DEF IInv
  <1>3. buf'.valid = ((rx.valid \/ buf.valid) /\ rop # "read")
    BY <1>1 DEF Buffer
  <1>4. unread' = LET kept == IF rop = "read" THEN 0 ELSE unread
                  IN  IF rx.valid /\ kept < 2 THEN kept + 1 ELSE kept
    BY <1>1 DEF Track
  <1>5. b'.saw = CASE rop = "status" -> buf.valid
                   [] rop = "read"   -> FALSE
                   [] OTHER          -> b.saw
    BY <1>1 DEF ReadCore
  <1>6. unread' \in 0 .. 2 /\ (buf'.valid => unread' > 0)
    BY <1>3, <1>4 DEF IInv
  <1>7. CASE rop = "status"
    BY <1>2, <1>3, <1>5, <1>6, <1>7 DEF IInv
  <1>8. CASE rop = "read"
    BY <1>2, <1>3, <1>5, <1>6, <1>8 DEF IInv
  <1>9. CASE rop \notin {"status", "read"}
    BY <1>2, <1>3, <1>5, <1>6, <1>9 DEF IInv
  <1> QED
    BY <1>7, <1>8, <1>9

LEMMA NextInv == IInv /\ [Next]_vars => IInv'
  <1>1. ASSUME IInv, UNCHANGED vars PROVE IInv'
    BY <1>1 DEF IInv, vars
  <1> QED
    BY <1>1, ClockInv DEF Next

\* A program that saw the flag finds a byte it has not read (rx_buf_valid, cpu.v OP_IN).
THEOREM ReadsSafe == Spec => ReadsFresh
  <1>1. IInv => [(b.phase = "EXECUTE" /\ b.saw /\ ~b'.saw) => unread > 0]_vars
    BY DEF IInv
  <1> QED
    BY <1>1, InitInv, NextInv, PTL DEF Spec, ReadsFresh

-----------------------------------------------------------------------------
(* The prompt reader: how soon the next byte can come, and how late the read *)

D == div[2]
Rest(i) == (Bits - i) * D

\* The fewest clocks from a byte to the next, and until the next one as rx stands.
Frame == 1 + D \div 2 + Rest(0) + D
NextByte(r) == CASE r.state = "IDLE"  -> Frame
                 [] r.state = "START" -> r.cnt + 1 + Rest(0) + D
                 [] r.state = "DATA"  -> r.cnt + 1 + Rest(r.idx)
                 [] r.state = "STOP"  -> r.cnt + 1

\* The most clocks before the program's next port, and before its read of a byte that is there.
NextPort(c) == (CASE c.phase = "EXECUTE" -> 0
                  [] c.phase = "FETCH"   -> 1
                  [] c.phase = "WAIT"    -> 2) + 3 * (MaxGap - c.gap)
NextRead(c) == NextPort(c) + IF c.saw THEN 0 ELSE 3 + 3 * MaxGap

\* The program looks twice within a frame: once to see the flag, once to read.
Timely == \A d \in Divisors : 6 * MaxGap + 6 <= d[2] \div 2 + (Bits + 1) * d[2]

RxTypes == /\ {"state", "cnt", "shift", "idx", "valid", "data"} \subseteq DOMAIN rx
           /\ rx.state \in {"IDLE", "START", "DATA", "STOP"} /\ rx.cnt \in Nat
           /\ rx.idx \in 0 .. Bits - 1 /\ rx.valid \in BOOLEAN
           /\ rx.valid => rx.state = "IDLE"
CoreTypes == b.phase \in Phase /\ b.saw \in BOOLEAN /\ b.gap \in 0 .. MaxGap

\* A flagged byte is read before the next one can have come.
InTime == ~lazy => /\ unread \in 0 .. 1 /\ (unread = 1 <=> buf.valid)
                   /\ buf.valid => ~rx.valid /\ NextRead(b) < NextByte(rx)

LineInv == IInv /\ div \in Divisors /\ RxTypes /\ CoreTypes /\ InTime

LEMMA RestFact ==
  ASSUME div \in Divisors
  PROVE  /\ D \in Nat /\ D \div 2 \in Nat /\ D \div 2 >= 1 /\ D >= 2 /\ Bits \in Nat /\ Bits > 0
         /\ \A i \in 0 .. Bits - 1 : Rest(i) \in Nat /\ Rest(i + 1) \in Nat
                                     /\ Rest(i) = Rest(i + 1) + D
         /\ Rest(Bits) = 0
<1>1. D \in Nat /\ D >= 2 /\ Bits \in Nat /\ Bits > 0
  BY UartAssumption DEF D
<1>2. D \div 2 \in Nat /\ D \div 2 >= 1
  BY <1>1
<1>3. Rest(Bits) = 0
  BY <1>1 DEF Rest
<1>4. ASSUME NEW i \in 0 .. Bits - 1
      PROVE  Rest(i) \in Nat /\ Rest(i + 1) \in Nat /\ Rest(i) = Rest(i + 1) + D
  <2>1. \A m, n \in Nat : m * n \in Nat /\ (m + 1) * n = m * n + n
    OBVIOUS
  <2>2. PICK m \in Nat : m = Bits - (i + 1)
    BY <1>1
  <2>3. Bits - i = m + 1
    BY <1>1, <2>2
  <2>4. m * D \in Nat /\ (m + 1) * D = m * D + D
    BY <1>1, <2>1
  <2> QED BY <1>1, <2>2, <2>3, <2>4 DEF Rest
<1> QED BY <1>1, <1>2, <1>3, <1>4

LEMMA FrameFact ==
  ASSUME div \in Divisors, Timely, MaxGap \in Nat
  PROVE  Frame \in Nat /\ 6 * MaxGap + 7 <= Frame
<1>1. 6 * MaxGap + 6 <= D \div 2 + (Bits + 1) * D
  BY DEF Timely, D
<1>2. D \in Nat /\ Bits \in Nat /\ D \div 2 \in Nat /\ Rest(0) \in Nat
  BY RestFact
<1>3. (Bits + 1) * D = Rest(0) + D
  <2>1. \A m, n \in Nat : (m + 1) * n = m * n + n
    OBVIOUS
  <2> QED BY <1>2, <2>1 DEF Rest
<1> QED BY <1>1, <1>2, <1>3 DEF Frame

\* A clock brings the next byte at most one clock nearer.
LEMMA RxNext ==
  ASSUME div \in Divisors, RxTypes, uart_rx
  PROVE  /\ RxTypes'
         /\ NextByte(rx) \in Nat /\ NextByte(rx') \in Nat
         /\ NextByte(rx') >= NextByte(rx) - 1
         /\ rx'.valid => NextByte(rx) = 1
         /\ rx.valid => NextByte(rx) = Frame
<1>13. /\ \A i \in 0 .. Bits - 1 : Rest(i) \in Nat /\ Rest(i + 1) \in Nat
                                   /\ Rest(i) = Rest(i + 1) + D
       /\ Rest(Bits) = 0
  BY RestFact
<1>0. /\ D \in Nat /\ D \div 2 \in Nat /\ D \div 2 >= 1 /\ D >= 2 /\ Bits \in Nat /\ Bits > 0
      /\ Rest(0) \in Nat
  BY RestFact
<1> DEFINE F == {"state", "cnt", "shift", "idx", "valid", "data"}
<1>1. /\ F \subseteq DOMAIN Quiet /\ Quiet.valid = FALSE
      /\ Quiet.state = rx.state /\ Quiet.cnt = rx.cnt /\ Quiet.idx = rx.idx
  BY DEF Quiet, RxTypes
<1>2. F \subseteq DOMAIN rx /\ rx.state \in {"IDLE", "START", "DATA", "STOP"}
  BY DEF RxTypes
<1>12. rx.cnt \in Nat /\ rx.idx \in 0 .. Bits - 1
  BY DEF RxTypes
<1>3. rx.valid => NextByte(rx) = Frame
  BY DEF RxTypes, NextByte
<1> DEFINE Shape == /\ F \subseteq DOMAIN rx' /\ rx'.state \in {"IDLE", "START", "DATA", "STOP"}
                    /\ rx'.valid \in BOOLEAN
                    /\ rx'.valid => rx'.state = "IDLE"
                    /\ rx'.valid => NextByte(rx) = 1
           Numbers == /\ rx'.cnt \in Nat /\ rx'.idx \in 0 .. Bits - 1
                      /\ NextByte(rx) \in Nat /\ NextByte(rx') \in Nat
                      /\ NextByte(rx') >= NextByte(rx) - 1
<1>10. 0 \in 0 .. Bits - 1 /\ Frame \in Nat /\ Frame = 1 + D \div 2 + Rest(0) + D
  BY <1>0 DEF Frame
<1>11. ASSUME F \subseteq DOMAIN rx', rx'.valid = FALSE,
              rx'.state \in {"IDLE", "START", "DATA", "STOP"}
       PROVE  Shape
  <2>1. rx'.valid \in BOOLEAN /\ ~rx'.valid
    BY <1>11, Zenon
  <2> QED BY <1>11, <2>1, Zenon
<1> HIDE DEF F, Shape
<1>5. ASSUME RxIdle PROVE Shape /\ Numbers
  <2>1. CASE Low
    <3>1. rx' = [Quiet EXCEPT !.cnt = D \div 2 - 1, !.state = "START"]
      BY <1>5, <2>1 DEF RxIdle, D
    <3>2. /\ F \subseteq DOMAIN rx' /\ rx'.state = "START" /\ rx'.valid = FALSE
          /\ rx'.cnt = D \div 2 - 1 /\ rx'.idx = rx.idx
      BY <1>1, <3>1 DEF F
    <3>3. NextByte(rx) = Frame /\ NextByte(rx') = rx'.cnt + 1 + Rest(0) + D
      BY <1>5, <3>2 DEF RxIdle, NextByte
    <3>4. Numbers
      BY <1>0, <1>10, <1>12, <3>2, <3>3
    <3> QED BY <1>11, <3>2, <3>4
  <2>2. CASE ~Low
    <3>1. rx' = Quiet
      BY <1>5, <2>2 DEF RxIdle
    <3>2. /\ F \subseteq DOMAIN rx' /\ rx'.state = "IDLE" /\ rx'.valid = FALSE
          /\ rx'.cnt = rx.cnt /\ rx'.idx = rx.idx
      BY <1>1, <1>5, <3>1 DEF RxIdle
    <3>3. NextByte(rx) = Frame /\ NextByte(rx') = Frame
      BY <1>5, <3>2 DEF RxIdle, NextByte
    <3>4. Numbers
      BY <1>10, <1>12, <3>2, <3>3
    <3> QED BY <1>11, <3>2, <3>4
  <2> QED BY <2>1, <2>2
<1>6. ASSUME RxCount PROVE Shape /\ Numbers
  <2>1. rx.state # "IDLE" /\ rx.cnt # 0 /\ rx' = [Quiet EXCEPT !.cnt = @ - 1]
    BY <1>6 DEF RxCount
  <2>2. /\ F \subseteq DOMAIN rx' /\ rx'.state = rx.state /\ rx'.valid = FALSE
        /\ rx'.cnt = rx.cnt - 1 /\ rx'.idx = rx.idx
    BY <1>1, <2>1 DEF F
  <2>3. PICK k \in Nat : NextByte(rx) = rx.cnt + 1 + k /\ NextByte(rx') = rx'.cnt + 1 + k
    <3>1. CASE rx.state = "START"
      <4>1. /\ NextByte(rx) = rx.cnt + 1 + Rest(0) + D
            /\ NextByte(rx') = rx'.cnt + 1 + Rest(0) + D
        BY <2>2, <3>1 DEF NextByte
      <4>2. rx.cnt \in Nat /\ rx'.cnt \in Int /\ Rest(0) + D \in Nat
        BY <1>0, <1>12, <2>2
      <4>3. /\ NextByte(rx) = rx.cnt + 1 + (Rest(0) + D)
            /\ NextByte(rx') = rx'.cnt + 1 + (Rest(0) + D)
        BY <1>0, <4>1, <4>2
      <4> QED BY <4>2, <4>3
    <3>2. CASE rx.state = "DATA"
      <4>1. /\ NextByte(rx) = rx.cnt + 1 + Rest(rx.idx)
            /\ NextByte(rx') = rx'.cnt + 1 + Rest(rx.idx)
        BY <2>2, <3>2 DEF NextByte
      <4>2. Rest(rx.idx) \in Nat
        BY <1>12, <1>13
      <4> QED BY <4>1, <4>2
    <3>3. CASE rx.state = "STOP"
      <4>1. NextByte(rx) = rx.cnt + 1 /\ NextByte(rx') = rx'.cnt + 1
        BY <2>2, <3>3 DEF NextByte
      <4>2. rx.cnt \in Nat /\ rx'.cnt \in Int
        BY <1>12, <2>2
      <4>3. NextByte(rx) = rx.cnt + 1 + 0 /\ NextByte(rx') = rx'.cnt + 1 + 0
        BY <4>1, <4>2
      <4> QED BY <4>3
    <3> QED BY <1>2, <2>1, <3>1, <3>2, <3>3
  <2>4. Numbers
    BY <1>12, <2>1, <2>2, <2>3
  <2> QED BY <1>2, <1>11, <2>2, <2>4
<1>7. ASSUME RxStart PROVE Shape /\ Numbers
  <2>0. NextByte(rx) = rx.cnt + 1 + Rest(0) + D /\ rx.cnt = 0
    BY <1>7 DEF RxStart, NextByte
  <2>1. CASE Low
    <3>1. rx' = [Quiet EXCEPT !.cnt = D - 1, !.idx = 0, !.state = "DATA"]
      BY <1>7, <2>1 DEF RxStart, D
    <3>2. /\ F \subseteq DOMAIN rx' /\ rx'.state = "DATA" /\ rx'.valid = FALSE
          /\ rx'.cnt = D - 1 /\ rx'.idx = 0
      BY <1>1, <3>1 DEF F
    <3>3. NextByte(rx') = rx'.cnt + 1 + Rest(0)
      BY <3>2 DEF NextByte
    <3>4. Numbers
      BY <1>0, <1>10, <2>0, <3>2, <3>3
    <3> QED BY <1>11, <3>2, <3>4
  <2>2. CASE ~Low
    <3>1. rx' = [Quiet EXCEPT !.state = "IDLE"]
      BY <1>7, <2>2 DEF RxStart
    <3>2. /\ F \subseteq DOMAIN rx' /\ rx'.state = "IDLE" /\ rx'.valid = FALSE
          /\ rx'.cnt = rx.cnt /\ rx'.idx = rx.idx
      BY <1>1, <3>1 DEF F
    <3>3. NextByte(rx') = Frame
      BY <3>2 DEF NextByte
    <3>4. Numbers
      BY <1>0, <1>10, <1>12, <2>0, <3>2, <3>3
    <3> QED BY <1>11, <3>2, <3>4
  <2> QED BY <2>1, <2>2
<1>8. ASSUME RxBit PROVE Shape /\ Numbers
  <2>0. /\ NextByte(rx) = rx.cnt + 1 + Rest(rx.idx) /\ rx.cnt = 0
        /\ Rest(rx.idx) = Rest(rx.idx + 1) + D
        /\ Rest(rx.idx) \in Nat /\ Rest(rx.idx + 1) \in Nat
    BY <1>13, <1>12, <1>8 DEF RxBit, NextByte
  <2>1. /\ F \subseteq DOMAIN rx' /\ rx'.cnt = D - 1 /\ rx'.valid = FALSE
        /\ rx'.idx = IF rx.idx = Bits - 1 THEN rx.idx ELSE rx.idx + 1
        /\ rx'.state = IF rx.idx = Bits - 1 THEN "STOP" ELSE "DATA"
    BY <1>1, <1>8 DEF RxBit, F, D
  <2>2. CASE rx.idx = Bits - 1
    <3>1. rx'.idx = rx.idx /\ rx'.state = "STOP"
      BY <2>1, <2>2
    <3>2. NextByte(rx') = rx'.cnt + 1
      BY <3>1 DEF NextByte
    <3>3. Rest(rx.idx + 1) = 0
      BY <1>0, <1>13, <2>2
    <3>4. Numbers
      BY <1>0, <1>12, <2>0, <2>1, <3>1, <3>2, <3>3
    <3> QED BY <1>11, <2>1, <3>1, <3>4
  <2>3. CASE rx.idx # Bits - 1
    <3>1. rx'.idx = rx.idx + 1 /\ rx'.state = "DATA"
      BY <2>1, <2>3
    <3>2. NextByte(rx') = rx'.cnt + 1 + Rest(rx.idx + 1)
      BY <3>1 DEF NextByte
    <3>4. Numbers
      BY <1>0, <1>12, <2>0, <2>1, <2>3, <3>1, <3>2
    <3> QED BY <1>11, <2>1, <3>1, <3>4
  <2> QED BY <2>2, <2>3
<1>9. ASSUME RxStop PROVE Shape /\ Numbers
  <2>0. NextByte(rx) = rx.cnt + 1 /\ rx.cnt = 0
    BY <1>9 DEF RxStop, NextByte
  <2>1. /\ F \subseteq DOMAIN rx' /\ rx'.state = "IDLE" /\ rx'.cnt = rx.cnt
        /\ rx'.idx = rx.idx /\ rx'.valid \in BOOLEAN
    <3>1. CASE Low
      <4>1. rx' = [Quiet EXCEPT !.state = "IDLE"]
        BY <1>9, <3>1 DEF RxStop
      <4> QED BY <1>1, <4>1 DEF F
    <3>2. CASE ~Low
      <4>1. rx' = [rx EXCEPT !.state = "IDLE", !.data = rx.shift, !.valid = TRUE]
        BY <1>9, <3>2 DEF RxStop
      <4> QED BY <1>2, <4>1 DEF F
    <3> QED BY <3>1, <3>2
  <2>2. NextByte(rx') = Frame
    BY <2>1 DEF NextByte
  <2>3. Numbers
    BY <1>10, <1>12, <2>0, <2>1, <2>2
  <2>4. NextByte(rx) = 1
    BY <2>0
  <2>5. Shape
    BY <2>1, <2>4 DEF Shape
  <2> QED BY <2>3, <2>5
<1>4. Shape /\ Numbers
  BY <1>5, <1>6, <1>7, <1>8, <1>9 DEF uart_rx
<1>14. RxTypes'
  <2> HIDE DEF Numbers
  <2>1. /\ F \subseteq DOMAIN rx' /\ rx'.state \in {"IDLE", "START", "DATA", "STOP"}
        /\ rx'.valid \in BOOLEAN /\ (rx'.valid => rx'.state = "IDLE")
    BY <1>4 DEF Shape
  <2>2. rx'.cnt \in Nat /\ rx'.idx \in (0 .. Bits - 1)'
    BY <1>4 DEF Numbers
  <2> QED BY <2>1, <2>2, Zenon DEF RxTypes, F
<1>15. rx'.valid => NextByte(rx) = 1
  BY <1>4 DEF Shape
<1> QED BY <1>3, <1>4, <1>14, <1>15

\* What is left to the next port, for each phase, and to the read.
LEMMA PortFact ==
  ASSUME NEW c, c.phase \in Phase, c.saw \in BOOLEAN, c.gap \in 0 .. MaxGap, MaxGap \in Nat
  PROVE  \E left \in 0 .. 2, look \in {0, 3 + 3 * MaxGap} :
           /\ NextRead(c) = left + 3 * (MaxGap - c.gap) + look
           /\ left = (CASE c.phase = "EXECUTE" -> 0
                        [] c.phase = "FETCH"   -> 1
                        [] c.phase = "WAIT"    -> 2)
           /\ look = IF c.saw THEN 0 ELSE 3 + 3 * MaxGap
<1> DEFINE left == CASE c.phase = "EXECUTE" -> 0
                     [] c.phase = "FETCH"   -> 1
                     [] c.phase = "WAIT"    -> 2
           look == IF c.saw THEN 0 ELSE 3 + 3 * MaxGap
<1>1. left \in 0 .. 2 /\ look \in {0, 3 + 3 * MaxGap}
  BY DEF Phase
<1>2. NextRead(c) = left + 3 * (MaxGap - c.gap) + look
  BY DEF NextRead, NextPort
<1> QED BY <1>1, <1>2

\* A prompt program that has a byte to read comes a clock nearer to the read.
LEMMA ReadNext ==
  ASSUME CoreTypes, MaxGap \in Nat, buf.valid \in BOOLEAN,
         NEW rop \in ReadOps, ReadCore(rop)
  PROVE  /\ CoreTypes'
         /\ NextRead(b) \in Nat /\ NextRead(b') \in Nat /\ NextRead(b') <= 5 + 6 * MaxGap
         /\ (~lazy /\ buf.valid /\ rop # "read") => NextRead(b') < NextRead(b)
         /\ rop = "read" => b.saw
<1>1. rop \in {"none", "load", "other", "status", "read"} /\ (rop = "none" <=> b.phase # "EXECUTE")
  BY DEF ReadOps, Others
<1>2. /\ rop = "read" => b.saw
      /\ ~lazy => (rop \in Others => b.gap < MaxGap) /\ (rop = "status" => ~b.saw)
  BY DEF ReadOps, Others
<1>3. b.phase \in Phase /\ b.saw \in BOOLEAN /\ b.gap \in 0 .. MaxGap
  BY DEF CoreTypes
<1>4. /\ b'.phase = NextPhase(b.phase, rop)
      /\ b'.saw = CASE rop = "status" -> buf.valid
                    [] rop = "read"   -> FALSE
                    [] OTHER          -> b.saw
      /\ b'.gap = CASE lazy \/ rop \in {"status", "read"} -> 0
                    [] ~lazy /\ rop \in Others -> b.gap + 1
                    [] OTHER         -> b.gap
  BY DEF ReadCore
<1>5. b'.phase \in Phase
  BY <1>3, <1>4 DEF NextPhase, Phase
<1>6. b'.saw \in BOOLEAN
  BY <1>1, <1>3, <1>4
<1>7. b'.gap \in 0 .. MaxGap
  <2>1. CASE lazy \/ rop \in {"status", "read"}
    BY <1>4, <2>1 DEF Others
  <2>2. CASE ~lazy /\ rop \in Others
    <3>1. b'.gap = b.gap + 1 /\ b.gap < MaxGap
      BY <1>2, <1>4, <2>2 DEF Others
    <3> QED BY <1>3, <3>1
  <2>3. CASE ~lazy /\ rop = "none"
    <3>1. b'.gap = b.gap
      BY <1>4, <2>3 DEF Others
    <3> QED BY <1>3, <3>1
  <2> QED BY <1>1, <2>1, <2>2, <2>3 DEF Others
<1>8. NextRead(b) \in Nat /\ NextRead(b') \in Nat /\ NextRead(b') <= 5 + 6 * MaxGap
  <2>1. ASSUME NEW c, c.phase \in Phase, c.saw \in BOOLEAN, c.gap \in 0 .. MaxGap
        PROVE  NextRead(c) \in Nat /\ NextRead(c) <= 5 + 6 * MaxGap
    <3>1. PICK l \in 0 .. 2, k \in {0, 3 + 3 * MaxGap} : NextRead(c) = l + 3 * (MaxGap - c.gap) + k
      BY <2>1, PortFact
    <3>2. PICK g \in 0 .. MaxGap : c.gap = g
      BY <2>1
    <3> QED BY <3>1, <3>2
  <2> QED BY <1>3, <1>5, <1>6, <1>7, <2>1
<1>9. ASSUME ~lazy, buf.valid, rop # "read" PROVE NextRead(b') < NextRead(b)
  <2>1. CASE rop = "none"
    <3>1. b'.gap = b.gap /\ (b'.saw <=> b.saw)
      BY <1>4, <1>9, <2>1 DEF Others
    <3>2. \/ b.phase = "FETCH" /\ b'.phase = "EXECUTE"
          \/ b.phase = "WAIT" /\ b'.phase = "FETCH"
      BY <1>1, <1>3, <1>4, <2>1 DEF Phase, NextPhase
    <3>3. NextPort(b') = NextPort(b) - 1
      <4>1. CASE b.phase = "FETCH"
        <5>1. NextPort(b) = 1 + 3 * (MaxGap - b.gap) /\ NextPort(b') = 0 + 3 * (MaxGap - b.gap)
          BY <3>1, <3>2, <4>1 DEF NextPort
        <5> QED BY <1>3, <5>1
      <4>2. CASE b.phase = "WAIT"
        <5>1. NextPort(b) = 2 + 3 * (MaxGap - b.gap) /\ NextPort(b') = 1 + 3 * (MaxGap - b.gap)
          BY <3>1, <3>2, <4>2 DEF NextPort
        <5> QED BY <1>3, <5>1
      <4> QED BY <3>2, <4>1, <4>2
    <3>4. PICK k \in Nat : NextRead(b) = NextPort(b) + k /\ NextRead(b') = NextPort(b') + k
      <4>1. 3 + 3 * MaxGap \in Nat
        OBVIOUS
      <4> QED BY <3>1, <4>1 DEF NextRead
    <3>5. NextPort(b) \in Int
      <4>1. PICK l \in 0 .. 2 : NextPort(b) = l + 3 * (MaxGap - b.gap)
        BY <3>2 DEF NextPort
      <4> QED BY <1>3, <4>1
    <3> QED BY <3>3, <3>4, <3>5
  <2>2. CASE rop \in Others
    <3>1. b'.gap = b.gap + 1 /\ (b'.saw <=> b.saw) /\ b.phase = "EXECUTE"
      BY <1>1, <1>4, <1>9, <2>2 DEF Others
    <3>2. PICK k \in Nat : NextRead(b) = NextPort(b) + k /\ NextRead(b') = NextPort(b') + k
      <4>1. 3 + 3 * MaxGap \in Nat
        OBVIOUS
      <4> QED BY <3>1, <4>1 DEF NextRead
    <3>3. NextPort(b) = 0 + 3 * (MaxGap - b.gap)
      BY <3>1 DEF NextPort
    <3>4. b'.phase \in {"FETCH", "WAIT"}
      BY <1>4, <2>2, <3>1 DEF NextPhase, Others
    <3>5. PICK l \in 1 .. 2 : NextPort(b') = l + 3 * (MaxGap - b'.gap)
      BY <3>4 DEF NextPort
    <3>6. b'.gap = b.gap + 1
      BY <3>1
    <3> QED BY <1>3, <3>2, <3>3, <3>5, <3>6
  <2>3. CASE rop = "status"
    <3>1. b'.gap = 0 /\ b'.saw /\ ~b.saw /\ b.phase = "EXECUTE" /\ b'.phase = "WAIT"
      BY <1>1, <1>2, <1>4, <1>9, <2>3 DEF NextPhase, Others
    <3>2. /\ NextRead(b) = NextPort(b) + (3 + 3 * MaxGap) /\ NextRead(b') = NextPort(b') + 0
      BY <3>1 DEF NextRead
    <3>3. NextPort(b) = 0 + 3 * (MaxGap - b.gap) /\ NextPort(b') = 2 + 3 * (MaxGap - 0)
      BY <3>1 DEF NextPort
    <3> QED BY <1>3, <3>2, <3>3
  <2> QED BY <1>1, <1>9, <2>1, <2>2, <2>3 DEF Others
<1> QED BY <1>2, <1>5, <1>6, <1>7, <1>8, <1>9 DEF CoreTypes

LEMMA LineInit == Init /\ MaxGap \in Nat => LineInv
<1> SUFFICES ASSUME Init, MaxGap \in Nat PROVE LineInv
  OBVIOUS
<1>1. div \in Divisors
  BY DEF Init
<1>2. 0 \in 0 .. Bits - 1
  BY <1>1, RestFact
<1>3. RxTypes
  BY <1>2 DEF Init, RxTypes
<1>4. CoreTypes
  BY DEF Init, CoreTypes, Phase
<1>5. InTime
  BY DEF Init, InTime
<1> QED BY <1>1, <1>3, <1>4, <1>5, InitInv DEF LineInv

LEMMA LineClock ==
  ASSUME LineInv, Clock, Timely, MaxGap \in Nat
  PROVE  LineInv'
<1>1. PICK op \in SendOps, v \in Byte, rop \in ReadOps :
        uart_rx /\ Buffer(rop) /\ ReadCore(rop) /\ Track(op, v, rop) /\ UNCHANGED <<div, lazy>>
  BY DEF Clock
<1>2. /\ buf'.valid = ((rx.valid \/ buf.valid) /\ rop # "read")
      /\ unread' = LET kept == IF rop = "read" THEN 0 ELSE unread
                   IN  IF rx.valid /\ kept < 2 THEN kept + 1 ELSE kept
  BY <1>1 DEF Buffer, Track
<1>3. /\ RxTypes' /\ NextByte(rx) \in Nat /\ NextByte(rx') \in Nat
      /\ NextByte(rx') >= NextByte(rx) - 1
      /\ rx'.valid => NextByte(rx) = 1
      /\ rx.valid => NextByte(rx) = Frame
  BY <1>1, RxNext DEF LineInv
<1>4. /\ CoreTypes' /\ NextRead(b) \in Nat /\ NextRead(b') \in Nat /\ NextRead(b') <= 5 + 6 * MaxGap
      /\ (~lazy /\ buf.valid /\ rop # "read") => NextRead(b') < NextRead(b)
      /\ rop = "read" => b.saw
  BY <1>1, ReadNext DEF LineInv, IInv
<1>5. Frame \in Nat /\ 6 * MaxGap + 7 <= Frame
  BY FrameFact DEF LineInv
<1>6. /\ NextByte(rx)' = NextByte(rx') /\ NextRead(b)' = NextRead(b')
  BY <1>1 DEF NextByte, NextRead, NextPort, Frame, Rest, D
<1>7. ASSUME ~lazy
      PROVE  /\ unread' \in 0 .. 1 /\ (unread' = 1 <=> buf'.valid)
             /\ buf'.valid => ~rx'.valid /\ NextRead(b') < NextByte(rx')
  <2>0. /\ unread \in 0 .. 1 /\ (unread = 1 <=> buf.valid)
        /\ buf.valid => ~rx.valid /\ NextRead(b) < NextByte(rx)
    BY <1>7 DEF LineInv, InTime
  <2>1. CASE buf.valid /\ rop = "read"
    <3>1. ~rx.valid /\ ~buf'.valid /\ unread' = 0
      BY <1>2, <2>0, <2>1
    <3> QED BY <3>1
  <2>2. CASE buf.valid /\ rop # "read"
    <3>1. ~rx.valid /\ buf'.valid /\ unread = 1
      BY <1>2, <2>0, <2>2
    <3>2. unread' = 1
      BY <1>2, <2>2, <3>1
    <3>3. NextByte(rx) # 1 /\ NextRead(b') < NextByte(rx')
      BY <1>3, <1>4, <1>7, <2>0, <2>2
    <3>4. ~rx'.valid
      BY <1>3, <3>3
    <3> QED BY <3>1, <3>2, <3>3, <3>4
  <2>3. CASE ~buf.valid /\ rx.valid
    <3>1. rop # "read" /\ unread = 0
      BY <1>4, <2>0, <2>3 DEF LineInv, IInv
    <3>2. buf'.valid /\ unread' = 1
      <4>1. buf'.valid
        BY <1>2, <2>3, <3>1, Zenon
      <4>2. unread' = 1
        BY <1>2, <2>3, <3>1
      <4> QED BY <4>1, <4>2
    <3>3. NextByte(rx) # 1 /\ NextRead(b') < NextByte(rx')
      <4>1. NextByte(rx) = Frame
        BY <1>3, <2>3
      <4> QED BY <1>3, <1>4, <1>5, <4>1
    <3>4. ~rx'.valid
      BY <1>3, <3>3
    <3> QED BY <3>2, <3>3, <3>4
  <2>4. CASE ~buf.valid /\ ~rx.valid
    <3>1. unread = 0 /\ ~buf'.valid
      <4>1. unread = 0
        BY <2>0, <2>4
      <4>2. ~buf'.valid
        BY <1>2, <2>4, Zenon
      <4> QED BY <4>1, <4>2
    <3>2. unread' = 0
      BY <1>2, <2>4, <3>1
    <3> QED BY <3>1, <3>2
  <2> QED BY <2>1, <2>2, <2>3, <2>4
<1>8. InTime'
  BY <1>1, <1>6, <1>7 DEF InTime
<1>9. IInv' /\ (div \in Divisors)'
  BY <1>1, ClockInv DEF LineInv
<1> QED BY <1>3, <1>4, <1>8, <1>9 DEF LineInv

LEMMA LineNext ==
  ASSUME Timely, MaxGap \in Nat
  PROVE  LineInv /\ [Next]_vars => LineInv'
<1>1. ASSUME LineInv, UNCHANGED vars PROVE LineInv'
  BY <1>1 DEF LineInv, IInv, RxTypes, CoreTypes, InTime, NextRead, NextPort, NextByte, Frame, Rest,
              D, vars
<1> QED BY <1>1, LineClock DEF Next

\* A program that comes back in time loses nothing: a byte that was stored is
\* flagged until it is read, and is read before the next one is stored
\* (rx_buf of nova16_top.v, which has room for one byte).
THEOREM PromptSafe ==
  ASSUME Timely
  PROVE  Spec => []PromptReaderLosesNothing
<1>1. MaxGap \in Nat
  BY UartAssumption
<1>2. LineInv => PromptReaderLosesNothing
  BY DEF LineInv, InTime, PromptReaderLosesNothing
<1>3. Init => LineInv
  BY <1>1, LineInit
<1>4. LineInv /\ [Next]_vars => LineInv'
  BY <1>1, LineNext
<1> QED BY <1>2, <1>3, <1>4, PTL DEF Spec
=============================================================================
