----------------------------- MODULE MCNovaRtl -----------------------------
(***************************************************************************)
(* Four cells, sixteen words.  The programs write over themselves, use     *)
(* their own words as data and run off the end of memory.                  *)
(***************************************************************************)
EXTENDS NovaRtl, Sequences

MCReg == {0, 1, 7}
I(op, d, a, b, imm) == [op |-> op, d |-> d, a |-> a, b |-> b, imm |-> imm]

Words == << I("NOP", 0, 0, 0, 0),   I("LI", 1, 0, 0, 14),   I("ADD", 1, 1, 7, 0),
            I("LOAD", 1, 1, 0, 1),  I("STORE", 1, 0, 0, 2), I("JNZ", 1, 0, 0, 14),
            I("JZ", 1, 0, 0, 15),   I("CALL", 0, 0, 0, 1),  I("RET", 0, 0, 0, 0),
            I("OUT", 1, 0, 0, 0),   I("IN", 1, 0, 0, 2),    I("DIV", 7, 7, 1, 0),
            I("LOAD", 0, 7, 0, 3),  I("ILL", 0, 0, 0, 0),   I("JMP", 0, 0, 0, 13),
            I("HALT", 0, 0, 0, 0) >>
MCDecode == [w \in 0 .. 15 |-> Words[w + 1]]

\* Combines two words bit by bit.
Bitwise2(f, x, y) ==
  LET at(k) == 2 ^ k * f[(x \div 2 ^ k) % 2, (y \div 2 ^ k) % 2]
  IN  at(0) + at(1) + at(2) + at(3)
Bit == {0, 1}
Signed(x) == IF x < 8 THEN x ELSE x - 16
Quot(x, y) == LET q == (IF x < 0 THEN -x ELSE x) \div (IF y < 0 THEN -y ELSE y)
              IN  IF (x < 0) = (y < 0) THEN q ELSE -q
MCAlu == [t \in {"ADD", "SUB", "AND", "OR", "XOR", "SHL", "SHR", "MUL", "DIV"}
                     \X (0 .. 15) \X (0 .. 15) |->
            LET x == t[2]
                y == t[3]
            IN  CASE t[1] = "ADD" -> (x + y) % 16
                  [] t[1] = "SUB" -> (x - y) % 16
                  [] t[1] = "MUL" -> (x * y) % 16
                  [] t[1] = "AND" -> Bitwise2([p, q \in Bit |-> p * q], x, y)
                  [] t[1] = "OR"  -> Bitwise2([p, q \in Bit |-> p + q - p * q], x, y)
                  [] t[1] = "XOR" -> Bitwise2([p, q \in Bit |-> (p + q) % 2], x, y)
                  [] t[1] = "SHL" -> (x * 2 ^ (y % 4)) % 16
                  [] t[1] = "SHR" -> x \div 2 ^ (y % 4)
                  [] t[1] = "DIV" -> IF y = 0 THEN 0 ELSE Quot(Signed(x), Signed(y)) % 16]

\* IN and STORE make every word an instruction.
MCProgram == {m \in [0 .. 3 -> 0 .. 15] :
                /\ m[0] \in {7, 10}
                /\ m[1] \in {3, 4}
                /\ m[2] \in {8, 5}
                /\ m[3] \in {6, 14}}
=============================================================================
