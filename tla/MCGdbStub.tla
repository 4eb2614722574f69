----------------------------- MODULE MCGdbStub -----------------------------
(***************************************************************************)
(* Three cells, six words.  STORE, CALL and the client reach every cell,   *)
(* the one read ahead included.                                            *)
(***************************************************************************)
EXTENDS GdbStub

MCReg == {0, 1, 7}
I(op, d, a, b, imm) == [op |-> op, d |-> d, a |-> a, b |-> b, imm |-> imm]
Words == << I("NOP", 0, 0, 0, 0),   I("STORE", 1, 7, 0, 2), I("CALL", 0, 0, 0, 0),
            I("JNZ", 1, 0, 0, 8),   I("LOAD", 1, 1, 0, 1),  I("RET", 0, 0, 0, 0),
            I("DIV", 0, 7, 1, 0),   I("OUT", 0, 0, 0, 0),   I("IN", 0, 0, 0, 1) >>
MCDecode == [w \in 0 .. 8 |-> Words[w + 1]]
MCAlu == [t \in AluOp \X (0 .. 8) \X (0 .. 8) |-> IF t[3] = 0 THEN 0 ELSE t[2] \div t[3]]
MCProgram == {[a \in 0 .. 2 |-> p[a + 1]] : p \in {<<4, 1, 2>>, <<6, 8, 5>>, <<3, 7, 0>>}}

C(op, addr, reg, val, long) ==
  [op |-> op, addr |-> addr, reg |-> reg, val |-> val, long |-> long]
Control(ops) == {C(op, 0, 0, 0, FALSE) : op \in ops}
\* One session with breakpoints, one that writes memory and registers.
MCSession ==
  { [most |-> 4, repeats |-> 0, commands |-> Control({"c"}) \cup {C("Z", a, 0, 0, FALSE) : a \in 0 .. 2}
                                \cup {C("z", 0, 0, 0, FALSE)}],
    [most |-> 2, repeats |-> 1, commands |-> Control({"?", "s", "c", "k"})
                                \cup {C("M", a, 0, 1, FALSE) : a \in {1, 3}}
                                \cup {C("M", 1, 0, 1, TRUE), C("G", 1, 1, 1, FALSE),
                                      C("G", 3, 1, 1, FALSE), C("G short", 0, 1, 1, FALSE)}] }
=============================================================================
