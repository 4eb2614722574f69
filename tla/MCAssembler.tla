---------------------------- MODULE MCAssembler ----------------------------
(***************************************************************************)
(* Every source of up to four of eighteen lines, with immediates of two     *)
(* bits, so that branches, numbers, the label table, the instruction       *)
(* buffer and the error count all come to their limits.                    *)
(***************************************************************************)
EXTENDS Assembler

CONSTANTS a, b, c, R1, R2

MCRegNo == [r \in {R1, R2} |-> IF r = R1 THEN 1 ELSE 2]

L(label, mn, args) == [label |-> label, mn |-> mn, args |-> args]
Lines == { L(Blank, Blank, << >>),           L(a, Blank, << >>),
           L(b, Blank, << >>),               L(c, "ECALL", << >>),
           L(a, "JMP", <<b>>),               L(b, "JNZ", <<R2, a>>),
           L(Blank, "CALL", <<c>>),          L(Blank, "LI", <<R1, 2>>),
           L(Blank, "LI", <<R1, b>>),        L(Blank, "STORE", <<R2, R1, -2>>),
           L(Blank, "SHL", <<R1, R1, 2>>),   L(Blank, "ADD", <<R1, R2, b>>),
           L(Overlong, "NOP", << >>),        L(Blank, "MOV", <<R1, R2>>),
           L(Blank, "RAND", <<R1>>),         L(1, "AESE", <<R1, R2>>),
           L(b, "JMP", <<1>>),              L(Blank, "LI", <<R1, 4>>) }
MCSource == UNION {[1 .. n -> Lines] : n \in 0 .. 4}
=============================================================================
