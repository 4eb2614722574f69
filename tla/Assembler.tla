----------------------------- MODULE Assembler -----------------------------
(***************************************************************************)
(* The two-pass assembler, asm.c: process_line() is called for every line  *)
(* of the source, first to collect the labels, then to encode.  A line is  *)
(* what the tokenizer makes of it: a label, a mnemonic and its operands.   *)
(*                                                                         *)
(* A token is a number or a name; RegNo gives the names parse_reg() takes  *)
(* for registers.  Numbers stay within the 32 bits of parse_number().      *)
(* Immediates have the range -Half .. Half - 1 (Half = 1024 in the code).  *)
(***************************************************************************)
EXTENDS Integers, Sequences, FiniteSets

CONSTANTS
  Source,         \* the programs: sequences of lines
  RegNo,          \* register names and their numbers
  Blank,          \* no label, or no instruction, on the line
  Overlong,       \* a label of 64 characters or more
  Half,           \* 2^10
  MaxLabels,      \* MAX_LABELS
  MaxInsns,       \* MAX_INSNS
  MaxErrors       \* errors after which a pass is given up: 10

ASSUME AsmAssumption ==
  /\ \A s \in Source : Len(s) \in Nat /\ DOMAIN s = 1 .. Len(s)
  /\ \A x \in DOMAIN RegNo : RegNo[x] \in Nat
  /\ Half \in Nat \ {0} /\ MaxLabels \in Nat /\ MaxInsns \in Nat /\ MaxErrors \in Nat

VARIABLES
  source,
  phase,          \* "pass1", "pass2", and how the program ends
  line,           \* the next line to read
  word_addr,
  labels,         \* name -> word address
  error_count,
  insn_buf,
  output          \* the file: its words and its symbols

vars == <<source, phase, line, word_addr, labels, error_count, insn_buf, output>>

None == [words |-> << >>, symbols |-> << >>]

(* The mnemonics, by their operands *)
Plain     == {"NOP", "HALT", "RET", "ECALL", "ERET", "WFI", "FENCE"}
OneReg    == {"RAND", "RFLAGS"}
TwoRegs   == {"AESE"}
ThreeRegs == {"ADD", "SUB", "AND", "OR", "XOR", "MUL", "DIV", "HASH"}
RegImm    == {"LI", "OUT", "IN", "CSRW", "CSRR"}
RegRegImm == {"SHL", "SHR", "LOAD", "STORE", "ELOAD", "ESTORE"}
Jumps     == {"JMP", "CALL"}
CondJumps == {"JZ", "JNZ"}

BranchOp  == Jumps \cup CondJumps
ImmOp     == RegImm \cup RegRegImm \cup BranchOp
Mnemonic  == Plain \cup OneReg \cup TwoRegs \cup ThreeRegs \cup ImmOp

ASSUME BlankAssumption == Blank \notin Mnemonic /\ Blank # Overlong

RegCount(mn) == CASE mn \in ThreeRegs -> 3
                  [] mn \in TwoRegs \cup RegRegImm -> 2
                  [] mn \in OneReg \cup RegImm \cup CondJumps -> 1
                  [] OTHER -> 0

\* A register operand that is missing or no register ends the line.
RegsParse(l) == LET n == RegCount(l.mn)
                IN  Len(l.args) >= n /\ \A k \in 1 .. n : l.args[k] \in DOMAIN RegNo
ImmGiven(l)  == Len(l.args) > RegCount(l.mn)
ImmToken(l)  == l.args[RegCount(l.mn) + 1]

(* Labels: pass 1 enters them before it reads the instruction *)
Declares(l) == l.label # Blank
Refused(l)  == l.label = Overlong \/ (phase = "pass1" /\ l.label \in DOMAIN labels)

\* A full table only prints a message.
TableFull == Cardinality(DOMAIN labels) >= MaxLabels
label_add(l) == IF Declares(l) /\ phase = "pass1" /\ ~TableFull
                THEN [t \in DOMAIN labels \cup {l.label} |->
                        IF t = l.label THEN word_addr ELSE labels[t]]
                ELSE labels

(* The immediate operand, with the labels of tab *)

\* Variant: the offset NOVA-16 needed, with two words per instruction.
Immediate16(l, tab) ==
  LET t == ImmToken(l)
      addr == IF t \in DOMAIN tab THEN tab[t] ELSE 0
  IN  IF t \in Int THEN t ELSE IF l.mn \in BranchOp THEN addr - (word_addr + 2) ELSE addr

\* A label pass 1 has not met yet stands for address 0.
Immediate(l, tab) ==
  LET t == ImmToken(l)
      addr == IF t \in DOMAIN tab THEN tab[t] ELSE 0
  IN  IF t \in Int THEN t ELSE IF l.mn \in BranchOp THEN addr - (word_addr + 1) ELSE addr

check_imm11(v) == v \in -Half .. Half - 1
\* Variant: LI like the others.
InRangeSigned(mn, v) == check_imm11(v)
InRange(mn, v) == check_imm11(v) \/ (mn = "LI" /\ v \in 0 .. 2 * Half - 1)

Known(t, tab) == t \in Int \/ t \in DOMAIN tab

Encodable(l, tab) ==
  /\ l.mn \in Mnemonic /\ RegsParse(l)
  /\ l.mn \in ImmOp => /\ ImmGiven(l)
                       /\ phase = "pass2" => Known(ImmToken(l), tab)
                       /\ InRange(l.mn, Immediate(l, tab))

encode(l, tab) ==
  [op  |-> l.mn,
   reg |-> [k \in 1 .. 3 |-> IF k <= RegCount(l.mn) THEN RegNo[l.args[k]] ELSE 0],
   imm |-> IF l.mn \in ImmOp THEN Immediate(l, tab) % (2 * Half) ELSE 0]

-----------------------------------------------------------------------------
Init == /\ source \in Source /\ phase = "pass1" /\ line = 1 /\ word_addr = 0
        /\ labels = << >> /\ error_count = 0 /\ insn_buf = << >> /\ output = None

Reads(l) == /\ phase \in {"pass1", "pass2"}
            /\ line <= Len(source) /\ l = source[line]

Assembled(l) == /\ line' = line + 1 /\ labels' = label_add(l)
                /\ UNCHANGED <<source, phase, error_count, output>>

\* A label of its own, or nothing at all.
Skip(l) == /\ Reads(l) /\ ~Refused(l) /\ l.mn = Blank
           /\ Assembled(l) /\ UNCHANGED <<word_addr, insn_buf>>

Measure(l) == /\ Reads(l) /\ ~Refused(l) /\ phase = "pass1"
              /\ Encodable(l, label_add(l))
              /\ Assembled(l) /\ word_addr' = word_addr + 1 /\ UNCHANGED insn_buf

Encode(l) == /\ Reads(l) /\ ~Refused(l) /\ phase = "pass2"
             /\ Encodable(l, labels) /\ Len(insn_buf) < MaxInsns
             /\ Assembled(l) /\ word_addr' = word_addr + 1
             /\ insn_buf' = Append(insn_buf, encode(l, labels))

\* asm_error(): the address stays, and after too many errors the pass ends.
Error == /\ error_count' = error_count + 1 /\ line' = line + 1
         /\ phase' = IF error_count' > MaxErrors THEN "failed" ELSE phase
         /\ UNCHANGED <<source, word_addr, insn_buf, output>>

BadLabel(l) == Reads(l) /\ Refused(l) /\ Error /\ UNCHANGED labels

\* The line's label stays in the table.
BadInsn(l) == /\ Reads(l) /\ ~Refused(l) /\ l.mn # Blank
              /\ ~Encodable(l, label_add(l))
              /\ Error /\ labels' = label_add(l)

TooBig(l) == /\ Reads(l) /\ ~Refused(l) /\ phase = "pass2"
             /\ Encodable(l, labels) /\ Len(insn_buf) >= MaxInsns
             /\ Error /\ UNCHANGED labels

process_line == \E l \in {source[k] : k \in DOMAIN source} :
  Skip(l) \/ Measure(l) \/ Encode(l) \/ BadLabel(l) \/ BadInsn(l) \/ TooBig(l)

(* main(): a pass with an error ends the program *)
PassDone == phase \in {"pass1", "pass2"} /\ line > Len(source)

\* Variant: the second pass goes on where the first one stopped.
EndPass1Running == /\ PassDone /\ phase = "pass1" /\ error_count = 0
                   /\ phase' = "pass2" /\ line' = 1
                   /\ UNCHANGED <<source, word_addr, labels, error_count, insn_buf, output>>

EndPass1 == /\ PassDone /\ phase = "pass1" /\ error_count = 0
            /\ phase' = "pass2" /\ line' = 1 /\ word_addr' = 0 /\ insn_buf' = << >>
            /\ UNCHANGED <<source, labels, error_count, output>>

Fail == /\ PassDone /\ error_count > 0
        /\ phase' = "failed"
        /\ UNCHANGED <<source, line, word_addr, labels, error_count, insn_buf, output>>

Finish(file) == /\ PassDone /\ phase = "pass2" /\ error_count = 0
                /\ phase' = "written" /\ output' = file
                /\ UNCHANGED <<source, line, word_addr, labels, error_count, insn_buf>>

write_bin == Finish([words |-> insn_buf, symbols |-> << >>])
\* A symbol's value is a byte address; memory has eight bytes per word.
write_elf == Finish([words |-> insn_buf, symbols |-> [t \in DOMAIN labels |-> 8 * labels[t]]])
CannotOpen == /\ PassDone /\ phase = "pass2" /\ error_count = 0
              /\ phase' = "unwritable"
              /\ UNCHANGED <<source, line, word_addr, labels, error_count, insn_buf, output>>

Next == process_line \/ EndPass1 \/ Fail \/ write_bin \/ write_elf \/ CannotOpen

Spec == Init /\ [][Next]_vars

-----------------------------------------------------------------------------
(* What a source means, read without passes or a table *)

IsInsn(l)  == l.mn # Blank
Place(i)   == Cardinality({j \in 1 .. i - 1 : IsInsn(source[j])})
Declaring  == {i \in DOMAIN source : Declares(source[i])}
Kept       == {i \in Declaring : Cardinality({j \in Declaring : j < i}) < MaxLabels}
At(t)      == Place(CHOOSE i \in Kept : source[i].label = t)
SignExtend(imm) == IF imm < Half THEN imm ELSE imm - 2 * Half

\* What the operand of line i stands for.
Operand(i) == LET t == ImmToken(source[i])
              IN  IF t \in Int THEN t
                  ELSE IF source[i].mn \in BranchOp THEN At(t) - (Place(i) + 1) ELSE At(t)

\* Eleven bits, read as signed; LI takes them unsigned as well.
Fits(mn, v) == -Half <= v /\ v < (IF mn = "LI" THEN 2 * Half ELSE Half)

\* Line i is accepted: the label of a forward branch counts as address 0 in
\* the first pass, and has to be in reach there as well.
LegalInsn(i) ==
  LET l == source[i]
      t == ImmToken(l)
      Declared(upTo) == \E j \in Kept : j <= upTo /\ source[j].label = t
  IN  /\ l.mn \in Mnemonic /\ RegsParse(l)
      /\ l.mn \in ImmOp =>
           /\ ImmGiven(l)
           /\ t \in Int \/ Declared(Len(source))
           /\ Fits(l.mn, Operand(i))
           /\ (l.mn \in BranchOp /\ t \notin Int /\ ~Declared(i)) => Place(i) + 1 <= Half

Legal == /\ \A i \in Declaring : source[i].label # Overlong
         /\ \A i \in Declaring, j \in Kept : j < i => source[j].label # source[i].label
         /\ \A i \in DOMAIN source : IsInsn(source[i]) => LegalInsn(i)
         /\ Place(Len(source) + 1) <= MaxInsns

-----------------------------------------------------------------------------
(* Properties *)

\* The second pass meets every label at the address the first one gave it:
\* what process_line() skips, counts and refuses is the same in both.
PassesAgree ==
  (phase = "pass2" /\ error_count = 0 /\ line <= Len(source)) =>
     LET t == source[line].label IN t \in DOMAIN labels => labels[t] = word_addr

\* The file holds the source's instructions in order; execute() takes each
\* branch to its label and gets each number and address that was written,
\* except that LI turns Half and more into a negative number.
WrittenMeansSource ==
  phase = "written" =>
     /\ Len(output.words) = Place(Len(source) + 1)
     /\ \A i \in DOMAIN source : IsInsn(source[i]) =>
          LET l == source[i]
              w == output.words[Place(i) + 1]
          IN  /\ w.op = l.mn
              /\ \A k \in 1 .. RegCount(l.mn) : w.reg[k] = RegNo[l.args[k]]
              /\ l.mn \in ImmOp =>
                   \/ SignExtend(w.imm) = Operand(i)
                   \/ l.mn = "LI" /\ Operand(i) >= Half /\ w.imm = Operand(i)
     /\ \A t \in DOMAIN output.symbols : output.symbols[t] = 8 * At(t)

\* The assembler writes a file for exactly the legal sources, and stops with
\* errors on all others: no error of one pass is lost, none is made up.
AcceptsExactly == /\ phase \in {"written", "unwritable"} => Legal
                  /\ phase = "failed" => ~Legal
=============================================================================
