------------------------------ MODULE GpuQueue ------------------------------
(***************************************************************************)
(* What the GPU's command interface promises: the commands the CPU submits *)
(* take effect one at a time, each once, in the order of submission.  A    *)
(* command whose payload is longer than the reader's buffer leaves the     *)
(* queue without effect.                                                   *)
(*                                                                         *)
(* A command is a record: its type, a value standing for its payload, the  *)
(* payload's length in 32-bit cells, and whether the memory range it names *)
(* lies inside the VRAM (fits).  One register stands for all slots of a    *)
(* kind.                                                                   *)
(***************************************************************************)
EXTENDS Naturals, Sequences

CONSTANTS Cmd,         \* the commands software submits
          BufCells     \* payloadBuf of gpusim_process(), in cells

VARIABLES queue,       \* submitted and not yet taken
          regs         \* the GPU's state; "image" is what was drawn last

Target ==              \* what a command of each type writes
    [BIND_SHADER |-> {"active"}, UPLOAD_SHADER |-> {"shader"}, UPLOAD_UB |-> {"uniform"},
     SET_VIEWPORT |-> {"viewport"}, SET_SCISSOR |-> {"scissor"}, SET_RASTER |-> {"raster"},
     SET_DEPTH |-> {"depth"}, FENCE |-> {"debug"}, UPLOAD_VB |-> {"vram"},
     UPLOAD_IB |-> {"vram"}, UPLOAD_TEX |-> {"vram", "texture"}, BIND_TEX |-> {"texture"}]
Ranged == {"UPLOAD_VB", "UPLOAD_IB", "UPLOAD_TEX", "BIND_TEX"}     \* checked against vramSize
Draws  == {"CLEAR", "DRAW", "DRAW_INDEXED", "FILL_RECT"}
Reg    == UNION {Target[t] : t \in DOMAIN Target}

ExecCmd(r, c) ==       \* gpusim_exec_cmd(); the other types do nothing
    IF c.type \in DOMAIN Target /\ (c.type \in Ranged => c.fits)
    THEN [s \in DOMAIN r |-> IF s \in Target[c.type] THEN c.val ELSE r[s]]
    ELSE IF c.type \in Draws THEN [r EXCEPT !["image"] = <<c.val, [s \in Reg |-> r[s]]>>]
    ELSE r

CtrlReset(r) == [r EXCEPT !["active"] = 0]

Oversize(c) == c.len > BufCells

NewRegs == [s \in Reg \union {"image"} |-> 0]

-----------------------------------------------------------------------------
QInit == queue = << >> /\ regs = NewRegs

QSubmit == \E c \in Cmd : queue' = Append(queue, c) /\ regs' = regs

QTake == /\ queue # << >>
         /\ queue' = Tail(queue)
         /\ regs' = IF Oversize(Head(queue)) THEN regs ELSE ExecCmd(regs, Head(queue))

QReset == queue' = queue /\ regs' = CtrlReset(regs)

QNext == QSubmit \/ QTake \/ QReset

QSpec == QInit /\ [][QNext]_<<queue, regs>>
=============================================================================
