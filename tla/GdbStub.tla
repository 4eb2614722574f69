------------------------------ MODULE GdbStub ------------------------------
(***************************************************************************)
(* The remote debugging stub, gdb_stub.c, over the simulator's pipeline:   *)
(* rsp_loop() with its handlers, and the client at the other end of the    *)
(* TCP connection.  The connection keeps the order and loses nothing; a    *)
(* packet fails its checksum only because it is longer than the stub's     *)
(* buffer.  The client sends one command at a time, again when it is told  *)
(* to or when no acknowledgement comes in time, and may hang up.           *)
(***************************************************************************)
EXTENDS NovaPipe, Sequences, FiniteSets

CONSTANTS
  Session,        \* what the client may send in a session, how often, and repeat
  MaxBreakpoints, \* MAX_BREAKPOINTS
  MaxTries        \* how often the client sends one command

ASSUME StubAssumption ==
  /\ MaxBreakpoints \in Nat /\ MaxTries \in Nat \ {0}
  /\ \A s \in Session : /\ s.most \in Nat /\ s.repeats \in Nat
                          /\ \A c \in s.commands : c.addr \in 0 .. A /\ c.reg \in Reg
                                                  /\ c.val \in Word /\ c.long \in BOOLEAN

VARIABLES
  session,
  client,         \* "idle", waiting for "ack" or "answer", or "gone"
  cmd,            \* its last command
  tries,          \* how often it has sent it
  commands,       \* how many it has sent
  believed,       \* the breakpoints it believes set
  surplus,        \* answers to come that nobody waits for
  confused,       \* there has been one
  down, up,       \* bytes on the way to the stub, and back
  stub,           \* "recv", "continue", "closed"
  bp_table

clientVars == <<session, client, cmd, tries, commands, believed, surplus, confused>>
stubVars == <<clientVars, down, up, stub, bp_table>>
allVars == <<vars, stubVars>>

Acks == {"+", "-"}
Breakpoints == {bp_table[k] : k \in DOMAIN bp_table}

Nothing == [op |-> "none", addr |-> 0, reg |-> 0, val |-> 0, long |-> FALSE]

StubInit == /\ Init /\ session \in Session
            /\ client = "idle" /\ cmd = Nothing /\ tries = 0
            /\ commands = 0 /\ believed = {} /\ surplus = 0 /\ confused = FALSE
            /\ down = << >> /\ up = << >> /\ stub = "recv" /\ bp_table = << >>

-----------------------------------------------------------------------------
(* The client *)

Send(c) == /\ client = "idle" /\ commands < session.most
           /\ client' = "ack" /\ cmd' = c /\ tries' = 1 /\ commands' = commands + 1
           /\ down' = Append(down, c)
           /\ UNCHANGED <<believed, surplus, confused>>

Resend == /\ tries < MaxTries /\ tries' = tries + 1
          /\ down' = Append(down, cmd)
          /\ surplus' = IF cmd.long THEN surplus ELSE surplus + 1
          /\ confused' = (confused \/ ~cmd.long)
          /\ UNCHANGED <<client, cmd, commands, believed>>

Timeout == client = "ack" /\ surplus < session.repeats /\ Resend /\ UNCHANGED up

Ready == client' = "idle" /\ cmd' = Nothing /\ tries' = 0

GiveUp == /\ tries = MaxTries /\ Ready
          /\ surplus' = IF cmd.long THEN surplus ELSE surplus + 1
          /\ confused' = (confused \/ ~cmd.long)
          /\ UNCHANGED <<commands, believed, down>>

TakeAck == /\ up # << >> /\ Head(up) \in Acks /\ up' = Tail(up)
           /\ \/ /\ client = "ack" /\ Head(up) = "+" /\ client' = "answer"
                 /\ UNCHANGED <<cmd, tries, commands, believed, surplus, confused, down>>
              \/ client = "ack" /\ Head(up) = "-" /\ (Resend \/ GiveUp)
              \/ client = "answer" /\ UNCHANGED <<clientVars, down>>

TakeAnswer ==
  /\ client = "answer" /\ up # << >> /\ Head(up) \notin Acks
  /\ up' = Tail(up) /\ Ready
  /\ believed' = IF Head(up) # "OK" THEN believed
                 ELSE IF cmd.op = "Z" THEN believed \cup {cmd.addr}
                 ELSE IF cmd.op = "z" THEN believed \ {cmd.addr} ELSE believed
  /\ surplus' = IF cmd.long THEN surplus - 1 ELSE surplus
  /\ UNCHANGED <<commands, confused, down>>

\* What the stub still sends is lost.
HangUp == /\ client \in {"ack", "answer"} /\ client' = "gone"
          /\ cmd' = Nothing /\ tries' = 0 /\ commands' = session.most /\ believed' = {}
          /\ surplus' = 0 /\ confused' = TRUE /\ up' = << >> /\ UNCHANGED down

Client == /\ (\E c \in session.commands : Send(c) /\ UNCHANGED up) \/ Timeout \/ TakeAck
             \/ TakeAnswer \/ HangUp
          /\ UNCHANGED <<vars, session, stub, bp_table>>

-----------------------------------------------------------------------------
(* The stub: rsp_recv_packet() takes a packet, a handler answers it *)

Receive(c) == /\ stub = "recv" /\ down # << >>
              /\ c = Head(down) /\ down' = Tail(down)
              /\ UNCHANGED clientVars

Accept(c, op) == Receive(c) /\ ~c.long /\ c.op = op
Sent(s) == up' = IF client = "gone" THEN up ELSE up \o s
Answer(a) == Sent(<<"+", a>>)
Idle == UNCHANGED <<vars, stub, bp_table>>

\* What does not fit the buffer is cut off and fails the checksum.
Refuse(c) == Receive(c) /\ c.long /\ Sent(<<"-">>) /\ Idle

\* Variant: a command the stub does not know gets no answer.
AskSilent(c) == Accept(c, "?") /\ Sent(<<"+">>) /\ Idle
\* '?', 'g', 'm', 'q', 'H', and what the stub does not know: nothing changes.
Ask(c) == Accept(c, "?") /\ Answer("data") /\ Idle

\* Variant: the registers are written behind the pipeline's back.
WriteRegsKeeping(c) == /\ Accept(c, "G") /\ Answer("OK")
                       /\ WriteReg(c.reg, c.val) /\ pc' = IF c.addr < A THEN c.addr ELSE pc
                       /\ UNCHANGED <<mem, halted, io, pipe, stub, bp_table>>
WriteRegs(c) == /\ Accept(c, "G") /\ Answer("OK")
                /\ WriteReg(c.reg, c.val) /\ Flush
                /\ pc' = IF c.addr < A THEN c.addr ELSE pc
                /\ UNCHANGED <<mem, halted, io, stub, bp_table>>

\* A 'G' packet that ends behind a register, before the PC: nothing is flushed.
WriteSomeRegs(c) == /\ Accept(c, "G short") /\ Answer("OK")
                    /\ WriteReg(c.reg, c.val)
                    /\ UNCHANGED <<pc, pipe, mem, halted, io, stub, bp_table>>

WriteMem(c) == /\ Accept(c, "M")
               /\ IF c.addr < A THEN Answer("OK") /\ mem' = [mem EXCEPT ![c.addr] = c.val]
                  ELSE Answer("E01") /\ UNCHANGED mem
               /\ UNCHANGED <<pc, regs, halted, pipe, io, stub, bp_table>>

Step(c) == /\ Accept(c, "s") /\ Answer("S05")
           /\ CpuStep \/ (halted /\ UNCHANGED vars)
           /\ UNCHANGED <<stub, bp_table>>

bp_add(c) == /\ Accept(c, "Z")
             /\ IF c.addr \in Breakpoints THEN Answer("OK") /\ UNCHANGED bp_table
                ELSE IF Len(bp_table) >= MaxBreakpoints THEN Answer("E01") /\ UNCHANGED bp_table
                ELSE Answer("OK") /\ bp_table' = Append(bp_table, c.addr)
             /\ UNCHANGED <<vars, stub>>

Shortened == SubSeq(bp_table, 1, Len(bp_table) - 1)

\* Variant: the last entry is not moved into the hole.
RemovedLast(k) == Shortened
Removed(k) == IF k = Len(bp_table) THEN Shortened
              ELSE [Shortened EXCEPT ![k] = bp_table[Len(bp_table)]]

bp_remove(c) == /\ Accept(c, "z")
                /\ \/ /\ c.addr \notin Breakpoints
                      /\ Answer("E01") /\ UNCHANGED bp_table
                   \/ \E k \in DOMAIN bp_table :
                        bp_table[k] = c.addr /\ Answer("OK") /\ bp_table' = Removed(k)
                /\ UNCHANGED <<vars, stub>>

\* The loop begins; a CPU that has halted is answered at once.
Continue(c) == /\ Accept(c, "c")
               /\ IF halted THEN Answer("S05") /\ UNCHANGED stub
                  ELSE Sent(<<"+">>) /\ stub' = "continue"
               /\ UNCHANGED <<vars, bp_table>>

\* One turn of the loop: no byte is read before it ends.
ContinueStep == /\ stub = "continue" /\ CpuStep
                /\ IF halted' \/ pc' \in Breakpoints
                   THEN stub' = "recv" /\ Sent(<<"S05">>)
                   ELSE UNCHANGED <<stub, up>>
                /\ UNCHANGED <<clientVars, down, bp_table>>

Kill == halted' = TRUE /\ UNCHANGED <<pc, regs, mem, pipe, io>>

KillAnswer(c) == /\ Accept(c, "k") /\ Kill /\ Sent(<<"+", "+">>)
                 /\ stub' = "closed" /\ UNCHANGED bp_table

EndOfStream == /\ stub = "recv" /\ client = "gone" /\ down = << >>
               /\ stub' = "closed"
               /\ UNCHANGED <<vars, clientVars, down, up, bp_table>>

Handle(c) == \/ Refuse(c) \/ Ask(c) \/ WriteRegs(c) \/ WriteSomeRegs(c) \/ WriteMem(c)
             \/ Step(c) \/ bp_add(c) \/ bp_remove(c) \/ Continue(c) \/ KillAnswer(c)

StubNext == Client \/ (\E c \in {down[k] : k \in DOMAIN down} : Handle(c)) \/ ContinueStep \/ EndOfStream

StubSpec == StubInit /\ [][StubNext]_allVars

-----------------------------------------------------------------------------
(* Properties *)

Command == (UNION {s.commands : s \in Session}) \cup {Nothing}
Fitting == {c \in Command : ~c.long}
Replies == {"data", "OK", "E01", "S05"}
Count(s, X) == Cardinality({k \in DOMAIN s : s[k] \in X})

\* Every packet that fits is answered once: what is on its way is what the client waits
\* for and one stale answer for each packet it repeated, which it will take
\* for the answer to a later command.
AnswersCounted ==
  (stub # "closed" /\ client # "gone") =>
     Count(down, Fitting) + (IF stub = "continue" THEN 1 ELSE 0) + Count(up, Replies)
       = surplus + (IF client \in {"ack", "answer"} /\ ~cmd.long THEN 1 ELSE 0)

\* While the client has repeated nothing, a CPU that was told to continue
\* does not run past a breakpoint the client believes set.
BreakpointsHold ==
  [][(ContinueStep /\ ~confused /\ pc' \in believed) => stub' = "recv"]_allVars
=============================================================================
