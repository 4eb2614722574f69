--------------------------- MODULE GravCmdProofs ---------------------------
(***************************************************************************)
(* For every set of objects and every application: a submission uses a     *)
(* handle that points to nothing only if the recorded commands reach an    *)
(* object that was destroyed, or one whose creation failed and left its     *)
(* handle uninitialised; it makes the draws that were recorded with the     *)
(* settings that were, its lines join their ends, and in a cleared          *)
(* pass every pixel shows the nearest surface that covers it.               *)
(*                                                                         *)
(* What a draw uses is in the state that the commands before it have set;  *)
(* the argument carries each handle back to the command that holds it, and *)
(* each field of the state to the last command that gave it.  Lines and     *)
(* triangles follow by induction on the turns of Bresenham's loop and on     *)
(* the triangles of a draw, pixels by the identity behind the barycentric   *)
(* coordinates.                                                             *)
(***************************************************************************)
EXTENDS GravCmd, WellFoundedInduction, TLAPS

Made == {session.setup[k] : k \in 1 .. created}

\* What a command buffer may hold.
Menu(s) == UNION {s.menu[k] : k \in 1 .. Len(s.menu)}
UniformCommands == [type : {"SET_UNIFORMS"}, size : Nat, data : Nat]
Recordable == (UNION {Menu(s) : s \in Session}) \cup UniformCommands

\* A handle that was not NULL when the command was recorded.
Valid(h) == h \in Made \ null
Sound(c) == /\ Typed(c) /\ Named(c) \subseteq Made \cup {NULL}
            /\ \A h \in Checked(c) : Handle(h) # NULL

Setting == /\ session \in Session
           /\ created \in 0 .. Len(session.setup)
           /\ memory \in Nat /\ budget \in [commands : Nat, submissions : Nat, updates : Nat]
           /\ null \subseteq Made /\ wild \subseteq Made
           /\ session.initialised => wild = {}

\* The shader of a pipeline that was created was created before.
Shaded == \A o \in Made \ (null \cup wild) : Kind(o) = "pipeline" => Handle(Info[o].shader) # NULL

Recording == /\ cmds = accepted /\ cmds \in Seq(Recordable)
             /\ at \in Nat /\ at <= Len(cmds) + 1
             /\ ~Ready => ~recording /\ cmds = << >> /\ at = 0
             /\ \A i \in DOMAIN cmds : Sound(cmds[i])

HeldAs(h, kind) == h = NULL \/ (h \in Held /\ Valid(h) /\ Kind(h) = kind)
HeldAny(h) == h = NULL \/ (h \in Held /\ Valid(h))

\* What is bound came from a command of this buffer.
Bindings(s) == /\ {"pipeline", "framebuffer", "vertexBuffer", "indexBuffer"} \subseteq DOMAIN s
               /\ HeldAs(s.pipeline, "pipeline") /\ s.pipeline \notin wild
               /\ HeldAs(s.framebuffer, "framebuffer")
               /\ HeldAny(s.vertexBuffer)
               /\ HeldAny(s.indexBuffer)
BoundHeld == at > 0 => Bindings(state)

IInv == Setting /\ Shaded /\ Recording /\ BoundHeld /\ OnlyStrayHandlesHurt

-----------------------------------------------------------------------------
(* What a command uses *)

LEMMA MadeFact ==
    ASSUME Setting
    PROVE  /\ Made \subseteq Objects /\ NULL \notin Made
           /\ Ready => Made = Range(session.setup)
           /\ \A o \in Made : Led(o) \subseteq Made \cup {NULL}
  <1>1. session.setup \in Seq(Objects) /\ DOMAIN session.setup = 1 .. Len(session.setup)
    BY GravAssumption DEF Setting
  <1>2. Made \subseteq Objects
    BY <1>1 DEF Made, Setting
  <1>3. ASSUME NEW o \in Made PROVE Led(o) \subseteq Made \cup {NULL}
    <2>1. PICK k \in 1 .. created : o = session.setup[k]
      BY DEF Made
    <2>2. k \in DOMAIN session.setup
      BY <1>1 DEF Setting
    <2>3. Led(o) \subseteq {session.setup[j] : j \in 1 .. k - 1} \cup {NULL}
      BY <2>1, <2>2, GravAssumption DEF Setting
    <2>4. 1 .. k - 1 \subseteq 1 .. created
      BY DEF Setting
    <2> QED
      BY <2>3, <2>4 DEF Made
  <1>4. Ready => Made = Range(session.setup)
    BY <1>1 DEF Made, Ready, Range
  <1> QED
    BY <1>2, <1>3, <1>4, GravAssumption

\* A handle that a command holds is Held, and so is what it leads to Reached.
LEMMA HeldFact ==
    ASSUME Setting, Recording, NEW i \in DOMAIN cmds, NEW h \in Named(cmds[i]), Handle(h) # NULL
    PROVE  h \in Held /\ Valid(h) /\ Handle(h) = h
  BY DEF Recording, Held, Sound, Handle, Valid

LEMMA LedFact ==
    ASSUME Setting, NEW o \in Held, Valid(o), NEW h \in Led(o), Handle(h) # NULL
    PROVE  h \in Reached /\ Valid(h) /\ Handle(h) = h
  <1>1. h \in Made \cup {NULL}
    BY MadeFact DEF Valid
  <1> QED
    BY <1>1 DEF Reached, Handle, Valid

LEMMA PassTouchesFact ==
    ASSUME IInv, NEW i \in DOMAIN cmds, cmds[i].type = "BEGIN_RENDER_PASS", NEW h \in PassTouches(cmds[i])
    PROVE  h \in Reached /\ Valid(h)
  <1> DEFINE c == cmds[i]
  <1>1. {c.renderPass, c.framebuffer} = Named(c)
    BY DEF Named
  <1>2. Handle(c.framebuffer) # NULL
    BY DEF PassTouches
  <1>3. c.framebuffer \in Held /\ Valid(c.framebuffer)
    BY <1>1, <1>2, HeldFact DEF IInv
  <1>4. Handle(c.renderPass) # NULL => c.renderPass \in Held /\ Valid(c.renderPass) /\ Handle(c.renderPass) = c.renderPass
    BY <1>1, HeldFact DEF IInv
  <1>5. Kind(c.framebuffer) = "framebuffer"
    BY <1>2 DEF IInv, Recording, Sound, Typed, IsA, Handle
  <1>6. Info[c.framebuffer].colorImage \in Led(c.framebuffer) /\ Info[c.framebuffer].depthImage \in Led(c.framebuffer)
    BY <1>5 DEF Led
  <1>7. \A a \in {"colorImage", "depthImage"} : \A x \in Cleared(c, a) : x \in Reached /\ Valid(x)
    BY <1>3, <1>6, LedFact DEF Cleared, IInv
  <1> QED
    BY <1>2, <1>3, <1>4, <1>7 DEF PassTouches, Reached

LEMMA DrawTouchesFact ==
    ASSUME IInv, at > 0, NEW c, NEW h \in DrawTouches(c)
    PROVE  h \in Reached /\ Valid(h)
  <1>1. \A x \in Buffers(c) : HeldAny(x)
    BY DEF IInv, BoundHeld, Bindings, Buffers
  <1>2. ASSUME h \in Buffers(c) PROVE h \in Reached /\ Valid(h)
    BY <1>1, <1>2 DEF HeldAny, DrawTouches, Reached
  <1>3. ASSUME ~NoTarget, h \in {state.framebuffer, state.pipeline} PROVE h \in Reached /\ Valid(h)
    BY <1>3 DEF NoTarget, IInv, BoundHeld, Bindings, HeldAs, Reached
  <1>4. ASSUME Shows(c), h \in TriangleTouches(c) PROVE h \in Reached /\ Valid(h)
    <2>1. state.pipeline \in Held /\ Valid(state.pipeline) /\ Kind(state.pipeline) = "pipeline"
      BY <1>4 DEF Shows, NoTarget, IInv, BoundHeld, Bindings, HeldAs
    <2>2. state.framebuffer # NULL /\ state.framebuffer \in Held /\ Valid(state.framebuffer) /\ Kind(state.framebuffer) = "framebuffer"
      BY <1>4 DEF Shows, NoTarget, IInv, BoundHeld, Bindings, HeldAs
    <2>3. Info[state.pipeline].shader \in Led(state.pipeline)
      BY <2>1 DEF Led
    <2>4. Handle(Info[state.pipeline].shader) # NULL
      BY <2>1 DEF IInv, Shaded, Valid, BoundHeld, Bindings
    <2>5. /\ Info[state.framebuffer].colorImage \in Led(state.framebuffer)
          /\ Info[state.framebuffer].depthImage \in Led(state.framebuffer)
      BY <2>2 DEF Led
    <2>6. Color = Handle(Info[state.framebuffer].colorImage) /\ Depth = Handle(Info[state.framebuffer].depthImage)
      BY <2>2 DEF Color, Depth, Attached
    <2>7. Color # NULL
      BY <1>4 DEF Shows
    <2>8. h = Handle(Info[state.pipeline].shader) \/ h = Color \/ (h = Depth /\ Depth # NULL)
      BY <1>4 DEF TriangleTouches
    <2>9. CASE h = Handle(Info[state.pipeline].shader)
      BY <2>9, <2>1, <2>3, <2>4, LedFact DEF IInv
    <2>10. CASE h = Color
      BY <2>10, <2>2, <2>5, <2>6, <2>7, LedFact DEF IInv
    <2>11. CASE h = Depth /\ Depth # NULL
      BY <2>11, <2>2, <2>5, <2>6, LedFact DEF IInv
    <2> QED
      BY <2>8, <2>9, <2>10, <2>11
  <1> QED
    BY <1>2, <1>3, <1>4 DEF DrawTouches

\* Whatever a step of the submission uses was valid when it was recorded.
LEMMA TouchedFact ==
    ASSUME IInv, at > 0, NEW i \in DOMAIN cmds, NEW h \in Touched(cmds[i])
    PROVE  h \in Reached /\ Valid(h)
  <1> DEFINE c == cmds[i]
  <1>1. CASE c.type = "BEGIN_RENDER_PASS"
    BY <1>1, PassTouchesFact DEF Touched
  <1>2. CASE c.type = "BIND_PIPELINE"
    <2>1. h = c.pipeline /\ h \in Named(c) /\ h \in Checked(c)
      BY <1>2 DEF Touched, Named, Checked
    <2> QED
      BY <2>1, HeldFact DEF IInv, Recording, Sound, Reached
  <1>3. CASE c.type = "CLEAR_COLOR_IMAGE"
    <2>1. h = c.image /\ h \in Named(c) /\ h \in Checked(c)
      BY <1>3 DEF Touched, Named, Checked
    <2> QED
      BY <2>1, HeldFact DEF IInv, Recording, Sound, Reached
  <1>4. CASE c.type \in {"DRAW", "DRAW_INDEXED"}
    <2>1. h \in DrawTouches(c)
      BY <1>4 DEF Touched
    <2> QED
      BY <2>1, DrawTouchesFact
  <1>5. CASE c.type \notin {"BEGIN_RENDER_PASS", "BIND_PIPELINE", "CLEAR_COLOR_IMAGE", "DRAW", "DRAW_INDEXED"}
    <2>1. Touched(c) = {}
      BY <1>5 DEF Touched
    <2> QED
      BY <2>1
  <1> QED
    BY <1>1, <1>2, <1>3, <1>4, <1>5

-----------------------------------------------------------------------------
(* The steps *)

LEMMA InitInv == Init => IInv
  <1> SUFFICES ASSUME Init PROVE IInv
    OBVIOUS
  <1>1. Len(session.setup) \in Nat
    BY GravAssumption DEF Init
  <1>2. Made = {}
    BY DEF Init, Made
  <1>3. cmds = << >> /\ cmds \in Seq(Recordable) /\ DOMAIN cmds = {}
    BY DEF Init
  <1> QED
    BY <1>1, <1>2, <1>3 DEF Init, IInv, Setting, Shaded, Recording, BoundHeld, OnlyStrayHandlesHurt

\* Creating an object leaves those that were created before as they are.
LEMMA CreateInv ==
    ASSUME IInv, Create
    PROVE  IInv'
  <1> DEFINE o == session.setup[created + 1]
  <1>1. /\ session.setup \in Seq(Objects) /\ DOMAIN session.setup = 1 .. Len(session.setup)
        /\ created \in Nat /\ created + 1 \in DOMAIN session.setup
    BY GravAssumption DEF IInv, Setting, Create, Ready
  <1>2. Made' = Made \cup {o}
    BY <1>1 DEF Made, Create
  <1>3. Made = {session.setup[j] : j \in 1 .. (created + 1) - 1}
    BY <1>1 DEF Made
  <1>4. o \notin Made /\ Led(o) \subseteq Made \cup {NULL}
    BY <1>1, <1>3, GravAssumption DEF IInv, Setting
  <1>5. /\ null \subseteq null' /\ null' \subseteq null \cup {o}
        /\ wild \subseteq wild' /\ wild' \subseteq wild \cup {o}
        /\ Complete(o) \/ o \in null' \cup wild'
        /\ session.initialised => wild' = wild
    BY DEF Create, Unwritten
  <1>6. Setting'
    BY <1>1, <1>2, <1>5 DEF IInv, Setting, Create
  <1>7. Shaded'
    <2> SUFFICES ASSUME NEW p \in Made' \ (null' \cup wild'), Kind(p) = "pipeline"
                 PROVE  Handle(Info[p].shader)' # NULL
      BY DEF Shaded
    <2>1. Info[p].shader \in Led(p)
      BY DEF Led
    <2>2. CASE p = o
      BY <2>2, <1>5 DEF Complete, Handle
    <2>3. CASE p \in Made
      <3>1. p \notin null \cup wild /\ Handle(Info[p].shader) # NULL
        BY <2>3, <1>5 DEF IInv, Shaded
      <3>2. Info[p].shader \in Made \cup {NULL}
        BY <2>1, <2>3, MadeFact DEF IInv
      <3>3. Info[p].shader # o
        BY <3>1, <3>2, <1>4 DEF Handle
      <3> QED
        BY <3>1, <3>3, <1>5 DEF Handle
    <2> QED
      BY <2>2, <2>3, <1>2
  <1>8. cmds = << >> /\ at = 0 /\ ~recording /\ ~undefined /\ UNCHANGED <<cmds, accepted, at, recording, undefined>>
    BY DEF Create, Calls, IInv, Recording, bufferVars
  <1>9. DOMAIN cmds' = {}
    BY <1>8
  <1>10. Recording'
    BY <1>8, <1>9 DEF IInv, Recording
  <1> QED
    BY <1>6, <1>7, <1>8, <1>10 DEF IInv, BoundHeld, OnlyStrayHandlesHurt

\* What the invariant says of objects, as long as none is created.
LEMMA SettingKept ==
    ASSUME IInv, UNCHANGED <<session, created, null, wild>>, memory' \in Nat,
           budget' \in [commands : Nat, submissions : Nat, updates : Nat]
    PROVE  /\ Setting' /\ Shaded' /\ Made' = Made /\ (Ready' <=> Ready)
           /\ \A c : Sound(c)' <=> Sound(c)
  <1>1. Made' = Made /\ (Ready' <=> Ready)
    BY DEF Made, Ready
  <1>2. \A h : Handle(h)' = Handle(h)
    BY DEF Handle
  <1>3. Setting' /\ Shaded'
    BY <1>1, <1>2 DEF IInv, Setting, Shaded
  <1>4. ASSUME NEW c PROVE Sound(c)' <=> Sound(c)
    BY <1>1, <1>2 DEF Sound
  <1> QED
    BY <1>1, <1>3, <1>4

\* A command that is recorded holds handles of the application that were good then.
LEMMA RecordedFact ==
    ASSUME IInv, NEW c \in Offered, Record(c)
    PROVE  Stored(c) \in Recordable /\ Sound(Stored(c))
  <1>1. PICK k \in 1 .. Len(session.menu) : c \in session.menu[k]
    <2>1. c \in session.menu[budget.commands + 1] /\ budget.commands < Len(session.menu)
      BY DEF Offered
    <2>2. budget.commands \in Nat /\ Len(session.menu) \in Nat
      BY GravAssumption DEF IInv, Setting
    <2> QED
      BY <2>1, <2>2
  <1>2. session \in Session
    BY DEF IInv, Setting
  <1>3. Typed(c) /\ Named(c) \subseteq Range(session.setup) \cup {NULL}
    BY <1>1, <1>2, GravAssumption
  <1>4. Named(c) \subseteq Made \cup {NULL}
    <2>1. Ready
      BY DEF Record, IInv, Recording
    <2> QED
      BY <1>3, <2>1, MadeFact DEF IInv
  <1>5. \A h \in Checked(c) : Handle(h) # NULL
    BY DEF Record, Refused
  <1>6. c \in Recordable
    <2>1. c \in Menu(session)
      BY <1>1 DEF Menu
    <2> QED
      BY <1>2, <2>1 DEF Recordable
  <1>7. CASE c.type = "SET_UNIFORMS"
    <2>1. c \in [type : {"SET_UNIFORMS"}, size : Nat, data : Nat]
      BY <1>3, <1>7 DEF Typed
    <2>2. Stored(c) \in [type : {"SET_UNIFORMS"}, size : Nat, data : Nat] /\ Stored(c).type = "SET_UNIFORMS"
      BY <1>7, <2>1 DEF Stored, IInv, Setting
    <2>3. Named(Stored(c)) = {} /\ Checked(Stored(c)) = {} /\ Typed(Stored(c))
      BY <2>2 DEF Named, Checked, Typed
    <2>4. Stored(c) \in Recordable
      BY <2>2 DEF Recordable, UniformCommands
    <2> QED
      BY <2>3, <2>4 DEF Sound
  <1>8. CASE c.type # "SET_UNIFORMS"
    <2>1. Stored(c) = c
      BY <1>8 DEF Stored
    <2> QED
      BY <2>1, <1>3, <1>4, <1>5, <1>6 DEF Sound
  <1> QED
    BY <1>7, <1>8

\* The application records: nothing is bound, and nothing is used.
LEMMA RecordingInv ==
    ASSUME IInv,
           gravBeginCommandBuffer \/ gravEndCommandBuffer \/ gravResetCommandBuffer
             \/ \E c \in Offered : Record(c)
    PROVE  IInv'
  <1>1. at = 0 /\ ~undefined /\ UNCHANGED <<session, created, null, wild, gone, memory, at, undefined>>
    BY DEF gravBeginCommandBuffer, gravEndCommandBuffer, gravResetCommandBuffer, Record, Calls, appVars, submitVars
  <1>2. budget' \in [commands : Nat, submissions : Nat, updates : Nat] /\ memory' \in Nat
    BY DEF gravBeginCommandBuffer, gravEndCommandBuffer, gravResetCommandBuffer, Record, appVars, Spend, IInv, Setting
  <1>3. /\ Setting' /\ Shaded' /\ (Ready' <=> Ready)
        /\ \A c : Sound(c)' <=> Sound(c)
    BY <1>1, <1>2, SettingKept
  <1>4. Ready
    BY DEF gravBeginCommandBuffer, gravEndCommandBuffer, gravResetCommandBuffer, Record, IInv, Recording
  <1>5. cmds' = accepted' /\ cmds' \in Seq(Recordable) /\ \A i \in DOMAIN cmds' : Sound(cmds'[i])
    <2>1. CASE cmds' = << >> /\ accepted' = << >>
      BY <2>1
    <2>2. CASE UNCHANGED <<cmds, accepted>>
      BY <2>2 DEF IInv, Recording
    <2>3. ASSUME NEW c \in Offered, Record(c) 
          PROVE  cmds' = accepted' /\ cmds' \in Seq(Recordable) /\ \A i \in DOMAIN cmds' : Sound(cmds'[i])
      <3>1. Stored(c) \in Recordable /\ Sound(Stored(c)) /\ cmds \in Seq(Recordable)
        BY <2>3, RecordedFact DEF IInv, Recording
      <3>2. cmds' = Append(cmds, Stored(c)) /\ accepted' = cmds'
        BY <2>3 DEF Record, IInv, Recording
      <3>3. \A i \in DOMAIN cmds' : cmds'[i] = Stored(c) \/ (i \in DOMAIN cmds /\ cmds'[i] = cmds[i])
        BY <3>1, <3>2
      <3> QED
        BY <3>1, <3>2, <3>3 DEF IInv, Recording
    <2> QED
      BY <2>1, <2>2, <2>3 DEF gravBeginCommandBuffer, gravEndCommandBuffer, gravResetCommandBuffer
  <1>6. Recording'
    BY <1>1, <1>3, <1>4, <1>5 DEF IInv, Recording
  <1> QED
    BY <1>1, <1>3, <1>6 DEF IInv, BoundHeld, OnlyStrayHandlesHurt

\* What is bound stays held while the command buffer does.
LEMMA HeldKept ==
    ASSUME UNCHANGED <<session, created, null, wild, cmds, accepted>>
    PROVE  /\ Held' = Held /\ Reached' = Reached
           /\ (Bindings(state') => BoundHeld')
  <1>1. Held' = Held
    BY DEF Held
  <1>2. Made' = Made
    BY DEF Made
  <1> QED
    BY <1>1, <1>2 DEF Reached, BoundHeld, Bindings, HeldAs, HeldAny, Valid

\* A command binds only what it holds, and a pipeline only when it is there.
LEMMA StepBinds ==
    ASSUME IInv, at > 0, NEW i \in DOMAIN cmds, Touched(cmds[i]) \subseteq Live, Step(cmds[i])
    PROVE  Bindings(state')
  <1> DEFINE c == cmds[i]
  <1>0. Bindings(state)
    BY DEF IInv, BoundHeld
  <1>1. CASE BeginRenderPass(c)
    <2>1. c.framebuffer \in Named(c) /\ IsA(c.framebuffer, "framebuffer")
      BY <1>1 DEF BeginRenderPass, Named, IInv, Recording, Sound, Typed
    <2>2. HeldAs(Handle(c.framebuffer), "framebuffer")
      BY <2>1, HeldFact DEF IInv, HeldAs, IsA, Handle
    <2> QED
      BY <1>0, <1>1, <2>2 DEF BeginRenderPass, Bindings
  <1>2. CASE BindPipeline(c)
    <2>1. c.pipeline \in Named(c) /\ c.pipeline \in Checked(c) /\ IsA(c.pipeline, "pipeline")
      BY <1>2 DEF BindPipeline, Named, Checked, IInv, Recording, Sound, Typed
    <2>2. HeldAs(c.pipeline, "pipeline")
      BY <2>1, HeldFact DEF IInv, Recording, Sound, HeldAs, IsA
    <2>3. c.pipeline \notin wild
      BY <1>2 DEF BindPipeline, Touched, Live
    <2> QED
      BY <1>0, <1>2, <2>2, <2>3 DEF BindPipeline, Bindings
  <1>3. CASE BindVertexBuffer(c) \/ BindIndexBuffer(c)
    <2>1. c.buffer \in Named(c) /\ c.buffer \in Checked(c)
      BY <1>3 DEF BindVertexBuffer, BindIndexBuffer, Named, Checked
    <2>2. HeldAny(c.buffer)
      BY <2>1, HeldFact DEF IInv, Recording, Sound, HeldAny
    <2> QED
      BY <1>0, <1>3, <2>2 DEF BindVertexBuffer, BindIndexBuffer, Bindings
  <1>4. CASE SetViewport(c) \/ SetScissor(c) \/ SetUniforms(c)
    BY <1>0, <1>4 DEF SetViewport, SetScissor, SetUniforms, Bindings
  <1>5. CASE EndRenderPass(c) \/ Draw(c) \/ ClearColorImage(c)
    BY <1>0, <1>5 DEF EndRenderPass, Draw, ClearColorImage, Bindings
  <1> QED
    BY <1>1, <1>2, <1>3, <1>4, <1>5 DEF Step

\* A submission, from the call to its return.
LEMMA SubmissionInv ==
    ASSUME IInv, Submit \/ Execute \/ Fault \/ Return
    PROVE  IInv'
  <1>1. UNCHANGED <<session, created, null, wild, gone, memory, recording, cmds, accepted>>
    BY DEF Submit, Execute, Fault, Return, appVars, bufferVars
  <1>2. budget' \in [commands : Nat, submissions : Nat, updates : Nat] /\ memory' \in Nat
    BY <1>1 DEF Submit, Execute, Fault, Return, appVars, Spend, IInv, Setting
  <1>3. /\ Setting' /\ Shaded' /\ (Ready' <=> Ready)
        /\ \A c : Sound(c)' <=> Sound(c)
    BY <1>1, <1>2, SettingKept
  <1>4. /\ Reached' = Reached
        /\ (Bindings(state') => BoundHeld')
    BY <1>1, HeldKept
  <1>5. at \in Nat /\ cmds \in Seq(Recordable) /\ DOMAIN cmds = 1 .. Len(cmds)
    BY DEF IInv, Recording
  <1>6. CASE Submit
    <2>1. BoundHeld'
      <3>1. NULL \notin wild
        BY MadeFact DEF IInv, Setting
      <3> QED BY <1>1, <1>6, <3>1 DEF Submit, BoundHeld, Bindings, Zeroed, HeldAs, HeldAny
    <2>2. Recording'
      BY <1>1, <1>3, <1>6 DEF Submit, IInv, Recording
    <2> QED
      BY <1>3, <1>4, <1>6, <2>1, <2>2 DEF Submit, IInv, OnlyStrayHandlesHurt, Calls
  <1>7. CASE Execute
    <2>1. /\ at \in DOMAIN cmds /\ at > 0 /\ at' = at + 1 /\ Step(cmds[at]) /\ undefined' = undefined
          /\ Touched(cmds[at]) \subseteq Live
      BY <1>5, <1>7 DEF Execute, Running
    <2>2. BoundHeld'
      BY <2>1, <1>4, StepBinds DEF BoundHeld
    <2>3. Recording'
      BY <1>1, <1>3, <1>5, <2>1 DEF IInv, Recording
    <2> QED
      BY <1>1, <1>3, <1>4, <2>1, <2>2, <2>3 DEF IInv, OnlyStrayHandlesHurt
  <1>8. CASE Fault
    <2>1. at \in DOMAIN cmds /\ at > 0 /\ UNCHANGED <<state, at>>
      BY <1>5, <1>8 DEF Fault, Running
    <2>2. PICK h \in Touched(cmds[at]) : h \notin Live
      BY <1>8 DEF Fault
    <2>3. h \in Reached /\ Valid(h)
      BY <2>1, <2>2, TouchedFact
    <2>4. h \in gone \cup wild
      BY <2>2, <2>3 DEF Live, Valid, Made
    <2>7. session.initialised => h \in gone
      BY <2>4 DEF IInv, Setting
    <2>5. BoundHeld'
      BY <2>1, <1>4 DEF BoundHeld, IInv
    <2>6. Recording'
      BY <1>1, <1>3, <2>1 DEF IInv, Recording
    <2> QED
      BY <1>1, <1>3, <1>4, <2>3, <2>4, <2>5, <2>6, <2>7 DEF IInv, OnlyStrayHandlesHurt
  <1>9. CASE Return
    <2>1. Recording' /\ BoundHeld'
      BY <1>1, <1>3, <1>9 DEF Return, IInv, Recording, BoundHeld
    <2> QED
      BY <1>3, <1>9, <2>1 DEF Return, IInv, OnlyStrayHandlesHurt
  <1> QED
    BY <1>6, <1>7, <1>8, <1>9

LEMMA NextInv == IInv /\ [Next]_vars => IInv'
  <1> SUFFICES ASSUME IInv, [Next]_vars PROVE IInv'
    OBVIOUS
  <1>1. CASE Create
    BY <1>1, CreateInv
  <1>2. CASE (\E o \in Objects : Destroy(o)) \/ Update
    <2>1. /\ UNCHANGED <<session, created, null, wild, recording, cmds, accepted, at, undefined>>
          /\ at = 0 /\ ~undefined
          /\ memory' \in Nat /\ budget' \in [commands : Nat, submissions : Nat, updates : Nat]
      <3>1. memory \in Nat /\ budget \in [commands : Nat, submissions : Nat, updates : Nat]
        BY DEF IInv, Setting
      <3>2. CASE \E o \in Objects : Destroy(o)
        BY <3>1, <3>2 DEF Destroy, Calls, bufferVars
      <3>3. CASE Update
        BY <3>1, <3>3 DEF Update, Calls, Spend, bufferVars, submitVars
      <3> QED
        BY <1>2, <3>2, <3>3
    <2>2. /\ Setting' /\ Shaded' /\ (Ready' <=> Ready)
          /\ \A c : Sound(c)' <=> Sound(c)
      BY <2>1, SettingKept
    <2>3. Recording'
      BY <2>1, <2>2 DEF IInv, Recording
    <2> QED
      BY <2>1, <2>2, <2>3 DEF IInv, BoundHeld, OnlyStrayHandlesHurt
  <1>3. CASE gravBeginCommandBuffer \/ gravEndCommandBuffer \/ gravResetCommandBuffer
               \/ \E c \in Offered : Record(c)
    BY <1>3, RecordingInv
  <1>4. CASE Submit \/ Execute \/ Fault \/ Return
    BY <1>4, SubmissionInv
  <1>5. CASE UNCHANGED vars
    <2>1. UNCHANGED <<session, created, null, wild, gone, memory, budget, recording, cmds, accepted, state, at, undefined>>
      BY <1>5 DEF vars, appVars, bufferVars, submitVars
    <2>2. /\ Setting' /\ Shaded' /\ (Ready' <=> Ready)
          /\ \A c : Sound(c)' <=> Sound(c)
      BY <2>1, SettingKept DEF IInv, Setting
    <2>3. /\ Reached' = Reached
          /\ (Bindings(state') => BoundHeld')
      BY <2>1, HeldKept
    <2>4. Recording' /\ BoundHeld'
      BY <2>1, <2>2, <2>3 DEF IInv, Recording, BoundHeld
    <2> QED
      BY <2>1, <2>2, <2>3, <2>4 DEF IInv, OnlyStrayHandlesHurt
  <1> QED
    BY <1>1, <1>2, <1>3, <1>4, <1>5 DEF Next

-----------------------------------------------------------------------------
\* A submission uses a bad handle only if the recorded commands reach something that was
\* destroyed, or something whose creation failed and whose variable the application had
\* not initialised: gravCreate*() leaves it as it was.  A handle that is NULL is refused or
\* skipped wherever it stands (gravSubmitCommandBuffer(), gravCmd*(), gravCreate*()).
THEOREM HandlesSafe == Spec => []OnlyStrayHandlesHurt
  <1>1. IInv => OnlyStrayHandlesHurt
    BY DEF IInv
  <1> QED
    BY <1>1, InitInv, NextInv, PTL DEF Spec

-----------------------------------------------------------------------------
(* The natural numbers: what stands in the place of the library's induction *)

Point == [x : Int, y : Int]

LEMMA Least ==
    ASSUME NEW T, T \subseteq Nat, T # {}
    PROVE  \E n \in T : \A m \in T : n <= m
<1>1. PICK n \in T : \A m \in T : ~(<<m, n>> \in OpToRel(<, Nat))
  BY NatLessThanWellFounded, WFMin, Zenon
<1>2. \A m \in T : ~(m < n)
  BY <1>1, Zenon DEF OpToRel
<1> QED BY <1>2

LEMMA Induction ==
    ASSUME NEW S, 0 \in S, \A n \in Nat : n \in S => n + 1 \in S
    PROVE  Nat \subseteq S
<1> SUFFICES ASSUME Nat \ S # {} PROVE FALSE
  OBVIOUS
<1>1. PICK n \in Nat \ S : \A m \in Nat \ S : n <= m
  BY Least
<1>2. n # 0 /\ n - 1 \in Nat
  BY <1>1
<1>3. n - 1 \in S
  BY <1>1, <1>2
<1> QED BY <1>1, <1>2, <1>3

-----------------------------------------------------------------------------
(* The last command of a kind *)

LEMMA MaxFact ==
  ASSUME NEW i \in Nat \ {0}, NEW S \in SUBSET (1 .. i - 1)
  PROVE  Max((S \cup {i}) \cup {0}) = i
<1> DEFINE T == (S \cup {i}) \cup {0}
<1>1. i \in T /\ \A y \in T : y \in Int /\ i >= y
  OBVIOUS
<1>2. \A x \in T : (\A y \in T : x >= y) => x = i
  BY <1>1
<1> HIDE DEF T
<1>3. (CHOOSE x \in T : \A y \in T : x >= y) = i
  BY <1>1, <1>2
<1> QED BY <1>3 DEF Max, T

LEMMA MaxNone == Max({} \cup {0}) = 0
BY DEF Max

LEMMA LastFirst == \A types : LastOf(1, types) = 0
<1> TAKE types
<1>1. {j \in 1 .. 1 - 1 : accepted[j].type \in types} = {}
  OBVIOUS
<1> QED BY <1>1, MaxNone DEF LastOf

LEMMA LastNext ==
  ASSUME NEW i \in Nat \ {0}
  PROVE  \A types : LastOf(i + 1, types) = IF accepted[i].type \in types THEN i ELSE LastOf(i, types)
<1> TAKE types
<1> DEFINE S(n) == {j \in 1 .. n - 1 : accepted[j].type \in types}
<1>1. S(i) \in SUBSET (1 .. i - 1)
  OBVIOUS
<1>2. CASE accepted[i].type \in types
  <2>1. S(i + 1) = S(i) \cup {i}
    BY <1>2
  <2>2. Max((S(i) \cup {i}) \cup {0}) = i
    <3> HIDE DEF S
    <3> QED BY <1>1, MaxFact
  <2> QED BY <1>2, <2>1, <2>2 DEF LastOf
<1>3. CASE accepted[i].type \notin types
  <2>1. S(i + 1) = S(i)
    BY <1>3
  <2> QED BY <1>3, <2>1 DEF LastOf
<1> QED BY <1>2, <1>3

\* It stands before the one in question, and is of that kind.
LEMMA LastIs ==
  ASSUME NEW i \in Nat \ {0}, NEW types
  PROVE  /\ LastOf(i, types) \in 0 .. i - 1
         /\ LastOf(i, types) # 0 => accepted[LastOf(i, types)].type \in types
<1> DEFINE Good(n) == /\ LastOf(n, types) \in 0 .. n - 1
                      /\ LastOf(n, types) # 0 => accepted[LastOf(n, types)].type \in types
           S == {n \in Nat : Good(n + 1)}
<1>1. 0 \in S
  BY LastFirst
<1>2. ASSUME NEW n \in Nat, n \in S PROVE n + 1 \in S
  <2>1. n + 1 \in Nat \ {0} /\ Good(n + 1)
    BY <1>2
  <2>2. LastOf((n + 1) + 1, types) = IF accepted[n + 1].type \in types THEN n + 1 ELSE LastOf(n + 1, types)
    BY <2>1, LastNext
  <2>3. Good((n + 1) + 1)
    BY <2>1, <2>2
  <2> HIDE DEF Good
  <2> QED BY <2>1, <2>3
<1>3. i - 1 \in S
  <2> HIDE DEF S
  <2> QED BY <1>1, <1>2, Induction
<1>4. (i - 1) + 1 = i
  OBVIOUS
<1> QED BY <1>3, <1>4

LEMMA CellFirst == \A k : UniformCell(1, k) = 0
<1> TAKE k
<1>1. {n \in 1 .. 1 - 1 : accepted[n].type = "SET_UNIFORMS" /\ accepted[n].size >= k} = {}
  OBVIOUS
<1> QED BY <1>1, MaxNone DEF UniformCell

LEMMA CellNext ==
  ASSUME NEW i \in Nat \ {0}
  PROVE  \A k : UniformCell(i + 1, k) =
           IF accepted[i].type = "SET_UNIFORMS" /\ accepted[i].size >= k THEN accepted[i].data
           ELSE UniformCell(i, k)
<1> TAKE k
<1> DEFINE Gives(n) == accepted[n].type = "SET_UNIFORMS" /\ accepted[n].size >= k
           S(n) == {j \in 1 .. n - 1 : Gives(j)}
<1>1. S(i) \in SUBSET (1 .. i - 1)
  OBVIOUS
<1>2. CASE Gives(i)
  <2>1. S(i + 1) = S(i) \cup {i}
    BY <1>2
  <2>2. Max((S(i) \cup {i}) \cup {0}) = i
    <3> HIDE DEF S
    <3> QED BY <1>1, MaxFact
  <2> QED BY <1>2, <2>1, <2>2 DEF UniformCell
<1>3. CASE ~Gives(i)
  <2>1. S(i + 1) = S(i)
    BY <1>3
  <2> QED BY <1>3, <2>1 DEF UniformCell
<1> QED BY <1>2, <1>3

LEMMA BoundNext ==
  ASSUME NEW i \in Nat \ {0}
  PROVE  \A type, field : Bound(i + 1, type, field) =
           IF accepted[i].type = type THEN Handle(accepted[i][field]) ELSE Bound(i, type, field)
<1> TAKE type, field
<1>1. LastOf(i + 1, {type}) = IF accepted[i].type = type THEN i ELSE LastOf(i, {type})
  BY LastNext
<1> QED BY <1>1 DEF Bound

-----------------------------------------------------------------------------
(* What the state stands for *)

Fields == {"pipeline", "framebuffer", "vertexBuffer", "vertexOffset", "indexBuffer",
           "indexOffset", "viewport", "scissor", "uniforms", "uniformData"}

SeenOf(s) == CASE s.uniforms = NULL -> NoUniforms
               [] s.uniforms = "memory" -> Block(memory)
               [] s.uniforms = "uniformData" -> s.uniformData

\* s is what the commands before the i-th say.
StateMeans(s, i) ==
  /\ Fields \subseteq DOMAIN s
  /\ s.pipeline = Bound(i, "BIND_PIPELINE", "pipeline")
  /\ s.framebuffer = Bound(i, "BEGIN_RENDER_PASS", "framebuffer")
  /\ s.vertexBuffer = Bound(i, "BIND_VERTEX_BUFFER", "buffer")
  /\ s.vertexBuffer # NULL => s.vertexOffset = accepted[LastOf(i, {"BIND_VERTEX_BUFFER"})].offset
  /\ s.indexBuffer = Bound(i, "BIND_INDEX_BUFFER", "buffer")
  /\ s.indexBuffer # NULL => s.indexOffset = accepted[LastOf(i, {"BIND_INDEX_BUFFER"})].offset
  /\ s.uniformData = [k \in Cell |-> UniformCell(i, k)]
  /\ s.pipeline # NULL => /\ s.viewport = Viewport(i) /\ s.scissor = Scissor(i)
                          /\ SeenOf(s) = Uniforms(i)

LEMMA ZeroedMeans == StateMeans(Zeroed, 1)
<1>1. \A type, field : Bound(1, type, field) = NULL
  BY LastFirst DEF Bound
<1>2. [k \in Cell |-> UniformCell(1, k)] = Block(0)
  BY CellFirst DEF Block
<1> QED BY <1>1, <1>2 DEF Zeroed, StateMeans, Fields

PassTypes == {"BEGIN_RENDER_PASS", "BIND_PIPELINE", "SET_SCISSOR"}
PortTypes == {"BEGIN_RENDER_PASS", "BIND_PIPELINE", "SET_VIEWPORT"}
UniTypes == {"BIND_PIPELINE", "SET_UNIFORMS"}

\* What the next command leaves as it was.
LEMMA MeaningNext ==
  ASSUME NEW i \in Nat \ {0}
  PROVE  /\ accepted[i].type \notin PassTypes => Scissor(i + 1) = Scissor(i)
         /\ accepted[i].type \notin PortTypes => Viewport(i + 1) = Viewport(i)
         /\ accepted[i].type # "SET_UNIFORMS" =>
              [k \in Cell |-> UniformCell(i + 1, k)] = [k \in Cell |-> UniformCell(i, k)]
         /\ accepted[i].type \notin UniTypes => Uniforms(i + 1) = Uniforms(i)
<1>1. accepted[i].type \notin PassTypes => LastOf(i + 1, PassTypes) = LastOf(i, PassTypes)
  BY LastNext
<1>2. accepted[i].type \notin PortTypes => LastOf(i + 1, PortTypes) = LastOf(i, PortTypes)
  BY LastNext
<1>3. accepted[i].type \notin UniTypes => LastOf(i + 1, UniTypes) = LastOf(i, UniTypes)
  BY LastNext
<1>4. accepted[i].type # "SET_UNIFORMS" => \A k : UniformCell(i + 1, k) = UniformCell(i, k)
  BY CellNext
<1>5. accepted[i].type # "SET_UNIFORMS" =>
        [k \in Cell |-> UniformCell(i + 1, k)] = [k \in Cell |-> UniformCell(i, k)]
  BY <1>4
<1>6. accepted[i].type \notin PassTypes => Scissor(i + 1) = Scissor(i)
  BY <1>1 DEF Scissor, PassTypes
<1>7. accepted[i].type \notin PortTypes => Viewport(i + 1) = Viewport(i)
  BY <1>2 DEF Viewport, PortTypes
<1>8. accepted[i].type \notin UniTypes => Uniforms(i + 1) = Uniforms(i)
  BY <1>3, <1>5 DEF Uniforms, UniTypes
<1> QED BY <1>5, <1>6, <1>7, <1>8

\* Each command changes the state as its own words say, and nothing else.
LEMMA StepMeans ==
  ASSUME IInv, at > 0, at \in DOMAIN cmds, StateMeans(state, at), Step(cmds[at]),
         UNCHANGED memory
  PROVE  StateMeans(state', at + 1)
<1> DEFINE c == cmds[at]
<1>0. /\ at \in Nat \ {0} /\ accepted[at] = c /\ Sound(c) /\ Named(c) \subseteq Made \cup {NULL}
  BY DEF IInv, Recording, Sound
<1>1. \A type, field : Bound(at + 1, type, field) =
        IF c.type = type THEN Handle(c[field]) ELSE Bound(at, type, field)
  BY <1>0, BoundNext
<1>2. \A types : LastOf(at + 1, types) = IF c.type \in types THEN at ELSE LastOf(at, types)
  BY <1>0, LastNext
<1>3. /\ c.type \notin PassTypes => Scissor(at + 1) = Scissor(at)
      /\ c.type \notin PortTypes => Viewport(at + 1) = Viewport(at)
      /\ c.type # "SET_UNIFORMS" =>
           [k \in Cell |-> UniformCell(at + 1, k)] = [k \in Cell |-> UniformCell(at, k)]
      /\ c.type \notin UniTypes => Uniforms(at + 1) = Uniforms(at)
  BY <1>0, MeaningNext
<1> HIDE DEF c
<1>4. CASE BeginRenderPass(c)
  <2>1. /\ c.type = "BEGIN_RENDER_PASS"
        /\ state' = [state EXCEPT !.framebuffer = Handle(c.framebuffer),
                                  !.viewport = AreaViewport(c.renderArea),
                                  !.scissor = c.renderArea]
    BY <1>4 DEF BeginRenderPass
  <2>2. Scissor(at + 1) = c.renderArea
        /\ Viewport(at + 1) = AreaViewport(c.renderArea)
    BY <1>0, <1>2, <2>1 DEF Scissor, Viewport
  <2>3. /\ Fields \subseteq DOMAIN state' /\ state'.framebuffer = Handle(c.framebuffer)
        /\ state'.viewport = AreaViewport(c.renderArea)
        /\ state'.scissor = c.renderArea
        /\ \A f \in Fields \ {"framebuffer", "viewport", "scissor"} : state'[f] = state[f]
    BY <2>1 DEF StateMeans, Fields
  <2>4. SeenOf(state') = SeenOf(state)
    BY <2>3 DEF SeenOf, Fields
  <2> QED BY <1>1, <1>2, <1>3, <2>1, <2>2, <2>3, <2>4 DEF StateMeans, UniTypes, Fields
<1>5. CASE BindPipeline(c)
  <2>1. /\ c.type = "BIND_PIPELINE" /\ c.pipeline # NULL /\ Handle(c.pipeline) = c.pipeline
        /\ Kind(c.pipeline) = "pipeline" /\ c.pipeline \in Objects
        /\ state' = [state EXCEPT !.pipeline = c.pipeline,
                                  !.viewport = Info[c.pipeline].viewport,
                                  !.scissor = Info[c.pipeline].scissor,
                                  !.uniforms = Info[c.pipeline].uniforms]
    <3>1. c.type = "BIND_PIPELINE" /\ c.pipeline \in Checked(c) /\ IsA(c.pipeline, "pipeline")
      BY <1>0, <1>5 DEF BindPipeline, Checked, Sound, Typed
    <3>2. Handle(c.pipeline) # NULL
      BY <1>0, <3>1 DEF Sound
    <3> QED BY <1>5, <3>1, <3>2 DEF BindPipeline, IsA, Handle
  <2>2. /\ Scissor(at + 1) = Info[c.pipeline].scissor
        /\ Viewport(at + 1) = Info[c.pipeline].viewport
        /\ Uniforms(at + 1) = IF Info[c.pipeline].uniforms = NULL THEN NoUniforms ELSE Block(memory)
    BY <1>0, <1>2, <2>1 DEF Scissor, Viewport, Uniforms
  <2>3. /\ Fields \subseteq DOMAIN state' /\ state'.pipeline = c.pipeline
        /\ state'.viewport = Info[c.pipeline].viewport
        /\ state'.scissor = Info[c.pipeline].scissor
        /\ state'.uniforms = Info[c.pipeline].uniforms
        /\ \A f \in Fields \ {"pipeline", "viewport", "scissor", "uniforms"} : state'[f] = state[f]
    BY <2>1 DEF StateMeans, Fields
  <2>4. Info[c.pipeline].uniforms \in {NULL, "memory"}
    BY <2>1, GravAssumption
  <2>5. SeenOf(state') = Uniforms(at + 1)
    BY <2>2, <2>3, <2>4 DEF SeenOf, NULL
  <2> QED BY <1>1, <1>2, <1>3, <2>1, <2>2, <2>3, <2>5 DEF StateMeans, Fields
<1>6. CASE BindVertexBuffer(c)
  <2>1. /\ c.type = "BIND_VERTEX_BUFFER" /\ Handle(c.buffer) = c.buffer
        /\ state' = [state EXCEPT !.vertexBuffer = c.buffer, !.vertexOffset = c.offset]
    <3>1. c.type = "BIND_VERTEX_BUFFER" /\ c.buffer \in Checked(c)
      BY <1>6 DEF BindVertexBuffer, Checked
    <3>2. Handle(c.buffer) # NULL
      BY <1>0, <3>1 DEF Sound
    <3> QED BY <1>6, <3>1, <3>2 DEF BindVertexBuffer, Handle
  <2>2. /\ Fields \subseteq DOMAIN state' /\ state'.vertexBuffer = c.buffer
        /\ state'.vertexOffset = c.offset
        /\ \A f \in Fields \ {"vertexBuffer", "vertexOffset"} : state'[f] = state[f]
    BY <2>1 DEF StateMeans, Fields
  <2>3. SeenOf(state') = SeenOf(state)
    BY <2>2 DEF SeenOf, Fields
  <2> QED BY <1>0, <1>1, <1>2, <1>3, <2>1, <2>2, <2>3
          DEF StateMeans, UniTypes, PassTypes, PortTypes, Fields
<1>7. CASE BindIndexBuffer(c)
  <2>1. /\ c.type = "BIND_INDEX_BUFFER" /\ Handle(c.buffer) = c.buffer
        /\ state' = [state EXCEPT !.indexBuffer = c.buffer, !.indexOffset = c.offset]
    <3>1. c.type = "BIND_INDEX_BUFFER" /\ c.buffer \in Checked(c)
      BY <1>7 DEF BindIndexBuffer, Checked
    <3>2. Handle(c.buffer) # NULL
      BY <1>0, <3>1 DEF Sound
    <3> QED BY <1>7, <3>1, <3>2 DEF BindIndexBuffer, Handle
  <2>2. /\ Fields \subseteq DOMAIN state' /\ state'.indexBuffer = c.buffer
        /\ state'.indexOffset = c.offset
        /\ \A f \in Fields \ {"indexBuffer", "indexOffset"} : state'[f] = state[f]
    BY <2>1 DEF StateMeans, Fields
  <2>3. SeenOf(state') = SeenOf(state)
    BY <2>2 DEF SeenOf, Fields
  <2> QED BY <1>0, <1>1, <1>2, <1>3, <2>1, <2>2, <2>3
          DEF StateMeans, UniTypes, PassTypes, PortTypes, Fields
<1>8. CASE SetViewport(c)
  <2>1. c.type = "SET_VIEWPORT" /\ state' = [state EXCEPT !.viewport = c.viewport]
    BY <1>8 DEF SetViewport
  <2>2. /\ Fields \subseteq DOMAIN state' /\ state'.viewport = c.viewport
        /\ \A f \in Fields \ {"viewport"} : state'[f] = state[f]
    BY <2>1 DEF StateMeans, Fields
  <2>3. SeenOf(state') = SeenOf(state) /\ Viewport(at + 1) = c.viewport
    BY <1>0, <1>2, <2>1, <2>2 DEF SeenOf, Fields, Viewport
  <2> QED BY <1>1, <1>2, <1>3, <2>1, <2>2, <2>3 DEF StateMeans, UniTypes, PassTypes, Fields
<1>9. CASE SetScissor(c)
  <2>1. c.type = "SET_SCISSOR" /\ state' = [state EXCEPT !.scissor = c.scissor]
    BY <1>9 DEF SetScissor
  <2>2. /\ Fields \subseteq DOMAIN state' /\ state'.scissor = c.scissor
        /\ \A f \in Fields \ {"scissor"} : state'[f] = state[f]
    BY <2>1 DEF StateMeans, Fields
  <2>3. SeenOf(state') = SeenOf(state) /\ Scissor(at + 1) = c.scissor
    BY <1>0, <1>2, <2>1, <2>2 DEF SeenOf, Fields, Scissor
  <2> QED BY <1>1, <1>2, <1>3, <2>1, <2>2, <2>3 DEF StateMeans, UniTypes, PortTypes, Fields
<1>10. CASE SetUniforms(c)
  <2> DEFINE written == [k \in Cell |-> IF k <= c.size THEN c.data ELSE state.uniformData[k]]
  <2>1. /\ c.type = "SET_UNIFORMS"
        /\ state' = [state EXCEPT !.uniforms = "uniformData", !.uniformData = written]
    BY <1>10 DEF SetUniforms
  <2>2. c.size \in Nat
    BY <1>0, <2>1 DEF Sound, Typed
  <2>3. \A k \in Cell : k \in Nat /\ (k <= c.size <=> c.size >= k)
    BY <2>2, GravAssumption DEF Cell
  <2>4. \A k \in Cell : UniformCell(at + 1, k) = IF c.size >= k THEN c.data ELSE UniformCell(at, k)
    BY <1>0, <2>1, CellNext
  <2>5. written = [k \in Cell |-> UniformCell(at + 1, k)]
    BY <2>3, <2>4 DEF StateMeans
  <2> HIDE DEF written
  <2>6. /\ Fields \subseteq DOMAIN state' /\ state'.uniforms = "uniformData"
        /\ state'.uniformData = written
        /\ \A f \in Fields \ {"uniforms", "uniformData"} : state'[f] = state[f]
    BY <2>1 DEF StateMeans, Fields
  <2>7. SeenOf(state') = written
    BY <2>6 DEF SeenOf, NULL
  <2>8. Uniforms(at + 1) = written
    BY <1>0, <1>2, <2>1, <2>5 DEF Uniforms
  <2>9. Scissor(at + 1) = Scissor(at) /\ Viewport(at + 1) = Viewport(at)
    BY <1>3, <2>1 DEF PassTypes, PortTypes
  <2>10. /\ state'.pipeline = state.pipeline /\ state'.framebuffer = state.framebuffer
         /\ state'.vertexBuffer = state.vertexBuffer /\ state'.vertexOffset = state.vertexOffset
         /\ state'.indexBuffer = state.indexBuffer /\ state'.indexOffset = state.indexOffset
         /\ state'.viewport = state.viewport /\ state'.scissor = state.scissor
    BY <2>6 DEF Fields
  <2>11. /\ \A type, field : type # "SET_UNIFORMS" => Bound(at + 1, type, field) = Bound(at, type, field)
         /\ \A type : type # "SET_UNIFORMS" => LastOf(at + 1, {type}) = LastOf(at, {type})
    BY <1>1, <1>2, <2>1
  <2>12. state'.uniformData = [k \in Cell |-> UniformCell(at + 1, k)] /\ SeenOf(state') = Uniforms(at + 1)
         /\ Fields \subseteq DOMAIN state'
    BY <2>5, <2>6, <2>7, <2>8
  <2> QED BY <2>9, <2>10, <2>11, <2>12 DEF StateMeans
<1>11. CASE EndRenderPass(c) \/ Draw(c) \/ ClearColorImage(c)
  <2>1. /\ c.type \in {"END_RENDER_PASS", "DRAW", "DRAW_INDEXED", "CLEAR_COLOR_IMAGE"}
        /\ state' = state
    BY <1>11 DEF EndRenderPass, Draw, ClearColorImage
  <2> QED BY <1>1, <1>2, <1>3, <2>1 DEF StateMeans, UniTypes, PassTypes, PortTypes
<1> QED BY <1>4, <1>5, <1>6, <1>7, <1>8, <1>9, <1>10, <1>11 DEF Step, c

-----------------------------------------------------------------------------
(* What was drawn *)

\* The vertices the code reads, and the draw it makes.
ReadOf(i) ==
  LET c == accepted[i]
      from(type) == accepted[LastOf(i, {type})].offset
      index(k) == IF c.type = "DRAW" THEN k
                  ELSE Info[Bound(i, "BIND_INDEX_BUFFER", "buffer")].indices
                         [from("BIND_INDEX_BUFFER") + c.firstIndex + k] + 1
  IN [k \in 1 .. c.count |->
        Info[Bound(i, "BIND_VERTEX_BUFFER", "buffer")].vertices[from("BIND_VERTEX_BUFFER") + index(k)]]
Drawing(i) == Meaning(i, ReadOf(i))

Meanings == {Drawing(i) : i \in Nat}

\* d is what the draws before the i-th command make.
Listed(d, i) ==
  /\ d \in Seq(Meanings)
  /\ {d[k].at : k \in DOMAIN d} = {j \in 1 .. i - 1 : Draws(j)}
  /\ \A k, n \in DOMAIN d : k < n => d[k].at < d[n].at

\* A draw shows what it should, and is skipped when it should.
LEMMA DrawMeans ==
  ASSUME IInv, at > 0, at \in DOMAIN cmds, StateMeans(state, at),
         NEW c, c = cmds[at], c.type \in {"DRAW", "DRAW_INDEXED"}
  PROVE  /\ Shows(c) <=> Draws(at)
         /\ Shows(c) => Drawing(at) = [at |-> at, framebuffer |-> state.framebuffer,
                                       pipeline |-> state.pipeline, buffer |-> state.vertexBuffer,
                                       vertices |-> Vertices(c), viewport |-> state.viewport,
                                       scissor |-> state.scissor, uniforms |-> UniformsSeen]
<1>1. accepted[at] = c
  BY DEF IInv, Recording
<1>2. /\ state.pipeline = Bound(at, "BIND_PIPELINE", "pipeline")
      /\ state.framebuffer = Bound(at, "BEGIN_RENDER_PASS", "framebuffer")
      /\ state.vertexBuffer = Bound(at, "BIND_VERTEX_BUFFER", "buffer")
      /\ state.indexBuffer = Bound(at, "BIND_INDEX_BUFFER", "buffer")
  BY DEF StateMeans
<1>3. Color = IF state.framebuffer = NULL THEN NULL ELSE Handle(Info[state.framebuffer].colorImage)
  BY DEF Color, Attached
<1>4. NULL \notin Buffers(c) <=> /\ state.vertexBuffer # NULL
                                 /\ c.type = "DRAW_INDEXED" => state.indexBuffer # NULL
  BY DEF Buffers
<1>5. Shows(c) <=> Draws(at)
  BY <1>1, <1>2, <1>3, <1>4 DEF Shows, NoTarget, Draws
<1>6. ASSUME Shows(c)
      PROVE  Drawing(at) = [at |-> at, framebuffer |-> state.framebuffer,
                            pipeline |-> state.pipeline, buffer |-> state.vertexBuffer,
                            vertices |-> Vertices(c), viewport |-> state.viewport,
                            scissor |-> state.scissor, uniforms |-> UniformsSeen]
  <2>1. /\ state.pipeline # NULL /\ state.vertexBuffer # NULL
        /\ c.type = "DRAW_INDEXED" => state.indexBuffer # NULL
    BY <1>4, <1>6 DEF Shows, NoTarget
  <2>2. /\ state.viewport = Viewport(at) /\ state.scissor = Scissor(at)
        /\ UniformsSeen = Uniforms(at)
        /\ state.vertexOffset = accepted[LastOf(at, {"BIND_VERTEX_BUFFER"})].offset
        /\ c.type # "DRAW" => state.indexOffset = accepted[LastOf(at, {"BIND_INDEX_BUFFER"})].offset
    BY <2>1 DEF StateMeans, SeenOf, UniformsSeen
  <2> DEFINE vb == Bound(at, "BIND_VERTEX_BUFFER", "buffer")
             from(type) == accepted[LastOf(at, {type})].offset
             index(k) == IF c.type = "DRAW" THEN k
                         ELSE Info[Bound(at, "BIND_INDEX_BUFFER", "buffer")].indices
                                [from("BIND_INDEX_BUFFER") + c.firstIndex + k] + 1
  <2>3. Vertices(c) = [k \in 1 .. c.count |-> Info[vb].vertices[from("BIND_VERTEX_BUFFER") + index(k)]]
    BY <1>2, <2>2 DEF Vertices
  <2> QED BY <1>1, <1>2, <2>2, <2>3 DEF Drawing, ReadOf, Meaning
<1> QED BY <1>5, <1>6

\* A range that begins with the first vertex is what the code reads.
LEMMA FirstVertices ==
  ASSUME IInv, at > 0, NEW i \in 1 .. at - 1, Draws(i), First(accepted[i]) = 0
  PROVE  ReadOf(i) = Ranged(i)
<1> DEFINE j == LastOf(i, {"BIND_VERTEX_BUFFER"})
<1>1. Bound(i, "BIND_VERTEX_BUFFER", "buffer") # NULL
  BY DEF Draws
<1>2. j # 0
  BY <1>1 DEF Bound
<1>3. j \in 1 .. i - 1 /\ accepted[j].type = "BIND_VERTEX_BUFFER"
  <2>1. at \in Nat
    BY DEF IInv, Recording
  <2>2. j \in 0 .. i - 1 /\ (j # 0 => accepted[j].type \in {"BIND_VERTEX_BUFFER"})
    BY <2>1, LastIs
  <2> QED BY <1>2, <2>2
<1>4. accepted[j].offset \in Nat
  <2>1. accepted \in Seq(Recordable) /\ \A n \in DOMAIN accepted : Sound(accepted[n])
    BY DEF IInv, Recording
  <2>2. j \in DOMAIN accepted
    <3>1. at \in Nat /\ at <= Len(accepted) + 1
      BY DEF IInv, Recording
    <3> QED BY <1>3, <2>1, <3>1
  <2> QED BY <1>3, <2>1, <2>2 DEF Sound, Typed
<1>5. accepted[j].offset + First(accepted[i]) = accepted[j].offset
  BY <1>4
<1> QED BY <1>5 DEF ReadOf, Ranged

\* What the commands mean stays while they, the objects and the memory do.
LEMMA MeaningKept ==
  ASSUME UNCHANGED <<accepted, null, memory>>
  PROVE  /\ \A i : Drawing(i)' = Drawing(i) /\ Draws(i)' = Draws(i)
         /\ \A s, i : StateMeans(s, i)' = StateMeans(s, i)
         /\ \A d, i : Listed(d, i)' = Listed(d, i)
<1>1. \A i, types : LastOf(i, types)' = LastOf(i, types)
  BY DEF LastOf
<1>2. \A i, type, field : Bound(i, type, field)' = Bound(i, type, field)
  BY <1>1 DEF Bound, Handle
<1>3. \A i : Scissor(i)' = Scissor(i) /\ Viewport(i)' = Viewport(i)
  BY <1>1 DEF Scissor, Viewport
<1>4. \A i, k : UniformCell(i, k)' = UniformCell(i, k)
  BY DEF UniformCell
<1>5. \A i : Uniforms(i)' = Uniforms(i)
  BY <1>1, <1>4 DEF Uniforms
<1>6. \A i : Draws(i)' = Draws(i)
  BY <1>2 DEF Draws, Handle
<1>7. \A i : Drawing(i)' = Drawing(i)
  BY <1>1, <1>2, <1>3, <1>5 DEF Drawing, ReadOf, Meaning
<1>8. \A s, i : StateMeans(s, i)' = StateMeans(s, i)
  <2> TAKE s, i
  <2>1. SeenOf(s)' = SeenOf(s)
    BY DEF SeenOf
  <2>2. [k \in Cell |-> UniformCell(i, k)]' = [k \in Cell |-> UniformCell(i, k)]
    BY <1>4
  <2>3. \A type : (accepted[LastOf(i, {type})].offset)' = accepted[LastOf(i, {type})].offset
    BY <1>1
  <2> QED BY <1>2, <1>3, <1>5, <2>1, <2>2, <2>3 DEF StateMeans
<1>9. Meanings' = Meanings
  BY <1>7 DEF Meanings
<1>10. \A d, i : Listed(d, i)' = Listed(d, i)
  BY <1>6, <1>9 DEF Listed
<1> QED BY <1>6, <1>7, <1>8, <1>10

DrawInv == at > 0 => StateMeans(state, at) /\ Listed(drawn, at)
FullInv == IInv /\ DrawInv

\* A command that draws is listed behind those before it; another one is not listed.
LEMMA ListedNext ==
  ASSUME IInv, at > 0, at \in DOMAIN cmds, StateMeans(state, at), Listed(drawn, at), Step(cmds[at])
  PROVE  Listed(drawn', at + 1)
<1> DEFINE c == cmds[at]
           m == Drawing(at)
<1>0. /\ at \in Nat \ {0} /\ accepted[at] = c
      /\ \A j \in Nat : j \in 1 .. (at + 1) - 1 <=> j \in 1 .. at - 1 \/ j = at
  BY DEF IInv, Recording
<1>1. /\ drawn \in Seq(Meanings)
      /\ {drawn[k].at : k \in DOMAIN drawn} = {j \in 1 .. at - 1 : Draws(j)}
      /\ \A k, n \in DOMAIN drawn : k < n => drawn[k].at < drawn[n].at
  BY DEF Listed
<1>2. m.at = at /\ m \in Meanings
  BY <1>0 DEF Drawing, Meaning, Meanings
<1> HIDE DEF c, m
<1>3. CASE Draws(at)
  <2>1. c.type \in {"DRAW", "DRAW_INDEXED"}
    BY <1>0, <1>3 DEF Draws
  <2>2. Draw(c)
    BY <2>1 DEF Step, c, BeginRenderPass, EndRenderPass, BindPipeline, BindVertexBuffer,
                BindIndexBuffer, SetViewport, SetScissor, SetUniforms, ClearColorImage
  <2>3. Shows(c) /\ drawn' = Append(drawn, m)
    BY <1>3, <2>1, <2>2, DrawMeans DEF Draw, c, m
  <2> DEFINE n == Len(drawn) + 1
  <2>4. /\ drawn' \in Seq(Meanings) /\ DOMAIN drawn' = 1 .. n /\ DOMAIN drawn = 1 .. n - 1
        /\ n \in Nat /\ drawn'[n] = m /\ \A k \in 1 .. n - 1 : drawn'[k] = drawn[k]
    BY <1>1, <1>2, <2>3
  <2> HIDE DEF n
  <2>5. \A k \in 1 .. n : k = n \/ k \in 1 .. n - 1
    BY <2>4
  <2>6. {drawn'[k].at : k \in DOMAIN drawn'} = {drawn[k].at : k \in DOMAIN drawn} \cup {at}
    <3>1. n \in DOMAIN drawn' /\ \A k \in DOMAIN drawn : k \in DOMAIN drawn'
      <4>1. n >= 1
        BY <1>1 DEF n
      <4> QED BY <2>4, <4>1
    <3> QED BY <1>2, <2>4, <2>5, <3>1
  <2>7. {j \in 1 .. (at + 1) - 1 : Draws(j)} = {j \in 1 .. at - 1 : Draws(j)} \cup {at}
    BY <1>0, <1>3
  <2>8. \A k \in DOMAIN drawn : drawn[k].at \in 1 .. at - 1
    BY <1>1
  <2>9. ASSUME NEW k \in DOMAIN drawn', NEW i \in DOMAIN drawn', k < i
        PROVE  drawn'[k].at < drawn'[i].at
    <3>1. k \in 1 .. n - 1
      BY <2>4, <2>9
    <3>2. CASE i = n
      BY <1>0, <1>2, <2>4, <2>8, <3>1, <3>2
    <3>3. CASE i \in 1 .. n - 1
      BY <1>1, <2>4, <2>9, <3>1, <3>3
    <3> QED BY <2>4, <2>5, <3>2, <3>3
  <2> QED BY <1>1, <2>4, <2>6, <2>7, <2>9 DEF Listed
<1>4. CASE ~Draws(at)
  <2>1. drawn' = drawn
    <3>1. CASE c.type \in {"DRAW", "DRAW_INDEXED"}
      <4>1. ~Shows(c) /\ Draw(c)
        BY <1>4, <3>1, DrawMeans
           DEF Step, c, BeginRenderPass, EndRenderPass, BindPipeline, BindVertexBuffer,
               BindIndexBuffer, SetViewport, SetScissor, SetUniforms, ClearColorImage
      <4> QED BY <4>1 DEF Draw
    <3>2. CASE c.type \notin {"DRAW", "DRAW_INDEXED"}
      BY <3>2 DEF Step, c, BeginRenderPass, EndRenderPass, BindPipeline, BindVertexBuffer,
                  BindIndexBuffer, SetViewport, SetScissor, SetUniforms, ClearColorImage, Draw
    <3> QED BY <3>1, <3>2
  <2>2. {j \in 1 .. (at + 1) - 1 : Draws(j)} = {j \in 1 .. at - 1 : Draws(j)}
    BY <1>0, <1>4
  <2> QED BY <1>1, <2>1, <2>2 DEF Listed
<1> QED BY <1>3, <1>4

LEMMA DrawNext == FullInv /\ [Next]_vars => DrawInv'
<1> SUFFICES ASSUME FullInv, [Next]_vars PROVE DrawInv'
  OBVIOUS
<1>0. at \in Nat
  BY DEF FullInv, IInv, Recording
<1>1. CASE Create \/ (\E o \in Objects : Destroy(o)) \/ Update \/ gravBeginCommandBuffer
           \/ gravEndCommandBuffer \/ gravResetCommandBuffer \/ \E c \in Offered : Record(c)
  <2>1. at' = 0
    BY <1>1 DEF Create, Destroy, Update, gravBeginCommandBuffer, gravEndCommandBuffer,
                gravResetCommandBuffer, Record, Calls, submitVars
  <2> QED BY <2>1 DEF DrawInv
<1>2. CASE Submit
  <2>1. at' = 1 /\ state' = Zeroed /\ drawn' = << >> /\ UNCHANGED <<accepted, null, memory>>
    BY <1>2 DEF Submit, bufferVars
  <2>2. Listed(<< >>, 1)
    <3>1. << >> \in Seq(Meanings) /\ DOMAIN << >> = {}
      OBVIOUS
    <3>2. {j \in 1 .. 1 - 1 : Draws(j)} = {}
      OBVIOUS
    <3> QED BY <3>1, <3>2 DEF Listed
  <2> QED BY <2>1, <2>2, ZeroedMeans, MeaningKept DEF DrawInv
<1>3. CASE Execute
  <2>1. /\ at \in DOMAIN cmds /\ at > 0 /\ Step(cmds[at]) /\ at' = at + 1
        /\ UNCHANGED <<accepted, null, memory>>
    <3>1. DOMAIN cmds = 1 .. Len(cmds)
      BY DEF FullInv, IInv, Recording
    <3> QED BY <1>0, <1>3, <3>1 DEF Execute, Running, appVars, bufferVars
  <2>2. StateMeans(state', at + 1) /\ Listed(drawn', at + 1)
    BY <2>1, StepMeans, ListedNext DEF FullInv, DrawInv
  <2> QED BY <2>1, <2>2, MeaningKept DEF DrawInv
<1>4. CASE Fault \/ UNCHANGED vars
  <2>1. UNCHANGED <<state, at, drawn, accepted, null, memory>>
    BY <1>4 DEF Fault, vars, appVars, bufferVars, submitVars
  <2> QED BY <2>1, MeaningKept DEF FullInv, DrawInv
<1>5. CASE Return
  BY <1>5 DEF Return, DrawInv
<1> QED BY <1>1, <1>2, <1>3, <1>4, <1>5 DEF Next

\* Each submission draws exactly what the commands accepted while recording mean, each
\* draw with what was bound or set last before it (execute_draw(), push_cmd(),
\* gravSubmitCommandBuffer()), for every application and every set of objects.
THEOREM RecordingSafe == Spec => []DrawsAsRecorded
<1>1. Init => DrawInv
  BY DEF Init, DrawInv
<1>2. Spec => []FullInv
  BY <1>1, InitInv, NextInv, DrawNext, PTL DEF Spec, FullInv
<1>3. FullInv => DrawsAsRecorded
  <2> SUFFICES ASSUME FullInv, at > 0 PROVE DrawsAsRecorded
    BY DEF DrawsAsRecorded
  <2>1. Listed(drawn, at)
    BY DEF FullInv, DrawInv
  <2>2. ASSUME NEW k \in DOMAIN drawn
        PROVE  drawn[k] = Meaning(drawn[k].at, IF First(accepted[drawn[k].at]) = 0
                                               THEN Ranged(drawn[k].at) ELSE drawn[k].vertices)
    <3>1. drawn[k] \in Meanings
      BY <2>1 DEF Listed
    <3>2. PICK i \in Nat : drawn[k] = Drawing(i)
      BY <3>1 DEF Meanings
    <3>3. drawn[k].at = i /\ drawn[k].vertices = ReadOf(i)
      BY <3>2 DEF Drawing, Meaning
    <3>4. Draws(i) /\ i \in 1 .. at - 1
      BY <2>1, <3>3 DEF Listed
    <3>5. First(accepted[i]) = 0 => ReadOf(i) = Ranged(i)
      BY <3>4, FirstVertices DEF FullInv
    <3> QED BY <3>2, <3>3, <3>5 DEF Drawing
  <2> QED BY <2>1, <2>2 DEF Listed, DrawsAsRecorded
<1> QED BY <1>2, <1>3, PTL

-----------------------------------------------------------------------------
(* Bresenham's loop *)

LEMMA LengthFact ==
    ASSUME NEW a \in Point, NEW b \in Point
    PROVE  LET dx == Abs(b.x - a.x)
               dy == Abs(b.y - a.y)
           IN /\ dx \in Nat /\ dy \in Nat
              /\ Length(a, b) = IF dx >= dy THEN dx ELSE dy
<1> DEFINE dx == Abs(b.x - a.x)
           dy == Abs(b.y - a.y)
<1>1. dx \in Nat /\ dy \in Nat
  BY DEF Abs, Point
<1> HIDE DEF dx, dy
<1> DEFINE m == Max({dx, dy})
<1>2. \E x \in {dx, dy} : \A y \in {dx, dy} : x >= y
  BY <1>1
<1>3. m \in {dx, dy} /\ \A y \in {dx, dy} : m >= y
  BY <1>2 DEF Max
<1>4. m = IF dx >= dy THEN dx ELSE dy
  BY <1>1, <1>3
<1> QED BY <1>1, <1>4 DEF Length, dx, dy

\* The loop has a unique course.
LEMMA WalkFact ==
    ASSUME NEW a, NEW b, Length(a, b) \in Nat
    PROVE  LET w == Walk(a, b)
           IN /\ w[0] = [x |-> a.x, y |-> a.y, err |-> Abs(b.x - a.x) - Abs(b.y - a.y)]
              /\ \A n \in 1 .. Length(a, b) : w[n] = Advanced(a, b, w[n - 1])
<1> DEFINE L == Length(a, b)
           first == [x |-> a.x, y |-> a.y, err |-> Abs(b.x - a.x) - Abs(b.y - a.y)]
           A(s) == Advanced(a, b, s)
           Course(f, k) == f = [n \in 0 .. k |-> IF n = 0 THEN first ELSE A(f[n - 1])]
           S == {k \in Nat : \E f : Course(f, k)}
<1> HIDE DEF first, A, L
<1>1. 0 \in S
  <2> DEFINE f == [n \in 0 .. 0 |-> first]
  <2>1. Course(f, 0)
    OBVIOUS
  <2> QED BY <2>1
<1>2. ASSUME NEW k \in Nat, k \in S PROVE k + 1 \in S
  <2>1. PICK f : Course(f, k)
    BY <1>2
  <2> DEFINE g == [n \in 0 .. k + 1 |-> IF n = k + 1 THEN A(f[k]) ELSE f[n]]
  <2>2. ASSUME NEW n \in 0 .. k + 1 PROVE g[n] = IF n = 0 THEN first ELSE A(g[n - 1])
    BY <2>1
  <2>3. Course(g, k + 1)
    BY <2>2
  <2>4. \E h : Course(h, k + 1)
    <3> HIDE DEF Course, g
    <3> QED BY <2>3
  <2> QED BY <2>4
<1>3. L \in S
  <2> HIDE DEF S
  <2> QED BY <1>1, <1>2, Induction DEF L
<1>4. PICK f : Course(f, L)
  BY <1>3
<1>5. Walk(a, b) = CHOOSE h : Course(h, L)
  BY DEF Walk, L, first, A
<1>6. Course(Walk(a, b), L)
  BY <1>4, <1>5
<1>7. 0 \in 0 .. L /\ \A n \in 1 .. L : n \in 0 .. L /\ n # 0
  BY DEF L
<1> QED BY <1>6, <1>7 DEF first, A, L

\* Where the walk is after n turns, when it is not steep.
Flat(a, b, s, n) ==
  LET dx == Abs(b.x - a.x)
      dy == Abs(b.y - a.y)
  IN /\ s \in [x : Int, y : Int, err : Int]
     /\ s.x = a.x + n * Toward(a.x, b.x)
     /\ \E j \in Int : /\ s.y = a.y + j * Toward(a.y, b.y)
                       /\ s.err = dx - dy - n * dy + j * dx
     /\ -dy < 2 * s.err /\ 2 * s.err < 3 * dx - 2 * dy

\* And when it is steep.
Steep(a, b, s, n) ==
  LET dx == Abs(b.x - a.x)
      dy == Abs(b.y - a.y)
  IN /\ s \in [x : Int, y : Int, err : Int]
     /\ s.y = a.y + n * Toward(a.y, b.y)
     /\ \E i \in Int : /\ s.x = a.x + i * Toward(a.x, b.x)
                       /\ s.err = dx - dy + n * dx - i * dy
     /\ -dx < -2 * s.err /\ -2 * s.err < 3 * dy - 2 * dx

LEMMA FlatNext ==
    ASSUME NEW a \in Point, NEW b \in Point, NEW s, NEW n \in Nat,
           Abs(b.x - a.x) > 0, Abs(b.x - a.x) >= Abs(b.y - a.y), Flat(a, b, s, n)
    PROVE  Flat(a, b, Advanced(a, b, s), n + 1)
<1> DEFINE dx == Abs(b.x - a.x)
           dy == Abs(b.y - a.y)
           t == Advanced(a, b, s)
           sx == Toward(a.x, b.x)
           sy == Toward(a.y, b.y)
<1>1. dx \in Nat /\ dy \in Nat /\ dx > 0 /\ dx >= dy
  BY LengthFact
<1>2. sx \in Int /\ sy \in Int /\ a.x \in Int /\ a.y \in Int
  BY DEF Toward, Point
<1>3. s.x \in Int /\ s.y \in Int /\ s.err \in Int /\ -dy < 2 * s.err /\ 2 * s.err < 3 * dx - 2 * dy
      /\ s.x = a.x + n * sx
  BY DEF Flat
<1>4. PICK j \in Int : s.y = a.y + j * sy /\ s.err = dx - dy - n * dy + j * dx
  BY DEF Flat
<1>5. t = [x |-> s.x + sx,
           y |-> IF 2 * s.err < dx THEN s.y + sy ELSE s.y,
           err |-> s.err - dy + (IF 2 * s.err < dx THEN dx ELSE 0)]
  BY <1>3 DEF Advanced
<1> HIDE DEF dx, dy, t, sx, sy
<1>6. (n + 1) * sx = n * sx + sx /\ (j + 1) * sy = j * sy + sy
      /\ (n + 1) * dy = n * dy + dy /\ (j + 1) * dx = j * dx + dx
      /\ n * sx \in Int /\ j * sy \in Int /\ n * dy \in Int /\ j * dx \in Int
  BY <1>1, <1>2
<1>7. t \in [x : Int, y : Int, err : Int] /\ t.x = a.x + (n + 1) * sx
      /\ -dy < 2 * t.err /\ 2 * t.err < 3 * dx - 2 * dy
  BY <1>1, <1>2, <1>3, <1>5, <1>6
<1>8. \E k \in Int : t.y = a.y + k * sy /\ t.err = dx - dy - (n + 1) * dy + k * dx
  <2>1. CASE 2 * s.err < dx
    <3>1. t.y = a.y + (j + 1) * sy /\ t.err = dx - dy - (n + 1) * dy + (j + 1) * dx
      BY <1>1, <1>2, <1>3, <1>4, <1>5, <1>6, <2>1
    <3> QED BY <3>1
  <2>2. CASE ~(2 * s.err < dx)
    <3>1. t.y = a.y + j * sy /\ t.err = dx - dy - (n + 1) * dy + j * dx
      BY <1>1, <1>2, <1>3, <1>4, <1>5, <1>6, <2>2
    <3> QED BY <3>1
  <2> QED BY <2>1, <2>2
<1> QED BY <1>7, <1>8 DEF Flat, dx, dy, t, sx, sy

LEMMA SteepNext ==
    ASSUME NEW a \in Point, NEW b \in Point, NEW s, NEW n \in Nat,
           Abs(b.y - a.y) > Abs(b.x - a.x), Steep(a, b, s, n)
    PROVE  Steep(a, b, Advanced(a, b, s), n + 1)
<1> DEFINE dx == Abs(b.x - a.x)
           dy == Abs(b.y - a.y)
           t == Advanced(a, b, s)
           sx == Toward(a.x, b.x)
           sy == Toward(a.y, b.y)
<1>1. dx \in Nat /\ dy \in Nat /\ dy > dx
  BY LengthFact
<1>2. sx \in Int /\ sy \in Int /\ a.x \in Int /\ a.y \in Int
  BY DEF Toward, Point
<1>3. s.x \in Int /\ s.y \in Int /\ s.err \in Int /\ -dx < -2 * s.err /\ -2 * s.err < 3 * dy - 2 * dx
      /\ s.y = a.y + n * sy
  BY DEF Steep
<1>4. PICK i \in Int : s.x = a.x + i * sx /\ s.err = dx - dy + n * dx - i * dy
  BY DEF Steep
<1>5. t = [x |-> IF 2 * s.err > -dy THEN s.x + sx ELSE s.x,
           y |-> s.y + sy,
           err |-> s.err - (IF 2 * s.err > -dy THEN dy ELSE 0) + dx]
  BY <1>1, <1>3 DEF Advanced
<1> HIDE DEF dx, dy, t, sx, sy
<1>6. (n + 1) * sy = n * sy + sy /\ (i + 1) * sx = i * sx + sx
      /\ (n + 1) * dx = n * dx + dx /\ (i + 1) * dy = i * dy + dy
      /\ n * sy \in Int /\ i * sx \in Int /\ n * dx \in Int /\ i * dy \in Int
  BY <1>1, <1>2
<1>7. t \in [x : Int, y : Int, err : Int] /\ t.y = a.y + (n + 1) * sy
      /\ -dx < -2 * t.err /\ -2 * t.err < 3 * dy - 2 * dx
  BY <1>1, <1>2, <1>3, <1>5, <1>6
<1>8. \E k \in Int : t.x = a.x + k * sx /\ t.err = dx - dy + (n + 1) * dx - k * dy
  <2>1. CASE 2 * s.err > -dy
    <3>1. t.x = a.x + (i + 1) * sx /\ t.err = dx - dy + (n + 1) * dx - (i + 1) * dy
      BY <1>1, <1>2, <1>3, <1>4, <1>5, <1>6, <2>1
    <3> QED BY <3>1
  <2>2. CASE ~(2 * s.err > -dy)
    <3>1. t.x = a.x + i * sx /\ t.err = dx - dy + (n + 1) * dx - i * dy
      BY <1>1, <1>2, <1>3, <1>4, <1>5, <1>6, <2>2
    <3> QED BY <3>1
  <2> QED BY <2>1, <2>2
<1> QED BY <1>7, <1>8 DEF Steep, dx, dy, t, sx, sy

\* After Length turns both coordinates are those of the end.
LEMMA Arrival ==
    ASSUME NEW dx \in Nat, NEW dy \in Nat, NEW j \in Int, dx > 0,
           -dy < 2 * (dx - dy - dx * dy + j * dx), 2 * (dx - dy - dx * dy + j * dx) < 3 * dx - 2 * dy
    PROVE  j = dy
<1> DEFINE m == 1 + j - dy
<1>1. m \in Int
  OBVIOUS
<1>2. dx * m = dx - dx * dy + j * dx
  OBVIOUS
<1>3. dy < 2 * (dx * m) /\ 2 * (dx * m) < 3 * dx
  BY <1>2
<1> HIDE DEF m
<1>4. m <= 0 => dx * m <= 0
  BY <1>1
<1>5. m >= 2 => dx * m >= 2 * dx
  BY <1>1
<1>6. m = 1
  BY <1>1, <1>3, <1>4, <1>5
<1> QED BY <1>6 DEF m


LEMMA WalkFlat ==
    ASSUME NEW a \in Point, NEW b \in Point, NEW L \in Nat, L = Length(a, b),
           Abs(b.x - a.x) > 0, Abs(b.x - a.x) >= Abs(b.y - a.y)
    PROVE  \A n \in 0 .. L : Flat(a, b, Walk(a, b)[n], n)
<1> DEFINE w == Walk(a, b)
           S == {n \in Nat : n <= L => Flat(a, b, w[n], n)}
<1>1. /\ w[0] = [x |-> a.x, y |-> a.y, err |-> Abs(b.x - a.x) - Abs(b.y - a.y)]
      /\ \A n \in 1 .. L : w[n] = Advanced(a, b, w[n - 1])
  BY WalkFact
<1>2. Flat(a, b, w[0], 0)
  <2> DEFINE dx == Abs(b.x - a.x)
             dy == Abs(b.y - a.y)
  <2>1. dx \in Nat /\ dy \in Nat /\ dx > 0 /\ dx >= dy /\ Toward(a.x, b.x) \in Int /\ Toward(a.y, b.y) \in Int
        /\ a.x \in Int /\ a.y \in Int
    BY LengthFact DEF Toward, Point
  <2>2. w[0] = [x |-> a.x, y |-> a.y, err |-> dx - dy]
    BY <1>1
  <2> HIDE DEF dx, dy, w
  <2>3. /\ w[0] \in [x : Int, y : Int, err : Int]
        /\ w[0].x = a.x + 0 * Toward(a.x, b.x) /\ w[0].y = a.y + 0 * Toward(a.y, b.y)
        /\ w[0].err = dx - dy - 0 * dy + 0 * dx
        /\ -dy < 2 * w[0].err /\ 2 * w[0].err < 3 * dx - 2 * dy
    BY <2>1, <2>2
  <2> QED BY <2>3 DEF Flat, dx, dy
<1> HIDE DEF w
<1>3. 0 \in S
  BY <1>2
<1>4. ASSUME NEW n \in Nat, n \in S PROVE n + 1 \in S
  <2>1. CASE n + 1 <= L
    <3>1. Flat(a, b, w[n], n)
      BY <1>4, <2>1
    <3>2. w[n + 1] = Advanced(a, b, w[n])
      <4>1. n + 1 \in 1 .. L /\ (n + 1) - 1 = n
        BY <2>1
      <4> QED BY <1>1, <4>1
    <3> QED BY <3>1, <3>2, FlatNext
  <2>2. CASE ~(n + 1 <= L)
    BY <2>2
  <2> QED BY <2>1, <2>2
<1>5. Nat \subseteq S
  <2> HIDE DEF S
  <2> QED BY <1>3, <1>4, Induction
<1> QED BY <1>5 DEF w

LEMMA WalkSteep ==
    ASSUME NEW a \in Point, NEW b \in Point, NEW L \in Nat, L = Length(a, b),
           Abs(b.y - a.y) > Abs(b.x - a.x)
    PROVE  \A n \in 0 .. L : Steep(a, b, Walk(a, b)[n], n)
<1> DEFINE w == Walk(a, b)
           S == {n \in Nat : n <= L => Steep(a, b, w[n], n)}
<1>1. /\ w[0] = [x |-> a.x, y |-> a.y, err |-> Abs(b.x - a.x) - Abs(b.y - a.y)]
      /\ \A n \in 1 .. L : w[n] = Advanced(a, b, w[n - 1])
  BY WalkFact
<1>2. Steep(a, b, w[0], 0)
  <2> DEFINE dx == Abs(b.x - a.x)
             dy == Abs(b.y - a.y)
  <2>1. dx \in Nat /\ dy \in Nat /\ dy > dx /\ Toward(a.x, b.x) \in Int /\ Toward(a.y, b.y) \in Int
        /\ a.x \in Int /\ a.y \in Int
    BY LengthFact DEF Toward, Point
  <2>2. w[0] = [x |-> a.x, y |-> a.y, err |-> dx - dy]
    BY <1>1
  <2> HIDE DEF dx, dy, w
  <2>3. /\ w[0] \in [x : Int, y : Int, err : Int]
        /\ w[0].x = a.x + 0 * Toward(a.x, b.x) /\ w[0].y = a.y + 0 * Toward(a.y, b.y)
        /\ w[0].err = dx - dy + 0 * dx - 0 * dy
        /\ -dx < -2 * w[0].err /\ -2 * w[0].err < 3 * dy - 2 * dx
    BY <2>1, <2>2
  <2> QED BY <2>3 DEF Steep, dx, dy
<1> HIDE DEF w
<1>3. 0 \in S
  BY <1>2
<1>4. ASSUME NEW n \in Nat, n \in S PROVE n + 1 \in S
  <2>1. CASE n + 1 <= L
    <3>1. Steep(a, b, w[n], n)
      BY <1>4, <2>1
    <3>2. w[n + 1] = Advanced(a, b, w[n])
      <4>1. n + 1 \in 1 .. L /\ (n + 1) - 1 = n
        BY <2>1
      <4> QED BY <1>1, <4>1
    <3> QED BY <3>1, <3>2, SteepNext
  <2>2. CASE ~(n + 1 <= L)
    BY <2>2
  <2> QED BY <2>1, <2>2
<1>5. Nat \subseteq S
  <2> HIDE DEF S
  <2> QED BY <1>3, <1>4, Induction
<1> QED BY <1>5 DEF w

\* The k-th coordinate has come all the way after |to - from| steps, and not before.
LEMMA ComesThere ==
    ASSUME NEW from \in Int, NEW to \in Int
    PROVE  /\ from + Abs(to - from) * Toward(from, to) = to
           /\ \A n \in Nat : n < Abs(to - from) => from + n * Toward(from, to) # to
  BY DEF Abs, Toward

LEMMA AdvancedNear ==
    ASSUME NEW a \in Point, NEW b \in Point, NEW s \in [x : Int, y : Int, err : Int]
    PROVE  Abs(Advanced(a, b, s).x - s.x) <= 1 /\ Abs(Advanced(a, b, s).y - s.y) <= 1
<1>1. /\ Advanced(a, b, s).x \in {s.x, s.x + Toward(a.x, b.x)}
      /\ Advanced(a, b, s).y \in {s.y, s.y + Toward(a.y, b.y)}
  BY DEF Advanced
<1>2. Toward(a.x, b.x) \in {1, -1} /\ Toward(a.y, b.y) \in {1, -1}
  BY DEF Toward
<1> QED BY <1>1, <1>2 DEF Abs

\* draw_line() reaches its end after Length turns of its loop, and no earlier, through
\* neighbouring pixels, for all integer points.
THEOREM LineJoins ==
    ASSUME NEW a \in Point, NEW b \in Point
    PROVE  /\ Joins(draw_line(a, b), a, b)
           /\ \A n \in 0 .. Length(a, b) - 1 : draw_line(a, b)[n] # <<b.x, b.y>>
<1> DEFINE L == Length(a, b)
           w == Walk(a, b)
           dx == Abs(b.x - a.x)
           dy == Abs(b.y - a.y)
           line == draw_line(a, b)
<1>1. /\ dx \in Nat /\ dy \in Nat /\ L = IF dx >= dy THEN dx ELSE dy
      /\ L \in Nat /\ a.x \in Int /\ a.y \in Int /\ b.x \in Int /\ b.y \in Int
  BY LengthFact DEF Point
<1>2. \A n \in 0 .. L : line[n] = <<w[n].x, w[n].y>>
  BY DEF draw_line
<1>3. /\ w[0] = [x |-> a.x, y |-> a.y, err |-> dx - dy]
      /\ \A n \in 1 .. L : w[n] = Advanced(a, b, w[n - 1])
  BY <1>1, WalkFact
<1>4. /\ \A n \in 0 .. L : w[n] \in [x : Int, y : Int, err : Int]
      /\ w[L].x = b.x /\ w[L].y = b.y
      /\ \A n \in 0 .. L - 1 : w[n].x # b.x \/ w[n].y # b.y
  <2>1. CASE dx >= dy /\ dx > 0
    <3>1. \A n \in 0 .. L : Flat(a, b, w[n], n)
      BY <1>1, <2>1, WalkFlat
    <3>2. /\ \A n \in 0 .. L : w[n] \in [x : Int, y : Int, err : Int] /\ w[n].x = a.x + n * Toward(a.x, b.x)
          /\ \E j \in Int : /\ w[L].y = a.y + j * Toward(a.y, b.y)
                            /\ w[L].err = dx - dy - L * dy + j * dx
          /\ -dy < 2 * w[L].err /\ 2 * w[L].err < 3 * dx - 2 * dy
      BY <1>1, <3>1 DEF Flat
    <3>3. L = dx
      BY <1>1, <2>1
    <3>4. PICK j \in Int : /\ w[L].y = a.y + j * Toward(a.y, b.y)
                           /\ w[L].err = dx - dy - L * dy + j * dx
      BY <3>2
    <3>5. j = dy
      <4> HIDE DEF dx, dy, L, w
      <4> QED BY <1>1, <2>1, <3>2, <3>3, <3>4, Arrival
    <3>6. w[L].x = b.x /\ w[L].y = b.y
      <4>1. w[L].x = a.x + dx * Toward(a.x, b.x)
        <5>1. L \in 0 .. L
          BY <1>1
        <5> HIDE DEF L, w, dx
        <5> QED BY <3>2, <3>3, <5>1
      <4> QED BY <1>1, <3>4, <3>5, <4>1, ComesThere
    <3>7. \A n \in 0 .. L - 1 : w[n].x # b.x
      <4> TAKE n \in 0 .. L - 1
      <4>1. n \in Nat /\ n < dx /\ n \in 0 .. L
        BY <1>1, <3>3
      <4>2. w[n].x = a.x + n * Toward(a.x, b.x)
        BY <3>2, <4>1
      <4>3. a.x + n * Toward(a.x, b.x) # b.x
        <5> HIDE DEF L, w
        <5> QED BY <1>1, <4>1, ComesThere
      <4> QED BY <4>2, <4>3
    <3> QED BY <3>2, <3>6, <3>7
  <2>2. CASE dy > dx
    <3>1. \A n \in 0 .. L : Steep(a, b, w[n], n)
      BY <1>1, <2>2, WalkSteep
    <3>2. /\ \A n \in 0 .. L : w[n] \in [x : Int, y : Int, err : Int] /\ w[n].y = a.y + n * Toward(a.y, b.y)
          /\ \E i \in Int : /\ w[L].x = a.x + i * Toward(a.x, b.x)
                            /\ w[L].err = dx - dy + L * dx - i * dy
          /\ -dx < -2 * w[L].err /\ -2 * w[L].err < 3 * dy - 2 * dx
      <4>1. L \in 0 .. L
        BY <1>1
      <4> HIDE DEF L, w
      <4> QED BY <3>1, <4>1 DEF Steep
    <3>3. L = dy
      BY <1>1, <2>2
    <3>4. PICK i \in Int : /\ w[L].x = a.x + i * Toward(a.x, b.x)
                           /\ w[L].err = dx - dy + L * dx - i * dy
      BY <3>2
    <3>5. i = dx
      <4> HIDE DEF dx, dy, L, w
      <4>1. dy * dx = L * dx /\ dy * dx \in Nat /\ i * dy \in Int
        BY <1>1, <3>3
      <4>2. -2 * w[L].err = 2 * (dy - dx - dy * dx + i * dy)
        BY <1>1, <3>4, <4>1
      <4> QED BY <1>1, <2>2, <3>2, <4>2, Arrival
    <3>6. w[L].x = b.x /\ w[L].y = b.y
      <4>1. w[L].y = a.y + dy * Toward(a.y, b.y)
        <5>1. L \in 0 .. L
          BY <1>1
        <5> HIDE DEF L, w, dy
        <5> QED BY <3>2, <3>3, <5>1
      <4> QED BY <1>1, <3>4, <3>5, <4>1, ComesThere
    <3>7. \A n \in 0 .. L - 1 : w[n].y # b.y
      <4> TAKE n \in 0 .. L - 1
      <4>1. n \in Nat /\ n < dy /\ n \in 0 .. L
        BY <1>1, <3>3
      <4>2. w[n].y = a.y + n * Toward(a.y, b.y)
        BY <3>2, <4>1
      <4>3. a.y + n * Toward(a.y, b.y) # b.y
        <5> HIDE DEF L, w
        <5> QED BY <1>1, <4>1, ComesThere
      <4> QED BY <4>2, <4>3
    <3> QED BY <3>2, <3>6, <3>7
  <2>3. CASE dx = 0 /\ dy = 0
    <3>1. a.x = b.x /\ a.y = b.y
      BY <1>1, <2>3 DEF Abs
    <3>2. L = 0
      BY <1>1, <2>3
    <3> QED BY <1>1, <1>3, <3>1, <3>2
  <2> QED BY <1>1, <2>1, <2>2, <2>3
<1>5. \A n \in 1 .. L : Abs(w[n].x - w[n - 1].x) <= 1 /\ Abs(w[n].y - w[n - 1].y) <= 1
  <2> TAKE n \in 1 .. L
  <2>1. w[n - 1] \in [x : Int, y : Int, err : Int] /\ w[n] = Advanced(a, b, w[n - 1])
    BY <1>1, <1>3, <1>4
  <2> QED BY <2>1, AdvancedNear
<1>6. line[0] = <<a.x, a.y>> /\ line[L] = <<b.x, b.y>>
  BY <1>1, <1>2, <1>3, <1>4
<1>7. \A n \in 1 .. L : Abs(line[n][1] - line[n - 1][1]) <= 1 /\ Abs(line[n][2] - line[n - 1][2]) <= 1
  BY <1>1, <1>2, <1>5
<1>8. \A n \in 0 .. L - 1 : line[n] # <<b.x, b.y>>
  BY <1>1, <1>2, <1>4
<1> QED BY <1>6, <1>7, <1>8 DEF Joins

-----------------------------------------------------------------------------
(* Wireframes: the images, and what a draw leaves in them *)

\* An image that exists has its pixels.
ImagesWhole == /\ \A o \in Live : Kind(o) = "image" => o \in DOMAIN pixels
               /\ DOMAIN pixels \subseteq Objects
               /\ \A o \in DOMAIN pixels : DOMAIN pixels[o] = Pixels(Info[o])

\* What was drawn, and where it is shown.
Shaped(d) == d.viewport \in GravViewport /\ \E m \in Nat : d.vertices = [n \in 1 .. m |-> d.vertices[n]]
Places == /\ at > 0 => /\ {"viewport", "scissor"} \subseteq DOMAIN state
                       /\ state.viewport \in GravViewport /\ state.scissor \in GravRect2D
                       /\ \A k \in DOMAIN drawn : Shaped(drawn[k])
          /\ at = 0 => drawn = << >>

\* No draw has read a vertex from outside its buffer: what lies there is not modelled.
Vertex == [x : Int, y : Int, z : Int]
Within == \A k \in DOMAIN drawn : \A n \in DOMAIN drawn[k].vertices : drawn[k].vertices[n] \in Vertex

LEMMA PaintingFact ==
    ASSUME NEW c, Len(OnScreen(c)) \in Nat
    PROVE  /\ Painting(c)[0] = Target
           /\ \A n \in 1 .. Len(OnScreen(c)) :
                Painting(c)[n] = draw_triangle(Painting(c)[n - 1], OnScreen(c)[n])
<1> DEFINE shown == OnScreen(c)
           L == Len(shown)
           first == Target
           A(i, n) == draw_triangle(i, shown[n])
           Course(f, k) == f = [n \in 0 .. k |-> IF n = 0 THEN first ELSE A(f[n - 1], n)]
           S == {k \in Nat : \E f : Course(f, k)}
<1> HIDE DEF first, A, L
<1>1. 0 \in S
  <2> DEFINE g == [n \in 0 .. 0 |-> first]
  <2>1. Course(g, 0)
    OBVIOUS
  <2> QED BY <2>1
<1>2. ASSUME NEW k \in Nat, k \in S PROVE k + 1 \in S
  <2>1. PICK f : Course(f, k)
    BY <1>2
  <2> DEFINE g == [n \in 0 .. k + 1 |-> IF n = k + 1 THEN A(f[k], k + 1) ELSE f[n]]
  <2>2. ASSUME NEW n \in 0 .. k + 1 PROVE g[n] = IF n = 0 THEN first ELSE A(g[n - 1], n)
    BY <2>1
  <2>3. Course(g, k + 1)
    BY <2>2
  <2>4. \E h : Course(h, k + 1)
    <3> HIDE DEF Course, g
    <3> QED BY <2>3
  <2> QED BY <2>4
<1>3. L \in S
  <2> HIDE DEF S
  <2> QED BY <1>1, <1>2, Induction DEF L
<1>4. PICK f : Course(f, L)
  BY <1>3
<1>5. Painting(c) = CHOOSE h : Course(h, L)
  BY DEF Painting, L, first, A
<1>6. Course(Painting(c), L)
  BY <1>4, <1>5
<1>7. 0 \in 0 .. L /\ \A n \in 1 .. L : n \in 0 .. L /\ n # 0
  BY DEF L
<1> QED BY <1>6, <1>7 DEF first, A, L

\* A pair of images with these pixels.
Framed(image, C, D) == \E color, depth : /\ image = [color |-> color, depth |-> depth]
                                          /\ DOMAIN color = C /\ DOMAIN depth = D

LEMMA TriangleFrame ==
    ASSUME NEW image, NEW C, NEW D, NEW t, Framed(image, C, D)
    PROVE  Framed(draw_triangle(image, t), C, D)
<1>1. PICK color, depth : /\ image = [color |-> color, depth |-> depth]
                          /\ DOMAIN color = C /\ DOMAIN depth = D
  BY DEF Framed
<1>2. CASE Info[state.pipeline].fillMode = "WIREFRAME"
  <2> DEFINE n == [p \in C |-> IF p \in Outline(t, Info[Color]) THEN White ELSE color[p]]
  <2>1. draw_triangle(image, t) = [color |-> n, depth |-> depth]
    BY <1>1, <1>2 DEF draw_triangle
  <2> QED BY <1>1, <2>1 DEF Framed
<1>3. CASE Info[state.pipeline].fillMode # "WIREFRAME"
  <2>1. Framed(Filled(image, t), C, D)
    <3>1. PICK seen : Filled(image, t) =
            [color |-> [p \in DOMAIN image.color |-> IF p \in seen THEN FragColor ELSE image.color[p]],
             depth |-> IF Depth # NULL /\ Info[state.pipeline].depthTest /\ Info[state.pipeline].depthWrite
                       THEN [p \in DOMAIN image.depth |-> IF p \in seen THEN t[1].z ELSE image.depth[p]]
                       ELSE image.depth]
      BY DEF Filled
    <3> DEFINE n == [p \in C |-> IF p \in seen THEN FragColor ELSE color[p]]
               e == IF Depth # NULL /\ Info[state.pipeline].depthTest /\ Info[state.pipeline].depthWrite
                    THEN [p \in D |-> IF p \in seen THEN t[1].z ELSE depth[p]]
                    ELSE depth
    <3>2. Filled(image, t) = [color |-> n, depth |-> e]
      BY <1>1, <3>1
    <3>3. DOMAIN n = C /\ DOMAIN e = D
      BY <1>1
    <3> HIDE DEF n, e
    <3> QED BY <3>2, <3>3 DEF Framed
  <2>2. draw_triangle(image, t) \in {image, Filled(image, t)}
    BY <1>3 DEF draw_triangle
  <2> QED BY <2>1, <2>2
<1> QED BY <1>2, <1>3

\* Drawing neither adds nor takes pixels, and what a line has made white stays white.
LEMMA PaintingFrame ==
    ASSUME NEW c, Len(OnScreen(c)) \in Nat, NEW C, NEW D, Framed(Target, C, D)
    PROVE  \A n \in 0 .. Len(OnScreen(c)) : Framed(Painting(c)[n], C, D)
<1> DEFINE L == Len(OnScreen(c))
           S == {n \in Nat : n <= L => Framed(Painting(c)[n], C, D)}
<1>1. 0 \in S
  BY PaintingFact
<1>2. ASSUME NEW n \in Nat, n \in S PROVE n + 1 \in S
  <2>1. CASE n + 1 <= L
    <3>1. Framed(Painting(c)[n], C, D)
      BY <1>2, <2>1
    <3>2. n + 1 \in 1 .. L /\ (n + 1) - 1 = n
      BY <2>1
    <3>3. Painting(c)[n + 1] = draw_triangle(Painting(c)[n], OnScreen(c)[n + 1])
      BY <3>2, PaintingFact
    <3> QED BY <3>1, <3>3, TriangleFrame
  <2>2. CASE ~(n + 1 <= L)
    BY <2>2
  <2> QED BY <2>1, <2>2
<1>3. Nat \subseteq S
  <2> HIDE DEF S
  <2> QED BY <1>1, <1>2, Induction
<1> QED BY <1>3

LEMMA PaintingWhite ==
    ASSUME NEW c, Len(OnScreen(c)) \in Nat, NEW C, NEW D, Framed(Target, C, D),
           Info[state.pipeline].fillMode = "WIREFRAME",
           NEW m \in 1 .. Len(OnScreen(c)), NEW p \in Outline(OnScreen(c)[m], Info[Color]), p \in C
    PROVE  Painting(c)[Len(OnScreen(c))].color[p] = White
<1> DEFINE L == Len(OnScreen(c))
           Line(n) == Outline(OnScreen(c)[n], Info[Color])
           S == {n \in Nat : m <= n /\ n <= L => Painting(c)[n].color[p] = White}
<1>1. ASSUME NEW n \in 1 .. L
      PROVE  Painting(c)[n].color[p] = IF p \in Line(n) THEN White ELSE Painting(c)[n - 1].color[p]
  <2>1. n - 1 \in 0 .. L
    OBVIOUS
  <2>2. PICK color, depth : /\ Painting(c)[n - 1] = [color |-> color, depth |-> depth]
                            /\ DOMAIN color = C
    <3>1. Framed(Painting(c)[n - 1], C, D)
      BY <2>1, PaintingFrame
    <3> QED BY <3>1 DEF Framed
  <2>3. Painting(c)[n] = draw_triangle(Painting(c)[n - 1], OnScreen(c)[n])
    BY PaintingFact
  <2>4. Painting(c)[n].color = [q \in C |-> IF q \in Line(n) THEN White ELSE color[q]]
    BY <2>2, <2>3 DEF draw_triangle
  <2> QED BY <2>2, <2>4
<1>2. 0 \in S
  OBVIOUS
<1>3. ASSUME NEW n \in Nat, n \in S PROVE n + 1 \in S
  <2> SUFFICES ASSUME m <= n + 1, n + 1 <= L PROVE Painting(c)[n + 1].color[p] = White
    OBVIOUS
  <2>1. n + 1 \in 1 .. L /\ (n + 1) - 1 = n
    OBVIOUS
  <2>2. CASE m = n + 1
    BY <1>1, <2>1, <2>2
  <2>3. CASE m <= n
    <3>1. Painting(c)[n].color[p] = White
      BY <1>3, <2>3
    <3> QED BY <1>1, <2>1, <3>1
  <2> QED BY <2>2, <2>3
<1>4. L \in S
  <2> HIDE DEF S
  <2> QED BY <1>2, <1>3, Induction
<1> QED BY <1>4

\* A draw has c.count vertices, and its triangles are made of them.
LEMMA VerticesFact ==
    ASSUME NEW c, c.count \in Nat
    PROVE  Vertices(c) = [n \in 1 .. c.count |-> Vertices(c)[n]]
  BY DEF Vertices

LEMMA TrianglesFact ==
    ASSUME NEW topology, NEW S, NEW m \in Nat, NEW v \in [1 .. m -> S]
    PROVE  /\ \E n \in Nat : DOMAIN Triangles(topology, v) = 1 .. n
           /\ \A n \in DOMAIN Triangles(topology, v), i \in Corner : Triangles(topology, v)[n][i] \in S
<1>1. v \in Seq(S) /\ Len(v) = m
  OBVIOUS
<1>2. CASE topology = "TRIANGLE_STRIP"
  <2> DEFINE ts == Triangles(topology, v)
  <2>1. ts = [k \in 1 .. m - 2 |-> IF k % 2 = 1 THEN <<v[k], v[k + 1], v[k + 2]>>
                                  ELSE <<v[k], v[k + 2], v[k + 1]>>]
    BY <1>1, <1>2 DEF Triangles
  <2> HIDE DEF ts
  <2>2. \E n \in Nat : DOMAIN ts = 1 .. n
    <3>1. DOMAIN ts = 1 .. m - 2
      BY <2>1
    <3>2. CASE m - 2 \in Nat
      BY <3>1, <3>2
    <3>3. CASE m - 2 \notin Nat
      <4>1. 1 .. m - 2 = 1 .. 0
        BY <3>3
      <4> QED BY <3>1, <4>1
    <3> QED BY <3>2, <3>3
  <2>3. ASSUME NEW n \in DOMAIN ts, NEW i \in Corner PROVE ts[n][i] \in S
    <3>1. n \in 1 .. m - 2 /\ n \in 1 .. m /\ n + 1 \in 1 .. m /\ n + 2 \in 1 .. m
      BY <2>1, <2>3
    <3>2. v[n] \in S /\ v[n + 1] \in S /\ v[n + 2] \in S
      BY <3>1
    <3>3. ts[n] = <<v[n], v[n + 1], v[n + 2]>> \/ ts[n] = <<v[n], v[n + 2], v[n + 1]>>
      BY <2>1, <3>1
    <3>4. i \in {1, 2, 3}
      BY DEF Corner
    <3> QED BY <3>2, <3>3, <3>4
  <2> QED BY <2>2, <2>3 DEF ts
<1>3. CASE topology # "TRIANGLE_STRIP"
  <2> DEFINE ts == Triangles(topology, v)
  <2>1. ts = [k \in 1 .. m \div 3 |-> <<v[3 * k - 2], v[3 * k - 1], v[3 * k]>>]
    BY <1>1, <1>3 DEF Triangles
  <2> HIDE DEF ts
  <2>2. \E n \in Nat : DOMAIN ts = 1 .. n
    <3>1. DOMAIN ts = 1 .. m \div 3 /\ m \div 3 \in Nat
      BY <2>1
    <3> QED BY <3>1
  <2>3. ASSUME NEW n \in DOMAIN ts, NEW i \in Corner PROVE ts[n][i] \in S
    <3>1. n \in 1 .. m \div 3 /\ 3 * n - 2 \in 1 .. m /\ 3 * n - 1 \in 1 .. m /\ 3 * n \in 1 .. m
      BY <2>1, <2>3
    <3>2. v[3 * n - 2] \in S /\ v[3 * n - 1] \in S /\ v[3 * n] \in S
      BY <3>1
    <3>3. ts[n] = <<v[3 * n - 2], v[3 * n - 1], v[3 * n]>>
      BY <2>1, <3>1
    <3>4. i \in {1, 2, 3}
      BY DEF Corner
    <3> QED BY <3>2, <3>3, <3>4
  <2> QED BY <2>2, <2>3 DEF ts
<1> QED BY <1>2, <1>3

\* A vertex is shown at a point of the screen.
LEMMA CornerFact ==
    ASSUME NEW vp \in GravViewport, NEW v \in Vertex
    PROVE  Truncated(ndc_to_screen(vp, v)) \in Point
<1> DEFINE s == ndc_to_screen(vp, v)
<1>1. s.x \in Int /\ s.y \in Int
  BY DEF ndc_to_screen, GravViewport, Vertex
<1> HIDE DEF s
<1>2. /\ s.x \div 2 \in Int /\ (-s.x) \div 2 \in Int
      /\ s.y \div 2 \in Int /\ (-s.y) \div 2 \in Int
  BY <1>1
<1>3. Truncated(s) \in Point
  BY <1>1, <1>2 DEF Truncated, Point
<1> QED BY <1>3 DEF s

\* The corners of a triangle that is drawn in lines are on its outline.
LEMMA CornerOnOutline ==
    ASSUME NEW t, NEW image, NEW i \in Corner, InImage(<<Truncated(t[i]).x, Truncated(t[i]).y>>, image),
           \A k \in Corner : Truncated(t[k]) \in Point
    PROVE  <<Truncated(t[i]).x, Truncated(t[i]).y>> \in Outline(t, image)
<1> DEFINE s == <<t[i], t[(i % 3) + 1]>>
           a == Truncated(s[1])
           b == Truncated(s[2])
<1>1. s \in Sides(t) /\ (i % 3) + 1 \in Corner
  <2>1. i \in {1, 2, 3}
    BY DEF Corner
  <2>2. 1 % 3 = 1 /\ 2 % 3 = 2 /\ 3 % 3 = 0
    OBVIOUS
  <2> QED BY <2>1, <2>2 DEF Sides, Corner
<1>2. a \in Point /\ b \in Point
  BY <1>1
<1>3. Length(a, b) \in Nat
  BY <1>2, LengthFact
<1>4. 0 \in 0 .. Length(a, b) /\ draw_line(a, b)[0] = <<a.x, a.y>>
  BY <1>2, <1>3, LineJoins DEF Joins
<1>5. <<a.x, a.y>> \in UNION {{draw_line(Truncated(r[1]), Truncated(r[2]))[n] :
                   n \in 0 .. Length(Truncated(r[1]), Truncated(r[2]))} : r \in Sides(t)}
  <2> HIDE DEF s
  <2> QED BY <1>1, <1>4
<1> QED BY <1>5 DEF Outline

LEMMA OnScreenFact ==
    ASSUME NEW c, c.count \in Nat
    PROVE  /\ Len(OnScreen(c)) \in Nat /\ DOMAIN OnScreen(c) = 1 .. Len(OnScreen(c))
           /\ DOMAIN OnScreen(c) = DOMAIN Triangles(Info[state.pipeline].topology, Vertices(c))
<1> DEFINE v == Vertices(c)
           S == {v[k] : k \in 1 .. c.count}
           ts == Triangles(Info[state.pipeline].topology, v)
           shown == OnScreen(c)
<1>1. v \in [1 .. c.count -> S]
  BY DEF Vertices
<1>2. PICK n \in Nat : DOMAIN ts = 1 .. n
  <2> HIDE DEF S, v
  <2> QED BY <1>1, TrianglesFact
<1>3. DOMAIN shown = 1 .. n /\ shown \in [1 .. n -> {shown[k] : k \in 1 .. n}]
  BY <1>2 DEF OnScreen
<1>4. Len(shown) = n
  <2> DEFINE T == {shown[k] : k \in 1 .. n}
  <2>1. shown \in [1 .. n -> T]
    BY <1>3
  <2> HIDE DEF T, shown
  <2> QED BY <2>1, <1>2
<1> QED BY <1>2, <1>3, <1>4

\* What a draw starts from, and the images it leaves, have the pixels they had.
LEMMA TargetFrame ==
    Framed(Target, DOMAIN pixels[Color],
           IF Depth = NULL THEN Pixels(Info[Color]) ELSE DOMAIN pixels[Depth])
<1> DEFINE D == IF Depth = NULL THEN Pixels(Info[Color]) ELSE DOMAIN pixels[Depth]
           depth == IF Depth = NULL THEN Whole(Info[Color], One) ELSE pixels[Depth]
<1>1. Target = [color |-> pixels[Color], depth |-> depth]
  BY DEF Target
<1>2. DOMAIN depth = D
  BY DEF Whole
<1> HIDE DEF depth, D
<1>3. Framed(Target, DOMAIN pixels[Color], D)
  BY <1>1, <1>2 DEF Framed
<1> QED BY <1>3 DEF D

LEMMA DrawFrame ==
    ASSUME NEW c, c.count \in Nat
    PROVE  Framed(Painting(c)[Len(OnScreen(c))], DOMAIN pixels[Color],
                  IF Depth = NULL THEN Pixels(Info[Color]) ELSE DOMAIN pixels[Depth])
<1> DEFINE C == DOMAIN pixels[Color]
           D == IF Depth = NULL THEN Pixels(Info[Color]) ELSE DOMAIN pixels[Depth]
<1>1. Framed(Target, C, D)
  BY TargetFrame
<1>2. Len(OnScreen(c)) \in Nat /\ Len(OnScreen(c)) \in 0 .. Len(OnScreen(c))
  BY OnScreenFact
<1> HIDE DEF C, D
<1>3. \A n \in 0 .. Len(OnScreen(c)) : Framed(Painting(c)[n], C, D)
  BY <1>1, <1>2, PaintingFrame
<1> QED BY <1>2, <1>3 DEF C, D

LEMMA ImagesNext ==
    ASSUME FullInv, ImagesWhole, [Next]_vars
    PROVE  ImagesWhole'
<1>1. CASE Create
  <2> DEFINE o == session.setup[created + 1]
  <2>1. /\ created \in Nat /\ created + 1 \in DOMAIN session.setup /\ o \in Objects
    <3>1. session.setup \in Seq(Objects) /\ created \in 0 .. Len(session.setup)
      BY GravAssumption DEF FullInv, IInv, Setting
    <3> QED BY <1>1, <3>1 DEF Create, Ready
  <2>2. /\ null \subseteq null' /\ wild \subseteq wild' /\ gone' = gone /\ session' = session /\ created' = created + 1
        /\ pixels' = IF Kind(o) = "image" /\ o \notin null' \cup wild' THEN [i \in DOMAIN pixels \cup {o} |-> IF i = o THEN Fresh(o) ELSE pixels[i]] ELSE pixels
    BY <1>1 DEF Create, Unwritten
  <2>3. \A k \in 1 .. created + 1 : k = created + 1 \/ k \in 1 .. created
    BY <2>1
  <2>4. Live' \subseteq Live \cup ({o} \ (null' \cup wild'))
    BY <2>2, <2>3 DEF Live
  <2>5. DOMAIN Fresh(o) = Pixels(Info[o])
    BY DEF Fresh, Whole
  <2> HIDE DEF o
  <2>6. CASE Kind(o) = "image" /\ o \notin null' \cup wild'
    <3>1. pixels' = [i \in DOMAIN pixels \cup {o} |-> IF i = o THEN Fresh(o) ELSE pixels[i]]
      BY <2>2, <2>6
    <3> QED BY <2>1, <2>4, <2>5, <3>1 DEF ImagesWhole
  <2>7. CASE ~(Kind(o) = "image" /\ o \notin null' \cup wild')
    <3>1. pixels' = pixels
      BY <2>2, <2>7
    <3> QED BY <2>4, <2>7, <3>1 DEF ImagesWhole
  <2> QED BY <2>6, <2>7
<1>2. ASSUME NEW o \in Objects, Destroy(o) PROVE ImagesWhole'
  <2>1. /\ gone' = gone \cup {o} /\ pixels' = [i \in DOMAIN pixels \ {o} |-> pixels[i]]
        /\ UNCHANGED <<session, created, null, wild>>
    BY <1>2 DEF Destroy
  <2>2. Live' = Live \ {o}
    BY <2>1 DEF Live
  <2> QED BY <2>1, <2>2 DEF ImagesWhole
<1>3. CASE UNCHANGED <<session, created, null, wild, gone, pixels>>
  <2>1. Live' = Live
    BY <1>3 DEF Live
  <2> QED BY <1>3, <2>1 DEF ImagesWhole
<1>4. CASE Execute
  <2> DEFINE c == cmds[at]
  <2>1. Live' = Live /\ Step(c) /\ Sound(c)
    <3>1. UNCHANGED <<session, created, null, wild, gone>> /\ Step(c) /\ at \in DOMAIN cmds
      BY <1>4 DEF Execute, Running, appVars
    <3> QED BY <3>1 DEF Live, FullInv, IInv, Recording
  <2> SUFFICES DOMAIN pixels \subseteq DOMAIN pixels' /\ DOMAIN pixels' \subseteq DOMAIN pixels
               /\ \A i \in DOMAIN pixels : DOMAIN pixels'[i] = Pixels(Info[i])
    BY <2>1 DEF ImagesWhole
  <2> HIDE DEF c
  <2>2. CASE BeginRenderPass(c)
    <3>1. \A i \in DOMAIN pixels : DOMAIN Whole(Info[i], Painted(c)) = Pixels(Info[i])
                                  /\ DOMAIN Whole(Info[i], c.clearDepth) = Pixels(Info[i])
      BY DEF Whole
    <3> QED BY <2>2, <3>1 DEF BeginRenderPass, ImagesWhole
  <2>3. CASE UNCHANGED pixels
    BY <2>3 DEF ImagesWhole
  <2>4. CASE Draw(c) /\ ~UNCHANGED pixels
    <3>1. c.count \in Nat
      BY <2>1, <2>4 DEF Draw, Sound, Typed
    <3> DEFINE image == Painting(c)[Len(OnScreen(c))]
    <3>2. pixels' = [i \in DOMAIN pixels |-> IF i = Color THEN image.color
                                            ELSE IF i = Depth THEN image.depth ELSE pixels[i]]
      BY <2>4 DEF Draw
    <3>3. PICK color, depth :
             /\ image = [color |-> color, depth |-> depth] /\ DOMAIN color = DOMAIN pixels[Color]
             /\ DOMAIN depth = IF Depth = NULL THEN Pixels(Info[Color]) ELSE DOMAIN pixels[Depth]
      BY <3>1, DrawFrame DEF Framed
    <3>4. \A i \in DOMAIN pixels : i # NULL
      BY GravAssumption DEF ImagesWhole
    <3> HIDE DEF image
    <3>5. image.color = color /\ image.depth = depth
      BY <3>3
    <3> QED BY <3>2, <3>3, <3>4, <3>5 DEF ImagesWhole
  <2>5. CASE ClearColorImage(c)
    <3>1. DOMAIN Whole(Info[c.image], Painted(c)) = Pixels(Info[c.image])
      BY DEF Whole
    <3> QED BY <2>5, <3>1 DEF ClearColorImage, ImagesWhole
  <2> QED BY <2>1, <2>2, <2>3, <2>4, <2>5
          DEF Step, EndRenderPass, BindPipeline, BindVertexBuffer, BindIndexBuffer, SetViewport, SetScissor, SetUniforms
<1> QED
  <2>1. CASE Update \/ gravBeginCommandBuffer \/ gravEndCommandBuffer \/ gravResetCommandBuffer
             \/ (\E c \in Offered : Record(c)) \/ Submit \/ Fault \/ Return \/ UNCHANGED vars
    BY <1>3, <2>1 DEF Update, gravBeginCommandBuffer, gravEndCommandBuffer, gravResetCommandBuffer, Record,
                      Submit, Fault, Return, vars, appVars, bufferVars, submitVars
  <2> QED BY <1>1, <1>2, <1>4, <2>1 DEF Next

LEMMA PlacesNext ==
    ASSUME FullInv, Places, [Next]_vars
    PROVE  Places'
<1>0. at \in Nat
  BY DEF FullInv, IInv, Recording
<1>1. CASE at' = 0 /\ drawn' = << >>
  BY <1>1 DEF Places
<1>2. CASE Submit
  <2>1. state' = Zeroed /\ drawn' = << >>
    BY <1>2 DEF Submit
  <2>2. /\ {"viewport", "scissor"} \subseteq DOMAIN Zeroed
        /\ Zeroed.viewport \in GravViewport /\ Zeroed.scissor \in GravRect2D
    BY DEF Zeroed, ZeroViewport, GravViewport, ZeroRect, GravRect2D
  <2>3. at' = 1
    BY <1>2 DEF Submit
  <2> QED BY <2>1, <2>2, <2>3 DEF Places
<1>3. CASE UNCHANGED <<at, state, drawn>>
  BY <1>3 DEF Places, Shaped
<1>4. CASE Execute
  <2> DEFINE c == cmds[at]
  <2>1. /\ at > 0 /\ at \in DOMAIN cmds /\ Step(c) /\ Sound(c) /\ c \in Recordable
        /\ at' = at + 1
    <3>1. DOMAIN cmds = 1 .. Len(cmds) /\ cmds \in Seq(Recordable)
      BY DEF FullInv, IInv, Recording
    <3> QED BY <1>4, <3>1 DEF Execute, Running, FullInv, IInv, Recording
  <2>2. /\ {"viewport", "scissor"} \subseteq DOMAIN state
        /\ state.viewport \in GravViewport /\ state.scissor \in GravRect2D
        /\ \A k \in DOMAIN drawn : Shaped(drawn[k])
    BY <2>1 DEF Places
  <2>3. \A h \in Checked(c) : h \in Objects
    <3>1. Named(c) \subseteq Made \cup {NULL} /\ Checked(c) \subseteq Named(c)
      BY <2>1 DEF Sound, Checked, Named
    <3>2. Made \subseteq Objects
      BY MadeFact DEF FullInv, IInv
    <3> QED BY <2>1, <3>1, <3>2 DEF Sound, Handle
  <2>4. Typed(c)
    BY <2>1 DEF Sound
  <2> HIDE DEF c
  <2>5. /\ {"viewport", "scissor"} \subseteq DOMAIN state'
        /\ state'.viewport \in GravViewport /\ state'.scissor \in GravRect2D
    <3>1. CASE BeginRenderPass(c)
      <4>1. /\ state'.viewport = AreaViewport(c.renderArea) /\ state'.scissor = c.renderArea
            /\ {"viewport", "scissor"} \subseteq DOMAIN state'
        BY <2>2, <3>1 DEF BeginRenderPass
      <4>2. c.renderArea \in GravRect2D
        BY <2>4, <3>1 DEF BeginRenderPass, Typed
      <4>3. AreaViewport(c.renderArea) \in GravViewport
        BY <4>2 DEF AreaViewport, GravViewport, GravRect2D, One
      <4> QED BY <4>1, <4>2, <4>3
    <3>2. CASE BindPipeline(c)
      <4>1. /\ state'.viewport = Info[c.pipeline].viewport /\ state'.scissor = Info[c.pipeline].scissor
            /\ {"viewport", "scissor"} \subseteq DOMAIN state'
        BY <2>2, <3>2 DEF BindPipeline
      <4>2. c.pipeline \in Objects /\ Kind(c.pipeline) = "pipeline"
        <5>1. c.type = "BIND_PIPELINE" /\ c.pipeline \in Checked(c)
          BY <3>2 DEF BindPipeline, Checked
        <5>2. IsA(c.pipeline, "pipeline") /\ c.pipeline \in Objects
          BY <2>3, <2>4, <5>1 DEF Typed
        <5> QED BY <5>2, GravAssumption DEF IsA
      <4> QED BY <4>1, <4>2, GravAssumption
    <3>3. CASE SetViewport(c)
      BY <2>2, <2>4, <3>3 DEF SetViewport, Typed
    <3>4. CASE SetScissor(c)
      BY <2>2, <2>4, <3>4 DEF SetScissor, Typed
    <3>5. CASE UNCHANGED state
      BY <2>2, <3>5
    <3>6. CASE BindVertexBuffer(c) \/ BindIndexBuffer(c)
      BY <2>2, <3>6 DEF BindVertexBuffer, BindIndexBuffer
    <3>7. CASE SetUniforms(c)
      BY <2>2, <3>7 DEF SetUniforms
    <3> QED BY <2>1, <3>1, <3>2, <3>3, <3>4, <3>5, <3>6, <3>7 DEF Step, EndRenderPass, Draw, ClearColorImage
  <2>6. \A k \in DOMAIN drawn' : Shaped(drawn'[k])
    <3>1. CASE drawn' = drawn
      BY <2>2, <3>1
    <3>2. CASE drawn' # drawn
      <4>1. Draw(c) /\ Shows(c)
        BY <2>1, <3>2 DEF Step, BeginRenderPass, EndRenderPass, BindPipeline, BindVertexBuffer, BindIndexBuffer,
                          SetViewport, SetScissor, SetUniforms, ClearColorImage, Draw
      <4>2. c.count \in Nat
        BY <2>4, <4>1 DEF Draw, Typed
      <4> DEFINE d == [at |-> at, framebuffer |-> state.framebuffer,
                       pipeline |-> state.pipeline, buffer |-> state.vertexBuffer,
                       vertices |-> Vertices(c), viewport |-> state.viewport,
                       scissor |-> state.scissor, uniforms |-> UniformsSeen]
      <4>3. drawn' = Append(drawn, d)
        BY <4>1 DEF Draw
      <4>4. Shaped(d)
        BY <2>2, <4>2, VerticesFact DEF Shaped
      <4>5. drawn \in Seq(Meanings)
        BY <2>1 DEF FullInv, DrawInv, Listed
      <4> HIDE DEF d
      <4>6. \A k \in DOMAIN drawn' : drawn'[k] = d \/ (k \in DOMAIN drawn /\ drawn'[k] = drawn[k])
        BY <4>3, <4>5
      <4> QED BY <2>2, <4>4, <4>6
    <3> QED BY <3>1, <3>2
  <2> QED BY <1>0, <2>1, <2>5, <2>6 DEF Places, Shaped
<1> QED
  <2>1. CASE Create \/ (\E o \in Objects : Destroy(o)) \/ Update \/ gravBeginCommandBuffer \/ gravEndCommandBuffer
             \/ gravResetCommandBuffer \/ (\E c \in Offered : Record(c)) \/ Return
    <3>1. at' = 0 /\ (drawn' = << >> \/ (at = 0 /\ drawn' = drawn))
      BY <2>1 DEF Create, Destroy, Update, gravBeginCommandBuffer, gravEndCommandBuffer,
                  gravResetCommandBuffer, Record, Return, Calls, submitVars
    <3> QED BY <1>1, <3>1 DEF Places
  <2>2. CASE Fault \/ UNCHANGED vars
    BY <1>3, <2>2 DEF Fault, vars, submitVars
  <2> QED BY <1>2, <1>4, <2>1, <2>2 DEF Next

-----------------------------------------------------------------------------
(* The corners of what was just drawn *)

\* The corners of d that lie in the image are white.
CornersWhite(d) ==
  LET ts == Triangles(Info[d.pipeline].topology, d.vertices)
      corner(t, i) == Truncated(ndc_to_screen(d.viewport, t[i]))
      color == Handle(Info[d.framebuffer].colorImage)
  IN Info[d.pipeline].fillMode = "WIREFRAME" =>
       \A n \in DOMAIN ts, i \in Corner :
         LET a == corner(ts[n], i)
         IN InImage(<<a.x, a.y>>, Info[color]) => pixels[color][<<a.x, a.y>>] = White

LastWhite == Within => \A k \in DOMAIN drawn : at = drawn[k].at + 1 => CornersWhite(drawn[k])

OutlineInv == FullInv /\ ImagesWhole /\ Places /\ LastWhite

\* A draw in lines finds its image there, and leaves the corners white.
LEMMA DrawWhite ==
    ASSUME OutlineInv, Execute, Draw(cmds[at]), Shows(cmds[at]),
           \A k \in DOMAIN Vertices(cmds[at]) : Vertices(cmds[at])[k] \in Vertex,
           NEW d, d.framebuffer = state.framebuffer, d.pipeline = state.pipeline,
           d.vertices = Vertices(cmds[at]), d.viewport = state.viewport
    PROVE  CornersWhite(d)'
<1> DEFINE c == cmds[at]
           ts == Triangles(Info[state.pipeline].topology, Vertices(c))
           shown == OnScreen(c)
<1>1. /\ at > 0 /\ at \in DOMAIN cmds /\ Sound(c) /\ Touched(c) \subseteq Live
      /\ UNCHANGED null
  <2>1. DOMAIN cmds = 1 .. Len(cmds)
    BY DEF OutlineInv, FullInv, IInv, Recording
  <2> QED BY <2>1 DEF Execute, Running, OutlineInv, FullInv, IInv, Recording, appVars
<1>2. state.viewport \in GravViewport
  BY <1>1 DEF OutlineInv, Places
<1>3. c.count \in Nat /\ c.type \in {"DRAW", "DRAW_INDEXED"}
  BY <1>1 DEF Draw, Sound, Typed
<1>4. /\ state.pipeline # NULL /\ state.framebuffer # NULL /\ Color # NULL
      /\ Color = Handle(Info[state.framebuffer].colorImage)
  BY DEF Shows, NoTarget, Color, Attached
<1>5. /\ Len(shown) \in Nat /\ DOMAIN shown = 1 .. Len(shown) /\ DOMAIN shown = DOMAIN ts
      /\ \A n \in DOMAIN ts : shown[n] = [i \in Corner |-> ndc_to_screen(state.viewport, ts[n][i])]
  <2>1. \A n \in DOMAIN ts : shown[n] = [i \in Corner |-> ndc_to_screen(state.viewport, ts[n][i])]
    BY DEF OnScreen
  <2> QED BY <1>3, <2>1, OnScreenFact
<1>6. \A n \in DOMAIN ts, i \in Corner : ts[n][i] \in Vertex
  <2>1. Vertices(c) \in [1 .. c.count -> Vertex]
    BY DEF Vertices
  <2> QED BY <1>3, <2>1, TrianglesFact
<1> SUFFICES ASSUME Info[state.pipeline].fillMode = "WIREFRAME",
                    NEW n \in DOMAIN ts, NEW i \in Corner,
                    InImage(<<Truncated(shown[n][i]).x, Truncated(shown[n][i]).y>>, Info[Color])
             PROVE  pixels'[Color][<<Truncated(shown[n][i]).x, Truncated(shown[n][i]).y>>] = White
  <2> DEFINE a(n, i) == Truncated(ndc_to_screen(state.viewport, ts[n][i]))
  <2>1. Handle(Info[d.framebuffer].colorImage)' = Color
    BY <1>1, <1>4 DEF Handle
  <2>2. \A n \in DOMAIN ts, i \in Corner : a(n, i) = Truncated(shown[n][i])
    BY <1>5
  <2>3. ASSUME Info[state.pipeline].fillMode = "WIREFRAME",
               NEW n \in DOMAIN ts, NEW i \in Corner, InImage(<<a(n, i).x, a(n, i).y>>, Info[Color])
        PROVE  pixels'[Color][<<a(n, i).x, a(n, i).y>>] = White
    <3> HIDE DEF a, shown, ts, c
    <3> QED BY <2>2, <2>3
  <2> QED BY <2>1, <2>3 DEF CornersWhite
<1> DEFINE p == <<Truncated(shown[n][i]).x, Truncated(shown[n][i]).y>>
<1>7. Color \in DOMAIN pixels
  <2>1. shown[n] \in Range(OnScreen(c))
    BY <1>5 DEF Range
  <2>2. Color \in TriangleTouches(c)
    BY <2>1 DEF TriangleTouches
  <2>3. Color \in Live
    <3>1. NULL \notin Buffers(c) /\ ~NoTarget /\ Shows(c)
      BY DEF Shows
    <3>2. Color \in DrawTouches(c)
      BY <2>2, <3>1 DEF DrawTouches
    <3>3. Touched(c) = DrawTouches(c)
      BY <1>3 DEF Touched
    <3> QED BY <1>1, <3>2, <3>3
  <2>4. Kind(state.framebuffer) = "framebuffer" /\ state.framebuffer \in Objects
    <3>1. HeldAs(state.framebuffer, "framebuffer") /\ Made \subseteq Objects
      BY <1>1, MadeFact DEF OutlineInv, FullInv, IInv, BoundHeld, Bindings
    <3> QED BY <1>4, <3>1 DEF HeldAs, Valid
  <2>5. IsA(Info[state.framebuffer].colorImage, "image")
    <3>1. Info[state.framebuffer].colorImage \in Led(state.framebuffer)
      BY <2>4 DEF Led
    <3> QED BY <2>4, <3>1, GravAssumption
  <2>6. Kind(Color) = "image"
    BY <1>4, <2>5 DEF Handle, IsA
  <2> QED BY <2>3, <2>6 DEF OutlineInv, ImagesWhole
<1>8. p \in DOMAIN pixels[Color]
  <2>1. DOMAIN pixels[Color] = Pixels(Info[Color])
    BY <1>7 DEF OutlineInv, ImagesWhole
  <2>2. p \in Pixels(Info[Color])
    BY DEF Pixels, InImage
  <2> QED BY <2>1, <2>2
<1>9. \A k \in Corner : Truncated(shown[n][k]) \in Point
  <2> TAKE k \in Corner
  <2>1. shown[n][k] = ndc_to_screen(state.viewport, ts[n][k]) /\ ts[n][k] \in Vertex
    BY <1>5, <1>6
  <2> QED BY <1>2, <2>1, CornerFact
<1>10. p \in Outline(shown[n], Info[Color])
  BY <1>9, CornerOnOutline
<1>11. pixels'[Color] = Painting(c)[Len(shown)].color
  BY <1>7 DEF Draw
<1>12. Framed(Target, DOMAIN pixels[Color],
              IF Depth = NULL THEN Pixels(Info[Color]) ELSE DOMAIN pixels[Depth])
  BY TargetFrame
<1>13. n \in 1 .. Len(shown)
  BY <1>5
<1>14. Painting(c)[Len(shown)].color[p] = White
  <2> DEFINE C == DOMAIN pixels[Color]
             D == IF Depth = NULL THEN Pixels(Info[Color]) ELSE DOMAIN pixels[Depth]
  <2> HIDE DEF p, c, C, D
  <2>1. Framed(Target, C, D) /\ p \in C
    BY <1>8, <1>12 DEF C, D
  <2> QED BY <1>5, <1>10, <1>13, <2>1, PaintingWhite
<1> QED BY <1>11, <1>14

LEMMA WhiteNext ==
    ASSUME OutlineInv, [Next]_vars
    PROVE  LastWhite'
<1> SUFFICES ASSUME Within', NEW k \in DOMAIN drawn', at' = drawn'[k].at + 1
             PROVE  CornersWhite(drawn[k])'
  BY DEF LastWhite
<1>1. CASE UNCHANGED <<pixels, null, at, drawn>>
  <2>1. Within
    BY <1>1 DEF Within
  <2>2. CornersWhite(drawn[k])
    BY <1>1, <2>1 DEF OutlineInv, LastWhite
  <2>3. CornersWhite(drawn[k])' = CornersWhite(drawn[k])
    BY <1>1 DEF CornersWhite, Handle
  <2> QED BY <2>2, <2>3
<1>2. CASE drawn' = << >>
  BY <1>2
<1>3. CASE Execute
  <2> DEFINE c == cmds[at]
             d == [at |-> at, framebuffer |-> state.framebuffer,
                   pipeline |-> state.pipeline, buffer |-> state.vertexBuffer,
                   vertices |-> Vertices(c), viewport |-> state.viewport,
                   scissor |-> state.scissor, uniforms |-> UniformsSeen]
  <2>1. at \in Nat /\ at > 0 /\ Step(c) /\ at' = at + 1
    <3>1. DOMAIN cmds = 1 .. Len(cmds) /\ at \in Nat
      BY DEF OutlineInv, FullInv, IInv, Recording
    <3> QED BY <1>3, <3>1 DEF Execute, Running
  <2>2. drawn \in Seq(Meanings) /\ \A n \in DOMAIN drawn : drawn[n].at \in 1 .. at - 1
    <3>1. Listed(drawn, at)
      BY <2>1 DEF OutlineInv, FullInv, DrawInv
    <3> QED BY <3>1 DEF Listed
  <2>3. \A n \in DOMAIN drawn : drawn[n].at + 1 # at + 1
    BY <2>1, <2>2
  <2>4. CASE drawn' = drawn
    BY <2>1, <2>3, <2>4
  <2>5. CASE drawn' # drawn
    <3>1. Draw(c) /\ Shows(c)
      BY <2>1, <2>5 DEF Step, BeginRenderPass, EndRenderPass, BindPipeline, BindVertexBuffer, BindIndexBuffer,
                        SetViewport, SetScissor, SetUniforms, ClearColorImage, Draw
    <3>2. drawn' = Append(drawn, d)
      BY <3>1 DEF Draw
    <3>3. drawn'[k] = d
      <4> HIDE DEF d
      <4>1. drawn'[k] = d \/ (k \in DOMAIN drawn /\ drawn'[k] = drawn[k])
        BY <2>2, <3>2
      <4> QED BY <2>1, <2>3, <4>1
    <3>4. \A n \in DOMAIN Vertices(c) : Vertices(c)[n] \in Vertex
      <4>1. d.vertices = Vertices(c)
        OBVIOUS
      <4> HIDE DEF d
      <4>2. \A n \in DOMAIN drawn'[k].vertices : drawn'[k].vertices[n] \in Vertex
        BY DEF Within
      <4> QED BY <3>3, <4>1, <4>2
    <3>5. PICK e : e = drawn'[k]
      OBVIOUS
    <3>6. /\ e.framebuffer = state.framebuffer /\ e.pipeline = state.pipeline
          /\ e.vertices = Vertices(c) /\ e.viewport = state.viewport
      BY <3>3, <3>5
    <3>7. CornersWhite(e)'
      BY <1>3, <3>1, <3>4, <3>6, DrawWhite
    <3> QED BY <3>5, <3>7 DEF CornersWhite
  <2> QED BY <2>4, <2>5
<1> QED
  <2>1. CASE Fault \/ UNCHANGED vars
    BY <1>1, <2>1 DEF Fault, vars, appVars, submitVars
  <2>2. CASE Submit \/ Return
    BY <1>2, <2>2 DEF Submit, Return
  <2>3. CASE Create \/ (\E o \in Objects : Destroy(o)) \/ Update \/ gravBeginCommandBuffer \/ gravEndCommandBuffer
             \/ gravResetCommandBuffer \/ (\E c \in Offered : Record(c))
    <3>1. at = 0 /\ drawn' = drawn
      BY <2>3 DEF Create, Destroy, Update, gravBeginCommandBuffer, gravEndCommandBuffer,
                  gravResetCommandBuffer, Record, Calls, submitVars
    <3>2. at = 0 => drawn = << >>
      BY DEF OutlineInv, Places
    <3> QED BY <1>2, <3>1, <3>2
  <2> QED BY <1>3, <2>1, <2>2, <2>3 DEF Next

\* While no draw reads a vertex from outside its buffer: each line of a wireframe is a chain
\* of neighbouring pixels from corner to corner, and the corners in the image are white right
\* after the draw (draw_triangle(), draw_line(), execute_draw()), for every viewport and every
\* set of vertices, images and applications.
THEOREM OutlinesSafe == Spec => [](Within => OutlineJoins)
<1>1. Init => FullInv /\ ImagesWhole /\ Places /\ LastWhite
  <2> SUFFICES ASSUME Init PROVE FullInv /\ ImagesWhole /\ Places /\ LastWhite
    OBVIOUS
  <2>1. FullInv
    BY InitInv DEF FullInv, DrawInv, Init
  <2>2. Live = {} /\ pixels = << >> /\ drawn = << >> /\ at = 0
    BY DEF Init, Live
  <2> QED BY <2>1, <2>2 DEF ImagesWhole, Places, LastWhite
<1>2. OutlineInv /\ [Next]_vars => OutlineInv'
  <2> SUFFICES ASSUME OutlineInv, [Next]_vars PROVE OutlineInv'
    OBVIOUS
  <2>1. FullInv'
    BY NextInv, DrawNext DEF OutlineInv, FullInv
  <2>2. ImagesWhole' /\ Places' /\ LastWhite'
    BY ImagesNext, PlacesNext, WhiteNext DEF OutlineInv
  <2> QED BY <2>1, <2>2 DEF OutlineInv
<1>3. OutlineInv => (Within => OutlineJoins)
  <2> SUFFICES ASSUME OutlineInv, Within, NEW k \in DOMAIN drawn, Info[drawn[k].pipeline].fillMode = "WIREFRAME",
                      NEW n \in DOMAIN Triangles(Info[drawn[k].pipeline].topology, drawn[k].vertices),
                      NEW i \in Corner
               PROVE  LET d == drawn[k]
                          ts == Triangles(Info[d.pipeline].topology, d.vertices)
                          corner(t, j) == Truncated(ndc_to_screen(d.viewport, t[j]))
                          color == Handle(Info[d.framebuffer].colorImage)
                          a == corner(ts[n], i)
                          z == corner(ts[n], (i % 3) + 1)
                      IN /\ Joins(draw_line(a, z), a, z)
                         /\ (at = d.at + 1 /\ InImage(<<a.x, a.y>>, Info[color]))
                              => pixels[color][<<a.x, a.y>>] = White
    BY DEF OutlineJoins
  <2> DEFINE d == drawn[k]
             ts == Triangles(Info[d.pipeline].topology, d.vertices)
             corner(j) == Truncated(ndc_to_screen(d.viewport, ts[n][j]))
             color == Handle(Info[d.framebuffer].colorImage)
  <2>1. Shaped(d)
    <3>1. at > 0
      <4>1. at # 0 /\ at \in Nat
        BY DEF OutlineInv, Places, FullInv, IInv, Recording
      <4> QED BY <4>1
    <3> QED BY <3>1 DEF OutlineInv, Places
  <2>2. \A j \in Corner : corner(j) \in Point
    <3>1. PICK m \in Nat : d.vertices = [q \in 1 .. m |-> d.vertices[q]]
      BY <2>1 DEF Shaped
    <3>2. DOMAIN d.vertices = 1 .. m /\ \A q \in 1 .. m : d.vertices[q] \in Vertex
      BY <3>1 DEF Within
    <3>3. PICK v \in [1 .. m -> Vertex] : v = d.vertices
      BY <3>1, <3>2
    <3>4. \A j \in Corner : ts[n][j] \in Vertex
      BY <3>3, TrianglesFact
    <3> HIDE DEF d, ts
    <3> QED BY <2>1, <3>4, CornerFact DEF Shaped
  <2>3. i \in Corner /\ (i % 3) + 1 \in Corner
    <3>1. i \in {1, 2, 3}
      BY DEF Corner
    <3>2. 1 % 3 = 1 /\ 2 % 3 = 2 /\ 3 % 3 = 0
      OBVIOUS
    <3> QED BY <3>1, <3>2 DEF Corner
  <2>4. Joins(draw_line(corner(i), corner((i % 3) + 1)), corner(i), corner((i % 3) + 1))
    <3> HIDE DEF corner
    <3> QED BY <2>2, <2>3, LineJoins
  <2>5. at = d.at + 1 /\ InImage(<<corner(i).x, corner(i).y>>, Info[color])
           => pixels[color][<<corner(i).x, corner(i).y>>] = White
    BY DEF OutlineInv, LastWhite, CornersWhite
  <2> QED BY <2>4, <2>5
<1> QED BY <1>1, <1>2, <1>3, PTL DEF Spec, OutlineInv

-----------------------------------------------------------------------------
(* Filled triangles *)

\* The identity that makes barycentric coordinates weights.
LEMMA Weights ==
    ASSUME NEW ux \in Int, NEW uy \in Int, NEW vx \in Int, NEW vy \in Int, NEW rx \in Int, NEW ry \in Int
    PROVE  /\ (vx * ry - vy * rx) * ux + (rx * uy - ry * ux) * vx = (vx * uy - vy * ux) * rx
           /\ (vx * ry - vy * rx) * uy + (rx * uy - ry * ux) * vy = (vx * uy - vy * ux) * ry
  OBVIOUS

\* Named, so that it can be cited at given values.
Undone(ux, uy, vx, vy, rx, ry, a, b, n) ==
  n * rx = a * ux + b * vx /\ n * ry = a * uy + b * vy =>
    /\ n * (vx * ry - vy * rx) = a * (vx * uy - vy * ux)
    /\ n * (rx * uy - ry * ux) = b * (vx * uy - vy * ux)

LEMMA Unweighted ==
    ASSUME NEW ux \in Int, NEW uy \in Int, NEW vx \in Int, NEW vy \in Int, NEW rx \in Int, NEW ry \in Int,
           NEW a \in Int, NEW b \in Int, NEW n \in Int
    PROVE  Undone(ux, uy, vx, vy, rx, ry, a, b, n)
<1> SUFFICES ASSUME n * rx = a * ux + b * vx, n * ry = a * uy + b * vy
             PROVE  /\ n * (vx * ry - vy * rx) = a * (vx * uy - vy * ux)
                    /\ n * (rx * uy - ry * ux) = b * (vx * uy - vy * ux)
  BY DEF Undone
<1>1. n * (vx * ry - vy * rx) = vx * (n * ry) - vy * (n * rx)
  OBVIOUS
<1>2. n * (rx * uy - ry * ux) = (n * rx) * uy - (n * ry) * ux
  OBVIOUS
<1>3. vx * (a * uy + b * vy) - vy * (a * ux + b * vx) = a * (vx * uy - vy * ux)
  OBVIOUS
<1>4. (a * ux + b * vx) * uy - (a * uy + b * vy) * ux = b * (vx * uy - vy * ux)
  OBVIOUS
<1> QED BY <1>1, <1>2, <1>3, <1>4

LEMMA Cancel ==
    ASSUME NEW n \in Int, n # 0, NEW a \in Int, NEW b \in Int, n * a = n * b
    PROVE  a = b
  OBVIOUS

\* A weighted mean, seen from its last corner.
Shifted(a, b, n, x1, x2, x3, q) ==
  a * x1 + b * x2 + (n - a - b) * x3 = n * q <=> n * (q - x3) = a * (x1 - x3) + b * (x2 - x3)

LEMMA Shift ==
    ASSUME NEW a \in Int, NEW b \in Int, NEW n \in Int, NEW x1 \in Int, NEW x2 \in Int, NEW x3 \in Int, NEW q \in Int
    PROVE  Shifted(a, b, n, x1, x2, x3, q)
<1>1. (a * x1 + b * x2 + (n - a - b) * x3) - n * q = (a * (x1 - x3) + b * (x2 - x3)) - n * (q - x3)
  OBVIOUS
<1> DEFINE l == a * x1 + b * x2 + (n - a - b) * x3
           m == n * q
           r == a * (x1 - x3) + b * (x2 - x3)
           k == n * (q - x3)
<1>2. l \in Int /\ m \in Int /\ r \in Int /\ k \in Int
  OBVIOUS
<1>3. l - m = r - k
  BY <1>1
<1> HIDE DEF l, m, r, k
<1>4. l = m <=> k = r
  BY <1>2, <1>3
<1> QED BY <1>4 DEF l, m, r, k, Shifted

LEMMA SumsOrdered ==
    ASSUME NEW a \in Int, NEW b \in Int, NEW c \in Int, NEW u \in Int, NEW v \in Int, NEW w \in Int,
           a <= u, b <= v, c <= w
    PROVE  a + b + c <= u + v + w
  OBVIOUS

\* n * q is the weighted mean of u, v and w.
Mean(a, b, n, u, v, w, q) == a * u + b * v + (n - a - b) * w = n * q

\* Between its corners: a triangle lies in its bounding box.
Lies(a, b, n, u, v, w, q, low, high) ==
  /\ n > 0 /\ a + b <= n /\ Mean(a, b, n, u, v, w, q)
  /\ low <= u /\ low <= v /\ low <= w /\ u <= high /\ v <= high /\ w <= high
  => low <= q /\ q <= high

LEMMA Between ==
    ASSUME NEW a \in Nat, NEW b \in Nat, NEW n \in Nat,
           NEW u \in Int, NEW v \in Int, NEW w \in Int, NEW q \in Int, NEW low \in Int, NEW high \in Int
    PROVE  Lies(a, b, n, u, v, w, q, low, high)
<1> SUFFICES ASSUME n > 0, a + b <= n, Mean(a, b, n, u, v, w, q),
                    low <= u, low <= v, low <= w, u <= high, v <= high, w <= high
             PROVE  low <= q /\ q <= high
  BY Zenon DEF Lies
<1> DEFINE c == n - a - b
<1>1. c \in Nat /\ a + b + c = n
  OBVIOUS
<1> HIDE DEF c
<1>2. a * low <= a * u /\ b * low <= b * v /\ c * low <= c * w
  BY <1>1
<1>3. a * u <= a * high /\ b * v <= b * high /\ c * w <= c * high
  BY <1>1
<1>4. a * u + b * v + c * w = n * q
  BY DEF c, Mean
<1>5. n * low = a * low + b * low + c * low /\ n * high = a * high + b * high + c * high
  <2>1. n = a + b + c
    BY <1>1
  <2> QED BY <1>1, <2>1
<1>6. n * low <= n * q /\ n * q <= n * high
  <2>1. /\ a * u \in Int /\ b * v \in Int /\ c * w \in Int /\ a * low \in Int /\ b * low \in Int /\ c * low \in Int
        /\ a * high \in Int /\ b * high \in Int /\ c * high \in Int /\ n * q \in Int /\ n * low \in Int /\ n * high \in Int
    BY <1>1
  <2>2. a * low + b * low + c * low <= a * u + b * v + c * w
    <3>1. a * v \in Int /\ b * v \in Int /\ c * w \in Int
      BY <1>1
    <3> QED BY <1>2, <2>1, <3>1, SumsOrdered
  <2>3. a * u + b * v + c * w <= a * high + b * high + c * high
    <3>1. a * v \in Int /\ b * v \in Int /\ c * w \in Int
      BY <1>1
    <3> QED BY <1>3, <2>1, <3>1, SumsOrdered
  <2> QED BY <1>4, <1>5, <2>2, <2>3
<1>7. ASSUME low > q PROVE n * low > n * q
  BY <1>7
<1>8. ASSUME q > high PROVE n * q > n * high
  BY <1>8
<1> QED BY <1>6, <1>7, <1>8

LEMMA TriangleTypes ==
    ASSUME NEW t, \A k \in Corner : t[k] \in Vertex
    PROVE  /\ t[1].x \in Int /\ t[2].x \in Int /\ t[3].x \in Int
           /\ t[1].y \in Int /\ t[2].y \in Int /\ t[3].y \in Int /\ t[1].z \in Int
           /\ Area(t) \in Int
<1>1. 1 \in Corner /\ 2 \in Corner /\ 3 \in Corner
  BY DEF Corner
<1>2. t[1] \in Vertex /\ t[2] \in Vertex /\ t[3] \in Vertex
  BY <1>1
<1> QED BY <1>2 DEF Vertex, Area, Cross

\* The three signs that rasterize_triangle() compares are those of a point that is a weighted
\* mean of the corners: it fills the closed triangle, whichever way it turns.
THEOREM CoveredIsTriangle ==
    ASSUME NEW t, \A k \in Corner : t[k] \in Vertex, Area(t) # 0,
           NEW p, p[1] \in Int, p[2] \in Int
    PROVE  Covered(t, p) <=> InTriangle(t, Centre(p))
<1> DEFINE q == Centre(p)
           A == Area(t)
           ux == t[1].x - t[3].x
           uy == t[1].y - t[3].y
           vx == t[2].x - t[3].x
           vy == t[2].y - t[3].y
           rx == q.x - t[3].x
           ry == q.y - t[3].y
           w0 == vx * ry - vy * rx
           w1 == rx * uy - ry * ux
           n == Abs(A)
<1>1. /\ t[1].x \in Int /\ t[2].x \in Int /\ t[3].x \in Int
      /\ t[1].y \in Int /\ t[2].y \in Int /\ t[3].y \in Int /\ q.x \in Int /\ q.y \in Int /\ A \in Int
  BY TriangleTypes DEF Centre
<1>2. /\ ux \in Int /\ uy \in Int /\ vx \in Int /\ vy \in Int /\ rx \in Int /\ ry \in Int
      /\ w0 \in Int /\ w1 \in Int
  BY <1>1
<1>3. A = vx * uy - vy * ux
  BY <1>1 DEF Area, Cross
<1>4. Cross(t[2], q, t[2], t[3]) = w0 /\ Cross(t[3], q, t[3], t[1]) = w1
  BY <1>1 DEF Cross
<1>5. Covered(t, p) <=> w0 * A >= 0 /\ w1 * A >= 0 /\ (A - w0 - w1) * A >= 0
  <2>1. Barycentric(t, q) = <<w0, w1, A - w0 - w1>>
    BY <1>4 DEF Barycentric
  <2>2. Corner = {1, 2, 3}
    BY DEF Corner
  <2> HIDE DEF w0, w1, A, q
  <2> QED BY <2>1, <2>2 DEF Covered, q, A
<1>6. /\ w0 * ux + w1 * vx = A * rx
      /\ w0 * uy + w1 * vy = A * ry
  <2> HIDE DEF ux, uy, vx, vy, rx, ry
  <2> QED BY <1>2, <1>3, Weights
<1>7. n \in Nat /\ n > 0 /\ (n = A \/ n = -A)
  BY <1>1 DEF Abs
<1>8. \A a, b \in Int :
         /\ a * t[1].x + b * t[2].x + (n - a - b) * t[3].x = n * q.x <=> n * rx = a * ux + b * vx
         /\ a * t[1].y + b * t[2].y + (n - a - b) * t[3].y = n * q.y <=> n * ry = a * uy + b * vy
  <2> TAKE a, b \in Int
  <2> HIDE DEF n, q
  <2>1. n \in Int
    BY <1>7
  <2>2. Shifted(a, b, n, t[1].x, t[2].x, t[3].x, q.x) /\ Shifted(a, b, n, t[1].y, t[2].y, t[3].y, q.y)
    BY <1>1, <2>1, Shift
  <2> QED BY <2>2, Zenon DEF Shifted
<1>9. InTriangle(t, q) <=> \E a, b \in 0 .. n : /\ a + b <= n
                                               /\ n * rx = a * ux + b * vx
                                               /\ n * ry = a * uy + b * vy
  <2>1. \A a \in 0 .. n : a \in Int
    BY <1>7
  <2> HIDE DEF n, q, rx, ry, ux, uy, vx, vy
  <2> QED BY <1>8, <2>1 DEF InTriangle, n, A
<1> HIDE DEF q, A, ux, uy, vx, vy, rx, ry, w0, w1, n
<1>10. ASSUME Covered(t, p) PROVE InTriangle(t, q)
  <2>1. CASE n = A
    <3>1. w0 >= 0 /\ w1 >= 0 /\ A - w0 - w1 >= 0
      <4>1. \A w \in Int : w * A >= 0 => w >= 0
        BY <1>1, <1>7, <2>1
      <4> QED BY <1>1, <1>2, <1>5, <1>10, <4>1
    <3>2. w0 \in 0 .. n /\ w1 \in 0 .. n /\ w0 + w1 <= n
      BY <1>1, <1>2, <2>1, <3>1
    <3> QED BY <1>6, <1>9, <2>1, <3>2
  <2>2. CASE n = -A
    <3>1. -w0 >= 0 /\ -w1 >= 0 /\ n + w0 + w1 >= 0
      <4>1. \A w \in Int : w * A >= 0 => w <= 0
        BY <1>1, <1>7, <2>2
      <4>2. A - w0 - w1 <= 0
        <5> DEFINE e == A - w0 - w1
        <5>1. e \in Int /\ e * A >= 0
          BY <1>1, <1>2, <1>5, <1>10
        <5> HIDE DEF e
        <5>2. e <= 0
          BY <4>1, <5>1
        <5> QED BY <5>2 DEF e
      <4> QED BY <1>1, <1>2, <1>5, <1>10, <2>2, <4>1, <4>2
    <3>2. -w0 \in 0 .. n /\ -w1 \in 0 .. n /\ (-w0) + (-w1) <= n
      BY <1>1, <1>2, <2>2, <3>1, <1>7
    <3>3. n * rx = (-w0) * ux + (-w1) * vx /\ n * ry = (-w0) * uy + (-w1) * vy
      <4>1. n * rx = -(A * rx) /\ n * ry = -(A * ry)
        BY <1>1, <1>2, <2>2
      <4>2. /\ (-w0) * ux + (-w1) * vx = -(w0 * ux + w1 * vx)
            /\ (-w0) * uy + (-w1) * vy = -(w0 * uy + w1 * vy)
        BY <1>2
      <4> QED BY <1>6, <4>1, <4>2
    <3> QED BY <1>9, <3>2, <3>3
  <2> QED BY <1>7, <2>1, <2>2
<1>11. ASSUME InTriangle(t, q) PROVE Covered(t, p)
  <2>1. PICK a \in 0 .. n, b \in 0 .. n : a + b <= n /\ n * rx = a * ux + b * vx /\ n * ry = a * uy + b * vy
    BY <1>9, <1>11
  <2>2. a \in Nat /\ b \in Nat /\ n - a - b \in Nat /\ a \in Int /\ b \in Int /\ n \in Int
    BY <1>7, <2>1
  <2>3. n * w0 = a * A /\ n * w1 = b * A
    <3>1. /\ n * (vx * ry - vy * rx) = a * (vx * uy - vy * ux)
          /\ n * (rx * uy - ry * ux) = b * (vx * uy - vy * ux)
      <4>1. Undone(ux, uy, vx, vy, rx, ry, a, b, n)
        BY <1>2, <2>2, Unweighted
      <4> QED BY <2>1, <4>1, Zenon DEF Undone
    <3> QED BY <1>3, <3>1 DEF w0, w1
  <2>4. CASE n = A
    <3>1. w0 = a /\ w1 = b
      <4>1. n * w0 = n * a /\ n * w1 = n * b
        BY <1>1, <1>2, <2>2, <2>3, <2>4
      <4> QED BY <1>2, <1>7, <2>2, <4>1, Cancel
    <3>2. \A w \in Nat : w * A >= 0
      BY <1>1, <1>7, <2>4
    <3>3. A - w0 - w1 \in Nat /\ w0 \in Nat /\ w1 \in Nat
      BY <2>2, <2>4, <3>1
    <3> QED BY <1>5, <3>2, <3>3
  <2>5. CASE n = -A
    <3>1. w0 = -a /\ w1 = -b
      <4>1. n * w0 = n * (-a) /\ n * w1 = n * (-b)
        <5>1. a * A = n * (-a) /\ b * A = n * (-b)
          BY <1>1, <2>2, <2>5
        <5> QED BY <2>3, <5>1
      <4> QED BY <1>2, <1>7, <2>2, <4>1, Cancel
    <3>2. \A w \in Nat : (-w) * A >= 0
      BY <1>1, <1>7, <2>5
    <3>3. A - w0 - w1 = -(n - a - b)
      BY <1>1, <2>2, <2>5, <3>1
    <3> QED BY <1>5, <2>2, <3>1, <3>2, <3>3
  <2> QED BY <1>7, <2>4, <2>5
<1> QED BY <1>10, <1>11 DEF q

\* The extremes of three numbers.
Extreme(u, v, w) ==
  /\ Min({u, v, w}) \in Int /\ Max({u, v, w}) \in Int
  /\ Min({u, v, w}) <= u /\ Min({u, v, w}) <= v /\ Min({u, v, w}) <= w
  /\ u <= Max({u, v, w}) /\ v <= Max({u, v, w}) /\ w <= Max({u, v, w})
  /\ Min({u, v, w}) = u \/ Min({u, v, w}) = v \/ Min({u, v, w}) = w
  /\ Max({u, v, w}) = u \/ Max({u, v, w}) = v \/ Max({u, v, w}) = w

LEMMA Extremes ==
    ASSUME NEW u \in Int, NEW v \in Int, NEW w \in Int
    PROVE  Extreme(u, v, w)
<1> DEFINE S == {u, v, w}
<1>1. \E x \in S : \A y \in S : x <= y
  OBVIOUS
<1>2. \E x \in S : \A y \in S : x >= y
  OBVIOUS
<1> HIDE DEF S
<1>3. Min(S) \in S /\ \A y \in S : Min(S) <= y
  BY <1>1 DEF Min
<1>4. Max(S) \in S /\ \A y \in S : Max(S) >= y
  BY <1>2 DEF Max
<1>5. /\ Min(S) \in Int /\ Max(S) \in Int
      /\ Min(S) <= u /\ Min(S) <= v /\ Min(S) <= w
      /\ u <= Max(S) /\ v <= Max(S) /\ w <= Max(S)
      /\ Min(S) = u \/ Min(S) = v \/ Min(S) = w
      /\ Max(S) = u \/ Max(S) = v \/ Max(S) = w
  BY <1>3, <1>4 DEF S
<1> QED BY <1>5 DEF S, Extreme

\* What takes a pixel to the depth test: its centre in the triangle, itself in the
\* scissor rectangle.  The bounding box never cuts anything off.
LEMMA FragmentFact ==
    ASSUME NEW t, \A k \in Corner : t[k] \in Vertex, NEW scissor \in GravRect2D,
           NEW image, image.width \in Nat, image.height \in Nat,
           NEW p \in (0 .. image.width - 1) \X (0 .. image.height - 1)
    PROVE  p \in Fragments(t, scissor, image) <=>
             /\ Area(t) # 0 /\ t[1].z \in 0 .. One
             /\ InTriangle(t, Centre(p)) /\ InRect(p, scissor)
<1> DEFINE xs == {t[1].x, t[2].x, t[3].x}
           ys == {t[1].y, t[2].y, t[3].y}
<1>1. /\ t[1].x \in Int /\ t[2].x \in Int /\ t[3].x \in Int
      /\ t[1].y \in Int /\ t[2].y \in Int /\ t[3].y \in Int
      /\ Area(t) \in Int
  BY TriangleTypes
<1>2. /\ p[1] \in Int /\ p[2] \in Int /\ 0 <= p[1] /\ p[1] <= image.width - 1
      /\ 0 <= p[2] /\ p[2] <= image.height - 1 /\ p = <<p[1], p[2]>>
  OBVIOUS
<1>3. /\ scissor.x \in Int /\ scissor.y \in Int /\ scissor.width \in Int /\ scissor.height \in Int
  BY DEF GravRect2D
<1>4. Corner = {1, 2, 3}
  BY DEF Corner
<1>5. Xs(t) = xs /\ Ys(t) = ys
  BY <1>4 DEF Xs, Ys
<1>6. Extreme(t[1].x, t[2].x, t[3].x) /\ Extreme(t[1].y, t[2].y, t[3].y)
  BY <1>1, Extremes
<1>7. /\ Min(xs) \in Int /\ Max(xs) \in Int /\ Min(ys) \in Int /\ Max(ys) \in Int
      /\ Min(xs) <= t[1].x /\ Min(xs) <= t[2].x /\ Min(xs) <= t[3].x
      /\ t[1].x <= Max(xs) /\ t[2].x <= Max(xs) /\ t[3].x <= Max(xs)
      /\ Min(ys) <= t[1].y /\ Min(ys) <= t[2].y /\ Min(ys) <= t[3].y
      /\ t[1].y <= Max(ys) /\ t[2].y <= Max(ys) /\ t[3].y <= Max(ys)
  BY <1>6, Zenon DEF Extreme
<1> DEFINE west == Min(xs)
           east == Max(xs)
           north == Min(ys)
           south == Max(ys)
<1>8. CASE Area(t) = 0 \/ t[1].z \notin 0 .. One
  BY <1>8 DEF Fragments
<1>9. CASE Area(t) # 0 /\ t[1].z \in 0 .. One
  <2> DEFINE left == Floor(west)
             right == Ceil(east)
             top == Floor(north)
             bottom == Ceil(south)
  <2>1. left \in Int /\ right \in Int /\ top \in Int /\ bottom \in Int
    <3> HIDE DEF west, east, north, south
    <3>1. west \in Int /\ east \in Int /\ north \in Int /\ south \in Int
      BY <1>7 DEF west, east, north, south
    <3> QED BY <3>1 DEF Floor, Ceil
  <2>2. InTriangle(t, Centre(p)) => left <= p[1] /\ p[1] <= right /\ top <= p[2] /\ p[2] <= bottom
    <3> SUFFICES ASSUME InTriangle(t, Centre(p))
                 PROVE  left <= p[1] /\ p[1] <= right /\ top <= p[2] /\ p[2] <= bottom
      OBVIOUS
    <3> DEFINE n == Abs(Area(t))
    <3>1. n \in Nat /\ n > 0
      BY <1>1, <1>9 DEF Abs
    <3> HIDE DEF n
    <3>2. PICK a \in 0 .. n, b \in 0 .. n :
             /\ a + b <= n
             /\ a * t[1].x + b * t[2].x + (n - a - b) * t[3].x = n * (2 * p[1] + 1)
             /\ a * t[1].y + b * t[2].y + (n - a - b) * t[3].y = n * (2 * p[2] + 1)
      BY DEF InTriangle, Centre, n
    <3>3. a \in Nat /\ b \in Nat /\ 2 * p[1] + 1 \in Int /\ 2 * p[2] + 1 \in Int
      BY <1>2, <3>1
    <3> DEFINE qx == 2 * p[1] + 1
               qy == 2 * p[2] + 1
    <3>4. Mean(a, b, n, t[1].x, t[2].x, t[3].x, qx) /\ Mean(a, b, n, t[1].y, t[2].y, t[3].y, qy)
      BY <3>2, Zenon DEF Mean
    <3>5. qx \in Int /\ qy \in Int /\ a + b <= n
      BY <3>2, <3>3
    <3> HIDE DEF qx, qy, west, east, north, south
    <3>6. west <= qx /\ qx <= east
      <4>1. /\ west \in Int /\ east \in Int
            /\ west <= t[1].x /\ west <= t[2].x /\ west <= t[3].x
            /\ t[1].x <= east /\ t[2].x <= east /\ t[3].x <= east
        BY <1>7 DEF west, east
      <4>2. Lies(a, b, n, t[1].x, t[2].x, t[3].x, qx, west, east)
        BY <1>1, <3>1, <3>3, <3>5, <4>1, Between
      <4> QED BY <3>1, <3>4, <3>5, <4>1, <4>2, Zenon DEF Lies
    <3>7. north <= qy /\ qy <= south
      <4>1. /\ north \in Int /\ south \in Int
            /\ north <= t[1].y /\ north <= t[2].y /\ north <= t[3].y
            /\ t[1].y <= south /\ t[2].y <= south /\ t[3].y <= south
        BY <1>7 DEF north, south
      <4>2. Lies(a, b, n, t[1].y, t[2].y, t[3].y, qy, north, south)
        BY <1>1, <3>1, <3>3, <3>5, <4>1, Between
      <4> QED BY <3>1, <3>4, <3>5, <4>1, <4>2, Zenon DEF Lies
    <3>8. west \in Int /\ east \in Int /\ north \in Int /\ south \in Int
      BY <1>7 DEF west, east, north, south
    <3> QED BY <1>2, <3>6, <3>7, <3>8 DEF Floor, Ceil, qx, qy, left, right, top, bottom
  <2> HIDE DEF left, right, top, bottom
  <2>3. p \in Box(t, scissor, image) <=>
          /\ p[1] \in Max({left, scissor.x, 0}) .. Min({right, scissor.x + scissor.width - 1, image.width - 1})
          /\ p[2] \in Max({top, scissor.y, 0}) .. Min({bottom, scissor.y + scissor.height - 1, image.height - 1})
    <3> DEFINE H == Max({left, scissor.x, 0}) .. Min({right, scissor.x + scissor.width - 1, image.width - 1})
               V == Max({top, scissor.y, 0}) .. Min({bottom, scissor.y + scissor.height - 1, image.height - 1})
    <3>1. Box(t, scissor, image) = H \X V
      BY <1>5 DEF Box, left, right, top, bottom
    <3> HIDE DEF H, V
    <3>2. p \in H \X V <=> p[1] \in H /\ p[2] \in V
      BY <1>2
    <3> QED BY <3>1, <3>2 DEF H, V
  <2>4. p[1] \in Max({left, scissor.x, 0}) .. Min({right, scissor.x + scissor.width - 1, image.width - 1}) <=>
           left <= p[1] /\ p[1] <= right /\ p[1] \in scissor.x .. scissor.x + scissor.width - 1
    <3> DEFINE far == scissor.x + scissor.width - 1
               edge == image.width - 1
    <3>1. far \in Int /\ edge \in Int /\ 0 \in Int /\ edge = image.width - 1
      BY <1>3
    <3>2. p[1] \in scissor.x .. far <=> scissor.x <= p[1] /\ p[1] <= far
      BY <1>2, <1>3
    <3> HIDE DEF far, edge
    <3>3. Extreme(left, scissor.x, 0) /\ Extreme(right, far, edge)
      BY <1>3, <2>1, <3>1, Extremes
    <3> DEFINE low == Max({left, scissor.x, 0})
               high == Min({right, far, edge})
    <3>4. /\ low \in Int /\ high \in Int
          /\ left <= low /\ scissor.x <= low /\ 0 <= low /\ (low = left \/ low = scissor.x \/ low = 0)
          /\ high <= right /\ high <= far /\ high <= edge /\ (high = right \/ high = far \/ high = edge)
      BY <3>3, Zenon DEF Extreme
    <3> HIDE DEF low, high
    <3>5. p[1] \in low .. high <=> low <= p[1] /\ p[1] <= high
      BY <1>2, <3>4
    <3>6. 0 <= p[1] /\ p[1] <= edge
      BY <1>2, <3>1
    <3>7. p[1] \in low .. high <=> left <= p[1] /\ p[1] <= right /\ p[1] \in scissor.x .. far
      BY <1>2, <1>3, <2>1, <3>1, <3>2, <3>4, <3>5, <3>6
    <3> QED BY <3>7 DEF low, high, far, edge
  <2>5. p[2] \in Max({top, scissor.y, 0}) .. Min({bottom, scissor.y + scissor.height - 1, image.height - 1}) <=>
           top <= p[2] /\ p[2] <= bottom /\ p[2] \in scissor.y .. scissor.y + scissor.height - 1
    <3> DEFINE far == scissor.y + scissor.height - 1
               edge == image.height - 1
    <3>1. far \in Int /\ edge \in Int /\ 0 \in Int /\ edge = image.height - 1
      BY <1>3
    <3>2. p[2] \in scissor.y .. far <=> scissor.y <= p[2] /\ p[2] <= far
      BY <1>2, <1>3
    <3> HIDE DEF far, edge
    <3>3. Extreme(top, scissor.y, 0) /\ Extreme(bottom, far, edge)
      BY <1>3, <2>1, <3>1, Extremes
    <3> DEFINE low == Max({top, scissor.y, 0})
               high == Min({bottom, far, edge})
    <3>4. /\ low \in Int /\ high \in Int
          /\ top <= low /\ scissor.y <= low /\ 0 <= low /\ (low = top \/ low = scissor.y \/ low = 0)
          /\ high <= bottom /\ high <= far /\ high <= edge /\ (high = bottom \/ high = far \/ high = edge)
      BY <3>3, Zenon DEF Extreme
    <3> HIDE DEF low, high
    <3>5. p[2] \in low .. high <=> low <= p[2] /\ p[2] <= high
      BY <1>2, <3>4
    <3>6. 0 <= p[2] /\ p[2] <= edge
      BY <1>2, <3>1
    <3>7. p[2] \in low .. high <=> top <= p[2] /\ p[2] <= bottom /\ p[2] \in scissor.y .. far
      BY <1>2, <1>3, <2>1, <3>1, <3>2, <3>4, <3>5, <3>6
    <3> QED BY <3>7 DEF low, high, far, edge
  <2>6. Covered(t, p) <=> InTriangle(t, Centre(p))
    BY <1>2, <1>9, CoveredIsTriangle
  <2>7. p \in Fragments(t, scissor, image) <=> p \in Box(t, scissor, image) /\ Covered(t, p)
    BY <1>9 DEF Fragments
  <2> QED BY <1>9, <2>2, <2>3, <2>4, <2>5, <2>6, <2>7 DEF InRect
<1> QED BY <1>8, <1>9

\* On the screen, whose y points down, a triangle turns the other way.
LEMMA ScreenTurn ==
    ASSUME NEW vp \in GravViewport, NEW t, NEW s, \A k \in Corner : t[k] \in Vertex,
           \A k \in Corner : s[k] = ndc_to_screen(vp, t[k])
    PROVE  /\ \A k \in Corner : s[k] \in Vertex
           /\ Cross(s[1], s[2], s[1], s[3]) = -(vp.width * vp.height) * Cross(t[1], t[2], t[1], t[3])
           /\ Area(s) = (vp.width * vp.height) * Cross(t[1], t[2], t[1], t[3])
           /\ Cross(t[1], t[2], t[1], t[3]) \in Int
<1>1. /\ t[1].x \in Int /\ t[2].x \in Int /\ t[3].x \in Int
      /\ t[1].y \in Int /\ t[2].y \in Int /\ t[3].y \in Int
  BY TriangleTypes
<1>2. /\ vp.width \in Int /\ vp.height \in Int /\ vp.x \in Int /\ vp.y \in Int
      /\ vp.minDepth \in Int /\ vp.maxDepth \in Int
  BY DEF GravViewport
<1>3. 1 \in Corner /\ 2 \in Corner /\ 3 \in Corner
  BY DEF Corner
<1>4. \A k \in Corner : s[k] \in Vertex /\ s[k].x = (t[k].x + 1) * vp.width + 2 * vp.x
                                       /\ s[k].y = (1 - t[k].y) * vp.height + 2 * vp.y
  <2> TAKE k \in Corner
  <2>1. t[k].x \in Int /\ t[k].y \in Int /\ t[k].z \in Int
    BY DEF Vertex
  <2>2. (t[k].z * (vp.maxDepth - vp.minDepth) + vp.maxDepth + vp.minDepth) \div 2 \in Int
    <3> DEFINE z == t[k].z * (vp.maxDepth - vp.minDepth) + vp.maxDepth + vp.minDepth
    <3>1. z \in Int
      BY <1>2, <2>1
    <3> HIDE DEF z
    <3>2. z \div 2 \in Int
      BY <3>1
    <3> QED BY <3>2 DEF z
  <2>3. (t[k].x + 1) * vp.width + 2 * vp.x \in Int /\ (1 - t[k].y) * vp.height + 2 * vp.y \in Int
    BY <1>2, <2>1
  <2> DEFINE x == (t[k].x + 1) * vp.width + 2 * vp.x
             y == (1 - t[k].y) * vp.height + 2 * vp.y
             z == (t[k].z * (vp.maxDepth - vp.minDepth) + vp.maxDepth + vp.minDepth) \div 2
  <2>4. s[k] = [x |-> x, y |-> y, z |-> z]
    BY Zenon DEF ndc_to_screen
  <2>5. x \in Int /\ y \in Int /\ z \in Int
    BY <2>2, <2>3
  <2> HIDE DEF x, y, z
  <2>6. s[k] \in Vertex /\ s[k].x = x /\ s[k].y = y
    BY <2>4, <2>5 DEF Vertex
  <2> QED BY <2>6, Zenon DEF x, y
<1> DEFINE w == vp.width
           h == vp.height
           a == t[2].x - t[1].x
           b == t[2].y - t[1].y
           c == t[3].x - t[1].x
           d == t[3].y - t[1].y
<1>5. /\ w \in Int /\ h \in Int /\ a \in Int /\ b \in Int /\ c \in Int /\ d \in Int
  BY <1>1, <1>2
<1>6. /\ s[2].x - s[1].x = w * a /\ s[3].x - s[1].x = w * c
      /\ s[2].y - s[1].y = -(h * b) /\ s[3].y - s[1].y = -(h * d)
      /\ s[1].x - s[3].x = -(w * c) /\ s[1].y - s[3].y = h * d
  <2>1. \A u, v \in Int : /\ ((u + 1) * w + 2 * vp.x) - ((v + 1) * w + 2 * vp.x) = w * (u - v)
                          /\ ((1 - u) * h + 2 * vp.y) - ((1 - v) * h + 2 * vp.y) = h * (v - u)
    BY <1>2
  <2>2. /\ s[1].x = (t[1].x + 1) * w + 2 * vp.x /\ s[1].y = (1 - t[1].y) * h + 2 * vp.y
        /\ s[2].x = (t[2].x + 1) * w + 2 * vp.x /\ s[2].y = (1 - t[2].y) * h + 2 * vp.y
        /\ s[3].x = (t[3].x + 1) * w + 2 * vp.x /\ s[3].y = (1 - t[3].y) * h + 2 * vp.y
    BY <1>3, <1>4
  <2>3. /\ s[2].x - s[1].x = w * a /\ s[3].x - s[1].x = w * c
        /\ s[2].y - s[1].y = h * (t[1].y - t[2].y) /\ s[3].y - s[1].y = h * (t[1].y - t[3].y)
        /\ s[1].x - s[3].x = w * (t[1].x - t[3].x) /\ s[1].y - s[3].y = h * d
    <3> HIDE DEF w, h
    <3>1. /\ ((t[2].x + 1) * w + 2 * vp.x) - ((t[1].x + 1) * w + 2 * vp.x) = w * a
          /\ ((t[3].x + 1) * w + 2 * vp.x) - ((t[1].x + 1) * w + 2 * vp.x) = w * c
          /\ ((t[1].x + 1) * w + 2 * vp.x) - ((t[3].x + 1) * w + 2 * vp.x) = w * (t[1].x - t[3].x)
      BY <1>1, <2>1
    <3>2. /\ ((1 - t[2].y) * h + 2 * vp.y) - ((1 - t[1].y) * h + 2 * vp.y) = h * (t[1].y - t[2].y)
          /\ ((1 - t[3].y) * h + 2 * vp.y) - ((1 - t[1].y) * h + 2 * vp.y) = h * (t[1].y - t[3].y)
          /\ ((1 - t[1].y) * h + 2 * vp.y) - ((1 - t[3].y) * h + 2 * vp.y) = h * d
      BY <1>1, <2>1
    <3> QED BY <2>2, <3>1, <3>2
  <2>4. t[1].x - t[3].x = -c /\ t[1].y - t[3].y = -d /\ t[1].y - t[2].y = -b
    BY <1>1
  <2> HIDE DEF w, h, a, b, c, d
  <2>5. w * (-c) = -(w * c) /\ h * (-d) = -(h * d) /\ h * (-b) = -(h * b)
    BY <1>5
  <2> QED BY <2>3, <2>4, <2>5
<1>7. Cross(t[1], t[2], t[1], t[3]) = a * d - b * c
  BY DEF Cross
<1>8. Cross(s[1], s[2], s[1], s[3]) = (w * a) * (-(h * d)) - (-(h * b)) * (w * c)
  BY <1>6 DEF Cross
<1>9. Area(s) = (w * a) * (h * d) - (-(h * b)) * (-(w * c))
  BY <1>6 DEF Area, Cross
<1> HIDE DEF w, h, a, b, c, d
<1>10. /\ (w * a) * (-(h * d)) - (-(h * b)) * (w * c) = -(w * h) * (a * d - b * c)
       /\ (w * a) * (h * d) - (-(h * b)) * (-(w * c)) = (w * h) * (a * d - b * c)
       /\ a * d - b * c \in Int
  BY <1>5
<1> QED BY <1>4, <1>7, <1>8, <1>9, <1>10 DEF w, h

-----------------------------------------------------------------------------
(* The nearest surface *)

\* The images of a framebuffer, where it has both, are two and of one size.
Paired == \A o \in Objects : Kind(o) = "framebuffer" /\ NULL \notin Led(o) =>
            /\ Info[o].colorImage # Info[o].depthImage
            /\ Pixels(Info[Info[o].colorImage]) = Pixels(Info[Info[o].depthImage])

\* No draw went through a viewport that is flat or turns what is seen around.
Upright == \A k \in DOMAIN drawn : drawn[k].viewport.width * drawn[k].viewport.height > 0

\* What is seen of surfaces with the depths Q[k] and the colours F[k], drawn in the order of D,
\* on a ground of this colour and depth.
Nearest(D, Q, F, ground, far, color, depth) ==
  \/ /\ color = ground /\ depth = far
     /\ \A k \in D : \A z \in Q[k] : z >= far
  \/ /\ depth < far
     /\ \A k \in D : \A z \in Q[k] : z >= depth
     /\ \E k \in D : /\ depth \in Q[k] /\ color = F[k]
                     /\ \A m \in D : depth \in Q[m] => k <= m

Surfaces(p) == [k \in DOMAIN drawn |-> Depths(drawn[k], p)]
Colours == [k \in DOMAIN drawn |-> [by |-> Info[drawn[k].buffer].varying, uniforms |-> drawn[k].uniforms]]
Since(b) == {k \in DOMAIN drawn : drawn[k].at > b}
PassAt(i) == LastOf(i, {"BEGIN_RENDER_PASS"})

\* The images show the nearest surface at each pixel, and its depth.
PassShows(b) ==
  LET c == accepted[b]
      color == Info[c.framebuffer].colorImage
      depth == Info[c.framebuffer].depthImage
  IN /\ color \in DOMAIN pixels /\ depth \in DOMAIN pixels /\ c.clearDepth \in Int
     /\ \A p \in Pixels(Info[color]) :
          Nearest(Since(b), Surfaces(p), Colours, Painted(c), c.clearDepth, pixels[color][p], pixels[depth][p])

PassNearest == at > 0 /\ Within /\ Upright /\ Sorted(PassAt(at)) => PassShows(PassAt(at))

NearestInv == FullInv /\ ImagesWhole /\ Places /\ PassNearest

\* A surface more: it is seen where it lies before everything drawn so far.
LEMMA NearestStep ==
    ASSUME NEW K \in Nat, NEW D, \A k \in D : k \in Nat /\ k < K,
           NEW Q, \A k \in D \cup {K} : Q[k] \subseteq Int,
           NEW F, NEW ground, NEW far \in Int, NEW color, NEW depth \in Int,
           Nearest(D, Q, F, ground, far, color, depth),
           NEW color2, NEW depth2 \in Int,
           \/ color2 = color /\ depth2 = depth /\ \A z \in Q[K] : z >= depth
           \/ /\ color2 = F[K] /\ depth2 < depth /\ depth2 \in Q[K]
              /\ \A z \in Q[K] : z >= depth2
    PROVE  Nearest(D \cup {K}, Q, F, ground, far, color2, depth2)
<1>1. CASE color2 = color /\ depth2 = depth /\ \A z \in Q[K] : z >= depth
  <2>1. CASE color = ground /\ depth = far /\ \A k \in D : \A z \in Q[k] : z >= far
    BY <1>1, <2>1 DEF Nearest
  <2>2. CASE /\ depth < far
             /\ \A k \in D : \A z \in Q[k] : z >= depth
             /\ \E k \in D : /\ depth \in Q[k] /\ color = F[k]
                             /\ \A m \in D : depth \in Q[m] => k <= m
    <3>1. PICK k \in D : depth \in Q[k] /\ color = F[k] /\ \A m \in D : depth \in Q[m] => k <= m
      BY <2>2
    <3>2. \A m \in D \cup {K} : depth \in Q[m] => k <= m
      BY <3>1
    <3>3. \A m \in D \cup {K} : \A z \in Q[m] : z >= depth
      BY <1>1, <2>2
    <3> QED BY <1>1, <2>2, <3>1, <3>2, <3>3 DEF Nearest
  <2> QED BY <2>1, <2>2 DEF Nearest
<1>2. CASE /\ color2 = F[K] /\ depth2 < depth /\ depth2 \in Q[K]
           /\ \A z \in Q[K] : z >= depth2
  <2>1. depth <= far /\ \A k \in D : \A z \in Q[k] : z >= depth
    BY DEF Nearest
  <2>2. \A k \in D : \A z \in Q[k] : z \in Int /\ z > depth2
    BY <1>2, <2>1
  <2>3. \A m \in D \cup {K} : \A z \in Q[m] : z >= depth2
    BY <1>2, <2>2
  <2>4. \A m \in D \cup {K} : depth2 \in Q[m] => K <= m
    BY <2>2
  <2>5. depth2 < far
    BY <1>2, <2>1
  <2> QED BY <1>2, <2>3, <2>4, <2>5 DEF Nearest
<1> QED BY <1>1, <1>2

\* A triangle reaches the depth test at p.
Strikes(t, p) == /\ ~Culled(Info[state.pipeline].cullMode, t)
                 /\ p \in Fragments(t, state.scissor, Info[Color])

LEMMA Stroke ==
    ASSUME Ordinary(Info[state.pipeline]), Depth # NULL,
           NEW image, NEW C, NEW p \in C, Framed(image, C, C), NEW t, image.depth[p] \in Int, t[1].z \in Int
    PROVE  LET new == draw_triangle(image, t)
           IN IF Strikes(t, p) /\ t[1].z < image.depth[p] THEN new.color[p] = FragColor /\ new.depth[p] = t[1].z
              ELSE new.color[p] = image.color[p] /\ new.depth[p] = image.depth[p]
<1> DEFINE pl == Info[state.pipeline]
           seen == {q \in Fragments(t, state.scissor, Info[Color]) :
                      pl.depthTest => depth_test(pl.compare, t[1].z, image.depth[q])}
<1>1. PICK color, depth : /\ image = [color |-> color, depth |-> depth]
                          /\ DOMAIN color = C /\ DOMAIN depth = C
  BY DEF Framed
<1>2. pl.fillMode = "SOLID" /\ pl.depthTest /\ pl.depthWrite /\ pl.compare = "LESS"
  BY DEF Ordinary
<1>3. p \in seen <=> p \in Fragments(t, state.scissor, Info[Color]) /\ t[1].z < image.depth[p]
  BY <1>2 DEF depth_test
<1>4. CASE Culled(pl.cullMode, t)
  <2>1. draw_triangle(image, t) = image
    BY <1>2, <1>4 DEF draw_triangle
  <2> QED BY <1>4, <2>1 DEF Strikes
<1>5. CASE ~Culled(pl.cullMode, t)
  <2>1. draw_triangle(image, t) = Filled(image, t)
    BY <1>2, <1>5 DEF draw_triangle
  <2>2. Filled(image, t) = [color |-> [q \in DOMAIN image.color |-> IF q \in seen THEN FragColor ELSE image.color[q]],
                            depth |-> [q \in DOMAIN image.depth |-> IF q \in seen THEN t[1].z ELSE image.depth[q]]]
    BY <1>2 DEF Filled
  <2> HIDE DEF seen
  <2>3. /\ Filled(image, t).color[p] = IF p \in seen THEN FragColor ELSE image.color[p]
        /\ Filled(image, t).depth[p] = IF p \in seen THEN t[1].z ELSE image.depth[p]
    BY <1>1, <2>2
  <2> QED BY <1>3, <1>5, <2>1, <2>3 DEF Strikes
<1> QED BY <1>4, <1>5

\* What the first n triangles of a draw have done to a pixel.
Settled(c, p, n) ==
  LET image == Painting(c)[n]
      z(k) == OnScreen(c)[k][1].z
  IN /\ image.depth[p] \in Int
     /\ \/ /\ image.color[p] = Target.color[p] /\ image.depth[p] = Target.depth[p]
           /\ \A k \in 1 .. n : Strikes(OnScreen(c)[k], p) => z(k) >= Target.depth[p]
        \/ /\ image.color[p] = FragColor /\ image.depth[p] < Target.depth[p]
           /\ \E k \in 1 .. n : Strikes(OnScreen(c)[k], p) /\ z(k) = image.depth[p]
           /\ \A k \in 1 .. n : Strikes(OnScreen(c)[k], p) => z(k) >= image.depth[p]

LEMMA PaintingSettles ==
    ASSUME Ordinary(Info[state.pipeline]), Depth # NULL, NEW c, Len(OnScreen(c)) \in Nat,
           NEW C, NEW p \in C, Framed(Target, C, C), Target.depth[p] \in Int,
           \A k \in 1 .. Len(OnScreen(c)) : OnScreen(c)[k][1].z \in Int
    PROVE  Settled(c, p, Len(OnScreen(c)))
<1> DEFINE L == Len(OnScreen(c))
           z(k) == OnScreen(c)[k][1].z
           S == {n \in Nat : n <= L => Settled(c, p, n)}
<1>1. 0 \in S
  BY PaintingFact DEF Settled
<1>2. ASSUME NEW n \in Nat, n \in S PROVE n + 1 \in S
  <2> SUFFICES ASSUME n + 1 <= L PROVE Settled(c, p, n + 1)
    OBVIOUS
  <2> DEFINE old == Painting(c)[n]
             new == Painting(c)[n + 1]
             t == OnScreen(c)[n + 1]
  <2>1. n + 1 \in 1 .. L /\ (n + 1) - 1 = n /\ n \in 0 .. L /\ Settled(c, p, n)
        /\ \A k \in 1 .. n + 1 : k = n + 1 \/ k \in 1 .. n
    BY <1>2
  <2>2. new = draw_triangle(old, t)
    BY <2>1, PaintingFact
  <2>3. Framed(old, C, C)
    BY <2>1, PaintingFrame
  <2>4. t[1].z \in Int /\ old.depth[p] \in Int
    BY <2>1 DEF Settled
  <2> HIDE DEF old, new, t, L
  <2>5. IF Strikes(t, p) /\ t[1].z < old.depth[p] THEN new.color[p] = FragColor /\ new.depth[p] = t[1].z
        ELSE new.color[p] = old.color[p] /\ new.depth[p] = old.depth[p]
    BY <2>2, <2>3, <2>4, Stroke
  <2>6. \A k \in 1 .. n : z(k) \in Int
    BY <2>1 DEF L
  <2>7. z(n + 1) = t[1].z
    BY DEF t
  <2>8. \/ /\ old.color[p] = Target.color[p] /\ old.depth[p] = Target.depth[p]
           /\ \A k \in 1 .. n : Strikes(OnScreen(c)[k], p) => z(k) >= Target.depth[p]
        \/ /\ old.color[p] = FragColor /\ old.depth[p] < Target.depth[p]
           /\ \E k \in 1 .. n : Strikes(OnScreen(c)[k], p) /\ z(k) = old.depth[p]
           /\ \A k \in 1 .. n : Strikes(OnScreen(c)[k], p) => z(k) >= old.depth[p]
    BY <2>1, Zenon DEF Settled, old
  <2>9. CASE Strikes(t, p) /\ t[1].z < old.depth[p]
    <3>1. new.color[p] = FragColor /\ new.depth[p] = z(n + 1)
      BY <2>5, <2>7, <2>9
    <3>2. old.depth[p] <= Target.depth[p] /\ \A k \in 1 .. n : Strikes(OnScreen(c)[k], p) => z(k) >= old.depth[p]
      BY <2>4, <2>8
    <3>3. \A k \in 1 .. n + 1 : Strikes(OnScreen(c)[k], p) => z(k) >= new.depth[p]
      BY <2>1, <2>4, <2>6, <2>7, <2>9, <3>1, <3>2
    <3>4. new.depth[p] < Target.depth[p] /\ new.depth[p] \in Int
      BY <2>4, <2>7, <2>9, <3>1, <3>2
    <3>5. \E k \in 1 .. n + 1 : Strikes(OnScreen(c)[k], p) /\ z(k) = new.depth[p]
      <4>1. n + 1 \in 1 .. n + 1 /\ Strikes(OnScreen(c)[n + 1], p)
        BY <2>9 DEF t
      <4> QED BY <3>1, <4>1
    <3> QED BY <3>1, <3>3, <3>4, <3>5, Zenon DEF Settled, new
  <2>10. CASE ~(Strikes(t, p) /\ t[1].z < old.depth[p])
    <3>1. new.color[p] = old.color[p] /\ new.depth[p] = old.depth[p]
      BY <2>5, <2>10
    <3>2. Strikes(OnScreen(c)[n + 1], p) => z(n + 1) >= old.depth[p]
      BY <2>4, <2>7, <2>10 DEF t
    <3>3. \A k \in 1 .. n : k \in 1 .. n + 1
      OBVIOUS
    <3>4. CASE /\ old.color[p] = Target.color[p] /\ old.depth[p] = Target.depth[p]
               /\ \A k \in 1 .. n : Strikes(OnScreen(c)[k], p) => z(k) >= Target.depth[p]
      <4>1. \A k \in 1 .. n + 1 : Strikes(OnScreen(c)[k], p) => z(k) >= Target.depth[p]
        BY <2>1, <3>2, <3>4
      <4> QED BY <2>4, <3>1, <3>4, <4>1, Zenon DEF Settled, new
    <3>5. CASE /\ old.color[p] = FragColor /\ old.depth[p] < Target.depth[p]
               /\ \E k \in 1 .. n : Strikes(OnScreen(c)[k], p) /\ z(k) = old.depth[p]
               /\ \A k \in 1 .. n : Strikes(OnScreen(c)[k], p) => z(k) >= old.depth[p]
      <4>1. \A k \in 1 .. n + 1 : Strikes(OnScreen(c)[k], p) => z(k) >= new.depth[p]
        BY <2>1, <3>1, <3>2, <3>5
      <4>2. \E k \in 1 .. n + 1 : Strikes(OnScreen(c)[k], p) /\ z(k) = new.depth[p]
        BY <3>1, <3>3, <3>5
      <4> QED BY <2>4, <3>1, <3>5, <4>1, <4>2, Zenon DEF Settled, new
    <3> QED BY <2>8, <3>4, <3>5
  <2> QED BY <2>9, <2>10
<1>3. L \in S
  <2> HIDE DEF S
  <2> QED BY <1>1, <1>2, Induction
<1> QED BY <1>3

\* The depths at which a draw covers a pixel are those of the triangles that reach the
\* depth test there.
LEMMA DepthsFact ==
    ASSUME state.viewport \in GravViewport, state.scissor \in GravRect2D,
           Info[Color].width \in Nat, Info[Color].height \in Nat, NEW p \in Pixels(Info[Color]),
           NEW c, c.count \in Nat, \A k \in DOMAIN Vertices(c) : Vertices(c)[k] \in Vertex,
           NEW d, d.pipeline = state.pipeline, d.vertices = Vertices(c),
           d.viewport = state.viewport, d.scissor = state.scissor,
           d.viewport.width * d.viewport.height > 0
    PROVE  /\ \A k \in 1 .. Len(OnScreen(c)) : OnScreen(c)[k][1].z \in Int
           /\ \A z : z \in Depths(d, p) <=>
                 \E k \in 1 .. Len(OnScreen(c)) : Strikes(OnScreen(c)[k], p) /\ z = OnScreen(c)[k][1].z
<1> DEFINE mode == Info[state.pipeline].cullMode
           vp == state.viewport
           ts == Triangles(Info[state.pipeline].topology, Vertices(c))
           shown == OnScreen(c)
           turn(t) == Cross(t[1], t[2], t[1], t[3])
           Faces(t) == turn(t) # 0 /\ (mode = "BACK" => turn(t) > 0) /\ (mode = "FRONT" => turn(t) < 0)
           Over(t) == InTriangle(t, Centre(p)) /\ InRect(p, state.scissor)
           N == vp.width * vp.height
<1>1. /\ DOMAIN ts = 1 .. Len(shown)
      /\ \A n \in DOMAIN ts : shown[n] = [i \in Corner |-> ndc_to_screen(vp, ts[n][i])]
  <2>1. \A n \in DOMAIN ts : shown[n] = [i \in Corner |-> ndc_to_screen(vp, ts[n][i])]
    BY DEF OnScreen
  <2> QED BY <2>1, OnScreenFact
<1>2. \A n \in DOMAIN ts : \A i \in Corner : ts[n][i] \in Vertex
  <2>1. Vertices(c) \in [1 .. c.count -> Vertex]
    BY DEF Vertices
  <2> QED BY <2>1, TrianglesFact
<1>3. N \in Int /\ N > 0
  BY DEF GravViewport
<1>4. ASSUME NEW n \in DOMAIN ts
      PROVE  /\ shown[n][1].z \in Int
             /\ Strikes(shown[n], p) <=> Faces(ts[n]) /\ Over(shown[n]) /\ shown[n][1].z \in 0 .. One
  <2> DEFINE t == ts[n]
             s == shown[n]
             T == turn(t)
  <2>1. /\ \A k \in Corner : t[k] \in Vertex
        /\ \A k \in Corner : s[k] = ndc_to_screen(vp, t[k])
    BY <1>1, <1>2
  <2> HIDE DEF t, s, vp
  <2>2. /\ \A k \in Corner : s[k] \in Vertex
        /\ Cross(s[1], s[2], s[1], s[3]) = -N * T /\ Area(s) = N * T /\ T \in Int
    <3>1. vp \in GravViewport
      BY DEF vp
    <3> QED BY <2>1, <3>1, ScreenTurn
  <2>3. s[1].z \in Int
    BY <2>2, TriangleTypes
  <2> HIDE DEF N, T
  <2>4. (N * T # 0 <=> T # 0) /\ (-N * T >= 0 <=> T <= 0) /\ (-N * T <= 0 <=> T >= 0)
    BY <1>3, <2>2
  <2>5. ~Culled(mode, s) /\ Area(s) # 0 <=> T # 0 /\ (mode = "BACK" => T > 0) /\ (mode = "FRONT" => T < 0)
    <3> HIDE DEF mode
    <3>1. Culled(mode, s) <=> (mode = "BACK" /\ T <= 0) \/ (mode = "FRONT" /\ T >= 0)
      BY <2>2, <2>4 DEF Culled
    <3>2. Area(s) # 0 <=> T # 0
      BY <2>2, <2>4
    <3> QED BY <2>2, <3>1, <3>2
  <2>6. p \in Fragments(s, state.scissor, Info[Color]) <=> Area(s) # 0 /\ s[1].z \in 0 .. One /\ Over(s)
    <3>1. p \in (0 .. Info[Color].width - 1) \X (0 .. Info[Color].height - 1)
      BY DEF Pixels
    <3> QED BY <2>2, <3>1, FragmentFact
  <2>7. Strikes(s, p) <=> T # 0 /\ (mode = "BACK" => T > 0) /\ (mode = "FRONT" => T < 0)
                          /\ Over(s) /\ s[1].z \in 0 .. One
    <3> HIDE DEF Over
    <3> QED BY <2>5, <2>6 DEF Strikes
  <2> QED BY <2>3, <2>7 DEF t, s, T
<1>5. \A z : z \in Depths(d, p) <=>
        \E n \in DOMAIN ts : Faces(ts[n]) /\ Over(shown[n]) /\ z = shown[n][1].z /\ z \in 0 .. One
  <2> DEFINE onScreen(t) == [i \in Corner |-> ndc_to_screen(vp, t[i])]
  <2>1. Seen(d) = {onScreen(t) : t \in {u \in Range(ts) : Faces(u)}}
    BY DEF Seen
  <2>2. Depths(d, p) = {t[1].z : t \in {u \in Seen(d) : Over(u)}} \cap 0 .. One
    BY DEF Depths
  <2>3. \A t : t \in Range(ts) <=> \E n \in DOMAIN ts : t = ts[n]
    BY DEF Range
  <2>4. \A n \in DOMAIN ts : shown[n] = onScreen(ts[n])
    BY <1>1
  <2> HIDE DEF onScreen, Over, Faces, shown, ts
  <2> QED BY <2>1, <2>2, <2>3, <2>4
<1> HIDE DEF Faces, Over, shown, ts
<1>6. /\ \A n \in 1 .. Len(shown) : shown[n][1].z \in Int
      /\ \A z : z \in Depths(d, p) <=> \E n \in 1 .. Len(shown) : Strikes(shown[n], p) /\ z = shown[n][1].z
  BY <1>1, <1>4, <1>5
<1> QED BY <1>6 DEF shown

\* The last render pass before a command.
LEMMA PassFact ==
    ASSUME NEW i \in Nat \ {0}
    PROVE  /\ PassAt(i) \in 0 .. i - 1
           /\ PassAt(i) # 0 => accepted[PassAt(i)].type = "BEGIN_RENDER_PASS"
           /\ PassAt(i + 1) = IF accepted[i].type = "BEGIN_RENDER_PASS" THEN i ELSE PassAt(i)
<1>1. PassAt(i + 1) = IF accepted[i].type = "BEGIN_RENDER_PASS" THEN i ELSE PassAt(i)
  BY LastNext DEF PassAt
<1>2. /\ PassAt(i) \in 0 .. i - 1
      /\ PassAt(i) # 0 => accepted[PassAt(i)].type = "BEGIN_RENDER_PASS"
  BY LastIs DEF PassAt
<1> QED BY <1>1, <1>2

\* What a cleared pass clears.
LEMMA ClearedFact ==
    ASSUME NEW c, c.type = "BEGIN_RENDER_PASS", Typed(c),
           Cleared(c, "colorImage") # {}, Cleared(c, "depthImage") # {}
    PROVE  LET f == c.framebuffer
               color == Info[f].colorImage
               depth == Info[f].depthImage
           IN /\ f # NULL /\ Handle(f) = f /\ f \in Objects /\ Kind(f) = "framebuffer" /\ Led(f) = {color, depth}
              /\ color # NULL /\ Handle(color) = color /\ color \in Objects /\ Kind(color) = "image"
              /\ depth # NULL /\ Handle(depth) = depth /\ depth \in Objects /\ Kind(depth) = "image"
              /\ Cleared(c, "colorImage") = {color} /\ Cleared(c, "depthImage") = {depth}
              /\ c.clearDepth \in Int
              /\ Info[color].width \in Nat /\ Info[color].height \in Nat
<1> DEFINE f == c.framebuffer
           color == Info[f].colorImage
           depth == Info[f].depthImage
<1>1. Clears(c, "colorImage") /\ Clears(c, "depthImage") /\ Handle(f) # NULL
  BY DEF Cleared, Clears
<1>2. f # NULL /\ Handle(f) = f /\ f \in Objects /\ Kind(f) = "framebuffer"
  BY <1>1 DEF Handle, Typed, IsA
<1>3. Led(f) = {color, depth}
  BY <1>2 DEF Led
<1>4. IsA(color, "image") /\ IsA(depth, "image")
  BY <1>2, <1>3, GravAssumption
<1>5. Cleared(c, "colorImage") = {Handle(color)} \ {NULL} /\ Cleared(c, "depthImage") = {Handle(depth)} \ {NULL}
  BY <1>1 DEF Cleared
<1>6. Handle(color) # NULL /\ Handle(depth) # NULL
  BY <1>5
<1>7. color # NULL /\ Handle(color) = color /\ depth # NULL /\ Handle(depth) = depth
  BY <1>6 DEF Handle
<1>8. color \in Objects /\ Kind(color) = "image" /\ depth \in Objects /\ Kind(depth) = "image"
  BY <1>4, <1>7 DEF IsA
<1>9. Info[color].width \in Nat /\ Info[color].height \in Nat
  BY <1>8, GravAssumption
<1>10. c.clearDepth \in Int
  BY DEF Typed
<1> HIDE DEF color, depth, f
<1> QED BY <1>2, <1>3, <1>5, <1>7, <1>8, <1>9, <1>10 DEF color, depth, f

LEMMA PairedFact ==
    ASSUME Paired, NEW f \in Objects, Kind(f) = "framebuffer", Led(f) = {Info[f].colorImage, Info[f].depthImage},
           Info[f].colorImage # NULL, Info[f].depthImage # NULL
    PROVE  /\ Info[f].colorImage # Info[f].depthImage
           /\ Pixels(Info[Info[f].colorImage]) = Pixels(Info[Info[f].depthImage])
  BY DEF Paired

LEMMA ExecuteFact ==
    ASSUME FullInv, Execute
    PROVE  /\ at \in Nat \ {0} /\ at' = at + 1 /\ UNCHANGED <<accepted, null, memory>>
           /\ Step(cmds[at]) /\ Touched(cmds[at]) \subseteq Live /\ cmds[at] = accepted[at]
           /\ \A b \in 1 .. at : Typed(accepted[b])
           /\ StateMeans(state, at) /\ Bindings(state)
           /\ drawn \in Seq(Meanings) /\ \A k \in DOMAIN drawn : drawn[k].at \in 1 .. at - 1
<1>1. at \in Nat /\ DOMAIN cmds = 1 .. Len(cmds) /\ Len(cmds) \in Nat /\ cmds = accepted
      /\ \A i \in DOMAIN cmds : Typed(cmds[i])
  BY DEF FullInv, IInv, Recording, Sound
<1>2. /\ at \in 1 .. Len(cmds) /\ Step(cmds[at]) /\ Touched(cmds[at]) \subseteq Live /\ at' = at + 1
      /\ UNCHANGED <<accepted, null, memory>>
  BY <1>1 DEF Execute, Running, appVars, bufferVars
<1>3. StateMeans(state, at) /\ Listed(drawn, at) /\ Bindings(state)
  BY <1>1, <1>2 DEF FullInv, DrawInv, IInv, BoundHeld
<1>4. drawn \in Seq(Meanings) /\ \A k \in DOMAIN drawn : drawn[k].at \in 1 .. at - 1
  BY <1>3 DEF Listed
<1>5. \A b \in 1 .. at : b \in DOMAIN cmds
  BY <1>1, <1>2
<1> QED BY <1>1, <1>2, <1>3, <1>4, <1>5

LEMMA PassGoal ==
    ASSUME NEW b, PassAt(at)' = b, at' > 0 /\ Within' /\ Upright' /\ Sorted(b)' => PassShows(b)'
    PROVE  PassNearest'
<1>1. Sorted(PassAt(at))' = Sorted(b)' /\ PassShows(PassAt(at))' = PassShows(b)'
  BY Zenon DEF Sorted, PassShows, Since
<1> QED BY <1>1 DEF PassNearest

LEMMA ClearedKept ==
    ASSUME UNCHANGED null
    PROVE  \A c, n : Cleared(c, n)' = Cleared(c, n)
<1>1. \A h : Handle(h)' = Handle(h)
  BY DEF Handle
<1> QED BY <1>1 DEF Cleared, Clears

LEMMA BeginNearest ==
    ASSUME NearestInv, Paired, Execute, BeginRenderPass(cmds[at])
    PROVE  PassNearest'
<1>1. PICK b, c : b = at /\ c = cmds[at]
  OBVIOUS
<1> DEFINE f == c.framebuffer
           color == Info[f].colorImage
           depth == Info[f].depthImage
<1>2. /\ b \in Nat \ {0} /\ at' = b + 1 /\ UNCHANGED <<accepted, null>> /\ c = accepted[b] /\ Typed(c)
      /\ Touched(c) \subseteq Live /\ \A k \in DOMAIN drawn : drawn[k].at \in 1 .. b - 1
  <2>1. at \in 1 .. at
    BY ExecuteFact DEF NearestInv
  <2> QED BY <1>1, <2>1, ExecuteFact DEF NearestInv
<1>3. c.type = "BEGIN_RENDER_PASS" /\ drawn' = drawn
  BY <1>1 DEF BeginRenderPass
<1>4. PassAt(at)' = b
  <2>1. PassAt(at)' = PassAt(b + 1)
    BY <1>2 DEF PassAt, LastOf
  <2> QED BY <1>2, <1>3, <2>1, PassFact
<1> SUFFICES ASSUME Cleared(c, "colorImage") # {}, Cleared(c, "depthImage") # {}
             PROVE  PassShows(b)'
  <2>1. Sorted(b)' => Cleared(c, "colorImage") # {} /\ Cleared(c, "depthImage") # {}
    <3>1. Sorted(b)' => Cleared(c, "colorImage")' # {} /\ Cleared(c, "depthImage")' # {}
      BY <1>2 DEF Sorted
    <3> QED BY <1>2, <3>1, ClearedKept
  <2> QED BY <1>4, <2>1, PassGoal
<1>5. /\ f \in Objects /\ Kind(f) = "framebuffer" /\ Led(f) = {color, depth} /\ Handle(f) # NULL
      /\ color # NULL /\ Kind(color) = "image" /\ depth # NULL /\ Kind(depth) = "image"
      /\ Cleared(c, "colorImage") = {color} /\ Cleared(c, "depthImage") = {depth}
      /\ c.clearDepth \in Int
  BY <1>2, <1>3, ClearedFact
<1>6. color # depth /\ Pixels(Info[color]) = Pixels(Info[depth])
  BY <1>5, PairedFact
<1>7. color \in DOMAIN pixels /\ depth \in DOMAIN pixels
  <2>1. Touched(c) = PassTouches(c)
    BY <1>3 DEF Touched
  <2>2. color \in PassTouches(c) /\ depth \in PassTouches(c)
    BY <1>5 DEF PassTouches
  <2> QED BY <1>2, <1>5, <2>1, <2>2 DEF NearestInv, ImagesWhole
<1>8. pixels' = [i \in DOMAIN pixels |->
                  IF i \in {color} THEN Whole(Info[i], Painted(c))
                  ELSE IF i \in {depth} THEN Whole(Info[i], c.clearDepth) ELSE pixels[i]]
  BY <1>1, <1>5 DEF BeginRenderPass
<1>9. Since(b)' = {}
  BY <1>2, <1>3 DEF Since
<1>10. PassShows(b)' = 
         (/\ color \in DOMAIN pixels' /\ depth \in DOMAIN pixels' /\ c.clearDepth \in Int
          /\ \A p \in Pixels(Info[color]) :
               Nearest(Since(b)', Surfaces(p)', Colours', Painted(c), c.clearDepth, pixels'[color][p], pixels'[depth][p]))
  BY <1>2 DEF PassShows
<1> HIDE DEF color, depth, f
<1>11. ASSUME NEW p \in Pixels(Info[color])
       PROVE  pixels'[color][p] = Painted(c) /\ pixels'[depth][p] = c.clearDepth
  BY <1>6, <1>7, <1>8 DEF Whole
<1>12. color \in DOMAIN pixels' /\ depth \in DOMAIN pixels'
  BY <1>7, <1>8
<1> QED BY <1>5, <1>9, <1>10, <1>11, <1>12 DEF Nearest

\* What holds of everything drawn held before the last draw.
LEMMA HeldBefore ==
    ASSUME \A k \in DOMAIN drawn : k \in DOMAIN drawn' /\ drawn'[k] = drawn[k],
           at \in Nat, at' = at + 1, UNCHANGED <<accepted, null>>, NEW b \in Nat
    PROVE  /\ Within' => Within
           /\ Upright' => Upright
           /\ Sorted(b)' => Sorted(b)
<1>1. Within' => Within
  BY DEF Within
<1>2. Upright' => Upright
  BY DEF Upright
<1>3. Sorted(b)' => Sorted(b)
  <2>1. \A j \in b + 1 .. at - 1 : j \in b + 1 .. (at + 1) - 1
    OBVIOUS
  <2>2. \A c, n : Cleared(c, n)' = Cleared(c, n)
    BY ClearedKept
  <2>3. Cleared(accepted[b], "colorImage")' = Cleared(accepted[b], "colorImage")
        /\ Cleared(accepted[b], "depthImage")' = Cleared(accepted[b], "depthImage")
    BY <2>2
  <2>4. ASSUME Sorted(b)', NEW k \in DOMAIN drawn, drawn[k].at > b PROVE Ordinary(Info[drawn[k].pipeline])
    <3>1. \A n \in DOMAIN drawn' : drawn'[n].at > b => Ordinary(Info[drawn'[n].pipeline])
      BY <2>4 DEF Sorted
    <3> QED BY <2>4, <3>1
  <2> QED BY <2>1, <2>3, <2>4 DEF Sorted
<1> QED BY <1>1, <1>2, <1>3

LEMMA NearestSame ==
    ASSUME NEW D, NEW Q, NEW Q2, NEW F, NEW F2, \A k \in D : Q[k] = Q2[k] /\ F[k] = F2[k],
           NEW ground, NEW far, NEW color, NEW depth, Nearest(D, Q, F, ground, far, color, depth)
    PROVE  Nearest(D, Q2, F2, ground, far, color, depth)
<1>1. CASE color = ground /\ depth = far /\ \A k \in D : \A z \in Q[k] : z >= far
  BY <1>1, Zenon DEF Nearest
<1>2. CASE /\ depth < far
           /\ \A k \in D : \A z \in Q[k] : z >= depth
           /\ \E k \in D : /\ depth \in Q[k] /\ color = F[k]
                           /\ \A m \in D : depth \in Q[m] => k <= m
  <2>1. \A k \in D : \A z \in Q2[k] : z >= depth
    BY <1>2
  <2>2. \E k \in D : /\ depth \in Q2[k] /\ color = F2[k]
                     /\ \A m \in D : depth \in Q2[m] => k <= m
    BY <1>2
  <2> QED BY <1>2, <2>1, <2>2 DEF Nearest
<1> QED BY <1>1, <1>2, Zenon DEF Nearest

\* A command that begins no pass, clears no image and draws nothing.
LEMMA QuietNearest ==
    ASSUME NearestInv, Execute, cmds[at].type # "BEGIN_RENDER_PASS", UNCHANGED <<pixels, drawn>>
    PROVE  PassNearest'
<1>1. PICK b : b = PassAt(at)
  OBVIOUS
<1>2. at \in Nat \ {0} /\ at' = at + 1 /\ UNCHANGED <<accepted, null>> /\ cmds[at] = accepted[at]
  BY ExecuteFact DEF NearestInv
<1>3. PassAt(at)' = b /\ b \in Nat
  <2>1. PassAt(at)' = PassAt(at + 1)
    BY <1>2 DEF PassAt, LastOf
  <2> QED BY <1>1, <1>2, <2>1, PassFact
<1>4. \A k \in DOMAIN drawn : k \in DOMAIN drawn' /\ drawn'[k] = drawn[k]
  OBVIOUS
<1>5. Within' /\ Upright' /\ Sorted(b)' => PassShows(b)
  BY <1>1, <1>2, <1>3, <1>4, HeldBefore DEF NearestInv, PassNearest
<1>6. PassShows(b)' = PassShows(b)
  <2>1. Since(b)' = Since(b) /\ Colours' = Colours /\ \A p : Surfaces(p)' = Surfaces(p)
    BY DEF Since, Colours, Surfaces
  <2> QED BY <1>2, <2>1 DEF PassShows
<1> QED BY <1>3, <1>5, <1>6, PassGoal

\* The next draw of a cleared pass.
LEMMA DrawNearest ==
    ASSUME NearestInv, Paired, Execute, Draw(cmds[at]), Shows(cmds[at])
    PROVE  PassNearest'
<1>1. PICK b, c, d, K :
         /\ b = PassAt(at) /\ c = cmds[at] /\ K = Len(drawn) + 1
         /\ d = [at |-> at, framebuffer |-> state.framebuffer,
                 pipeline |-> state.pipeline, buffer |-> state.vertexBuffer,
                 vertices |-> Vertices(c), viewport |-> state.viewport,
                 scissor |-> state.scissor, uniforms |-> UniformsSeen]
  OBVIOUS
<1>2. /\ at \in Nat \ {0} /\ at' = at + 1 /\ UNCHANGED <<accepted, null>> /\ c = accepted[at] /\ Typed(c)
      /\ StateMeans(state, at) /\ drawn \in Seq(Meanings) /\ \A k \in DOMAIN drawn : drawn[k].at \in 1 .. at - 1
  <2>1. at \in 1 .. at
    BY ExecuteFact DEF NearestInv
  <2> QED BY <1>1, <2>1, ExecuteFact DEF NearestInv
<1>3. c.type \in {"DRAW", "DRAW_INDEXED"} /\ c.count \in Nat
  BY <1>1, <1>2 DEF Draw, Typed
<1>4. b \in 0 .. at - 1 /\ (b # 0 => accepted[b].type = "BEGIN_RENDER_PASS") /\ PassAt(at)' = b
  <2>1. PassAt(at)' = PassAt(at + 1)
    BY <1>2 DEF PassAt, LastOf
  <2> QED BY <1>1, <1>2, <1>3, <2>1, PassFact
<1>5. /\ drawn' = Append(drawn, d)
      /\ pixels' = [i \in DOMAIN pixels |-> IF i = Color THEN Painting(c)[Len(OnScreen(c))].color
                                             ELSE IF i = Depth THEN Painting(c)[Len(OnScreen(c))].depth
                                             ELSE pixels[i]]
  BY <1>1 DEF Draw
<1>6. /\ K \in Nat /\ DOMAIN drawn' = DOMAIN drawn \cup {K} /\ drawn'[K] = d
      /\ \A k \in DOMAIN drawn : k \in Nat /\ k < K /\ drawn'[k] = drawn[k]
  <2> DEFINE n == Len(drawn)
  <2>1. n \in Nat /\ DOMAIN drawn = 1 .. n /\ K = n + 1
    BY <1>1, <1>2
  <2>2. /\ DOMAIN drawn' = 1 .. n + 1 /\ drawn'[n + 1] = d
        /\ \A k \in 1 .. n : drawn'[k] = drawn[k]
    <3>1. drawn' = Append(drawn, d) /\ drawn \in Seq(Meanings)
      BY <1>2, <1>5
    <3> QED BY <3>1
  <2> HIDE DEF n
  <2>3. 1 .. n + 1 = (1 .. n) \cup {n + 1} /\ \A k \in 1 .. n : k \in Nat /\ k < n + 1
    BY <2>1
  <2> QED BY <2>1, <2>2, <2>3
<1> SUFFICES ASSUME Within', Upright', Sorted(b)' PROVE PassShows(b)'
  BY <1>4, PassGoal
<1>7. PassShows(b) /\ Sorted(b)
  <2>1. \A k \in DOMAIN drawn : k \in DOMAIN drawn' /\ drawn'[k] = drawn[k]
    BY <1>6
  <2> QED BY <1>1, <1>2, <1>4, <2>1, HeldBefore DEF NearestInv, PassNearest
<1> DEFINE s == accepted[b]
           f == s.framebuffer
           color == Info[f].colorImage
           depth == Info[f].depthImage
           C == Pixels(Info[color])
<1>8. b > 0 /\ b \in 1 .. at /\ s.type = "BEGIN_RENDER_PASS" /\ Typed(s)
      /\ Cleared(s, "colorImage") # {} /\ Cleared(s, "depthImage") # {}
  <2>1. b > 0 /\ b \in 1 .. at
    BY <1>2, <1>4, <1>7 DEF Sorted
  <2> QED BY <1>4, <1>7, <2>1, ExecuteFact DEF Sorted, NearestInv
<1>9. /\ f # NULL /\ Handle(f) = f /\ f \in Objects /\ Kind(f) = "framebuffer" /\ Led(f) = {color, depth}
      /\ color # NULL /\ Handle(color) = color /\ depth # NULL /\ Handle(depth) = depth
      /\ s.clearDepth \in Int /\ Info[color].width \in Nat /\ Info[color].height \in Nat
  BY <1>8, ClearedFact
<1>10. color # depth /\ C = Pixels(Info[depth])
  BY <1>9, PairedFact
<1>11. color \in DOMAIN pixels /\ depth \in DOMAIN pixels
  BY <1>7 DEF PassShows
<1>12. DOMAIN pixels[color] = C /\ DOMAIN pixels[depth] = C
  BY <1>10, <1>11 DEF NearestInv, ImagesWhole
<1>13. state.framebuffer = f /\ Color = color /\ Depth = depth
  <2>1. state.framebuffer = Handle(f)
    BY <1>1, <1>2, <1>8 DEF StateMeans, Bound, PassAt
  <2> QED BY <1>9, <2>1 DEF Color, Depth, Attached
<1>14. state.viewport \in GravViewport /\ state.scissor \in GravRect2D
  BY <1>2 DEF NearestInv, Places
<1>15. /\ d.pipeline = state.pipeline /\ d.vertices = Vertices(c) /\ d.viewport = state.viewport
       /\ d.scissor = state.scissor /\ d.at = at
       /\ [by |-> Info[d.buffer].varying, uniforms |-> d.uniforms] = FragColor
  BY <1>1 DEF FragColor
<1>16. /\ Ordinary(Info[state.pipeline]) /\ d.viewport.width * d.viewport.height > 0
       /\ \A k \in DOMAIN Vertices(c) : Vertices(c)[k] \in Vertex
  <2>1. K \in DOMAIN drawn' /\ d.at > b
    BY <1>2, <1>4, <1>6, <1>15
  <2>2. Ordinary(Info[drawn'[K].pipeline]) /\ drawn'[K].viewport.width * drawn'[K].viewport.height > 0
        /\ \A k \in DOMAIN drawn'[K].vertices : drawn'[K].vertices[k] \in Vertex
    BY <1>6, <2>1 DEF Sorted, Within, Upright
  <2> QED BY <1>6, <1>15, <2>2
<1>17. Since(b)' = Since(b) \cup {K}
  BY <1>2, <1>4, <1>6, <1>15 DEF Since
<1> HIDE DEF s, f, color, depth, C
<1>18. ASSUME NEW p \in C
       PROVE  Nearest(Since(b) \cup {K}, Surfaces(p)', Colours', Painted(s), s.clearDepth,
                      pixels'[color][p], pixels'[depth][p])
  <2> DEFINE Q == Surfaces(p)'
             F == Colours'
             was == pixels[color][p]
             deep == pixels[depth][p]
             L == Len(OnScreen(c))
             is == Painting(c)[L].color[p]
             dip == Painting(c)[L].depth[p]
  <2>1. /\ \A k \in DOMAIN drawn : Q[k] = Surfaces(p)[k] /\ F[k] = Colours[k]
        /\ Q[K] = Depths(d, p) /\ F[K] = FragColor
    BY <1>6, <1>15 DEF Surfaces, Colours
  <2>2. \A k \in DOMAIN drawn \cup {K} : Q[k] \subseteq Int
    <3>1. \A e : Depths(e, p) \subseteq Int
      BY DEF Depths, One
    <3> QED BY <1>6, <3>1 DEF Surfaces
  <2>3. Since(b) \subseteq DOMAIN drawn
    BY DEF Since
  <2>4. Nearest(Since(b), Surfaces(p), Colours, Painted(s), s.clearDepth, was, deep)
    BY <1>7 DEF PassShows, s, f, color, depth, C
  <2>5. L \in Nat
    BY <1>3, OnScreenFact
  <2>6. pixels'[color][p] = is /\ pixels'[depth][p] = dip
    BY <1>5, <1>10, <1>11, <1>13
  <2>7. Target.color[p] = was /\ Target.depth[p] = deep /\ Framed(Target, C, C)
    <3>1. Target = [color |-> pixels[color], depth |-> pixels[depth]]
      BY <1>9, <1>13 DEF Target, depth
    <3> QED BY <1>12, <3>1 DEF Framed
  <2>8. /\ \A k \in 1 .. L : OnScreen(c)[k][1].z \in Int
        /\ \A z : z \in Q[K] <=> \E k \in 1 .. L : Strikes(OnScreen(c)[k], p) /\ z = OnScreen(c)[k][1].z
    <3>1. p \in Pixels(Info[Color]) /\ Info[Color].width \in Nat /\ Info[Color].height \in Nat
      BY <1>9, <1>13 DEF C, color
    <3> HIDE DEF Q
    <3> QED BY <1>3, <1>14, <1>15, <1>16, <2>1, <3>1, DepthsFact
  <2> HIDE DEF Q, F, was, deep, L, is, dip
  <2>9. Nearest(Since(b), Q, F, Painted(s), s.clearDepth, was, deep)
    <3>1. \A k \in Since(b) : Surfaces(p)[k] = Q[k] /\ Colours[k] = F[k]
      BY <2>1, <2>3
    <3> QED BY <2>4, <3>1, NearestSame
  <2>10. deep \in Int
    BY <1>9, <2>2, <2>3, <2>9 DEF Nearest, s
  <2>11. Settled(c, p, L)
    <3>1. Depth # NULL
      BY <1>9, <1>13 DEF depth
    <3> QED BY <1>16, <2>5, <2>7, <2>8, <2>10, <3>1, PaintingSettles DEF L
  <2>12. /\ dip \in Int
         /\ \/ is = was /\ dip = deep /\ \A z \in Q[K] : z >= deep
            \/ is = F[K] /\ dip < deep /\ dip \in Q[K] /\ \A z \in Q[K] : z >= dip
    BY <2>1, <2>7, <2>8, <2>11 DEF Settled, is, dip
  <2>13. Nearest(Since(b) \cup {K}, Q, F, Painted(s), s.clearDepth, is, dip)
    <3>1. /\ \A k \in Since(b) : k \in Nat /\ k < K
          /\ \A k \in Since(b) \cup {K} : Q[k] \subseteq Int
      BY <1>6, <2>2, <2>3
    <3>2. s.clearDepth \in Int
      BY <1>9 DEF s
    <3> QED BY <1>6, <2>9, <2>10, <2>12, <3>1, <3>2, NearestStep
  <2> QED BY <2>6, <2>13 DEF Q, F
<1>19. color \in DOMAIN pixels' /\ depth \in DOMAIN pixels'
  BY <1>5, <1>11
<1>20. PassShows(b)' =
         (/\ color \in DOMAIN pixels' /\ depth \in DOMAIN pixels' /\ s.clearDepth \in Int
          /\ \A p \in C : Nearest(Since(b)', Surfaces(p)', Colours', Painted(s), s.clearDepth,
                                   pixels'[color][p], pixels'[depth][p]))
  BY <1>2 DEF PassShows, s, f, color, depth, C
<1> QED BY <1>9, <1>17, <1>18, <1>19, <1>20 DEF s

LEMMA NearestNext ==
    ASSUME NearestInv, Paired, [Next]_vars
    PROVE  PassNearest'
<1>0. at \in Nat
  BY DEF NearestInv, FullInv, IInv, Recording
<1>1. CASE at' = 0
  BY <1>1 DEF PassNearest
<1>2. CASE Submit
  <2>1. at' = 1
    BY <1>2 DEF Submit
  <2>2. PassAt(at)' = 0
    <3>1. \A j \in 1 .. 1 - 1 : FALSE
      OBVIOUS
    <3>2. {j \in 1 .. at' - 1 : accepted'[j].type \in {"BEGIN_RENDER_PASS"}} = {}
      BY <2>1, <3>1
    <3> QED BY <3>2, MaxNone DEF PassAt, LastOf
  <2>3. ~Sorted(0)'
    BY DEF Sorted
  <2> QED BY <2>2, <2>3, PassGoal
<1>3. CASE UNCHANGED <<accepted, null, at, drawn, pixels>>
  <2>1. PassAt(at)' = PassAt(at)
    BY <1>3 DEF PassAt, LastOf
  <2>2. PICK b : b = PassAt(at)
    OBVIOUS
  <2>3. \A c, n : Cleared(c, n)' = Cleared(c, n)
    BY <1>3, ClearedKept
  <2>4. Within' = Within /\ Upright' = Upright /\ Sorted(b)' = Sorted(b)
    BY <1>3, <2>3 DEF Within, Upright, Sorted
  <2>5. PassShows(b)' = PassShows(b)
    <3>1. Since(b)' = Since(b) /\ Colours' = Colours /\ \A p : Surfaces(p)' = Surfaces(p)
      BY <1>3 DEF Since, Colours, Surfaces
    <3> QED BY <1>3, <3>1 DEF PassShows
  <2> QED BY <1>3, <2>1, <2>2, <2>4, <2>5, PassGoal DEF NearestInv, PassNearest
<1>4. CASE Execute
  <2> DEFINE c == cmds[at]
  <2>1. at \in Nat \ {0} /\ at' = at + 1 /\ UNCHANGED <<accepted, null>> /\ c = accepted[at] /\ Step(c)
    BY <1>4, ExecuteFact DEF NearestInv
  <2> HIDE DEF c
  <2>2. CASE BeginRenderPass(c)
    BY <1>4, <2>2, BeginNearest DEF NearestInv, c
  <2>3. CASE ClearColorImage(c)
    <3>1. PICK b : b = PassAt(at)
      OBVIOUS
    <3>2. c.type = "CLEAR_COLOR_IMAGE"
      BY <2>3 DEF ClearColorImage
    <3>3. PassAt(at)' = b /\ b \in 0 .. at - 1
      <4>1. PassAt(at)' = PassAt(at + 1)
        BY <2>1 DEF PassAt, LastOf
      <4> QED BY <2>1, <3>1, <3>2, <4>1, PassFact
    <3>4. ~Sorted(b)'
      <4>1. at \in b + 1 .. at' - 1 /\ accepted'[at].type = "CLEAR_COLOR_IMAGE"
        BY <2>1, <3>2, <3>3
      <4> QED BY <4>1 DEF Sorted
    <3> QED BY <3>3, <3>4, PassGoal
  <2>4. CASE Draw(c) /\ Shows(c)
    BY <1>4, <2>4, DrawNearest DEF NearestInv, c
  <2>5. CASE c.type # "BEGIN_RENDER_PASS" /\ UNCHANGED <<pixels, drawn>>
    BY <1>4, <2>5, QuietNearest DEF NearestInv, c
  <2>6. CASE Draw(c) /\ ~Shows(c)
    <3>1. c.type # "BEGIN_RENDER_PASS" /\ UNCHANGED <<pixels, drawn>>
      BY <2>6 DEF Draw
    <3> QED BY <2>5, <3>1
  <2>7. CASE \/ EndRenderPass(c) \/ BindPipeline(c) \/ BindVertexBuffer(c) \/ BindIndexBuffer(c)
             \/ SetViewport(c) \/ SetScissor(c) \/ SetUniforms(c)
    <3>1. c.type # "BEGIN_RENDER_PASS" /\ UNCHANGED <<pixels, drawn>>
      BY <2>7 DEF EndRenderPass, BindPipeline, BindVertexBuffer, BindIndexBuffer, SetViewport, SetScissor, SetUniforms
    <3> QED BY <2>5, <3>1
  <2> QED BY <2>1, <2>2, <2>3, <2>4, <2>6, <2>7 DEF Step
<1> QED
  <2>1. CASE Create \/ (\E o \in Objects : Destroy(o)) \/ Update \/ gravBeginCommandBuffer \/ gravEndCommandBuffer
             \/ gravResetCommandBuffer \/ (\E c \in Offered : Record(c)) \/ Return
    <3>1. at' = 0
      BY <2>1 DEF Create, Destroy, Update, gravBeginCommandBuffer, gravEndCommandBuffer,
                  gravResetCommandBuffer, Record, Return, Calls, submitVars
    <3> QED BY <1>1, <3>1
  <2>2. CASE Fault \/ UNCHANGED vars
    BY <1>3, <2>2 DEF Fault, vars, appVars, bufferVars, submitVars
  <2> QED BY <1>2, <1>4, <2>1, <2>2 DEF Next

LEMMA LeastIs ==
    ASSUME NEW S, S \subseteq Int, NEW x \in S, \A y \in S : x <= y
    PROVE  Min(S) = x
<1>1. \A z \in S : (\A y \in S : z <= y) => z = x
  OBVIOUS
<1> QED BY <1>1 DEF Min

\* What the images show is what NearestWins says.
LEMMA NearestSeen ==
    ASSUME NearestInv, Within, Upright
    PROVE  NearestWins
<1> DEFINE b == LastOf(at, {"BEGIN_RENDER_PASS"})
           c == accepted[b]
           color == Info[c.framebuffer].colorImage
           depth == Info[c.framebuffer].depthImage
           draws == {k \in DOMAIN drawn : drawn[k].at > b}
           near(p) == {z \in UNION {Depths(drawn[k], p) : k \in draws} : z < c.clearDepth}
           by(p) == {k \in draws : Min(near(p)) \in Depths(drawn[k], p)}
           shade(k) == [by |-> Info[drawn[k].buffer].varying, uniforms |-> drawn[k].uniforms]
<1> SUFFICES ASSUME at > 0, Sorted(b), NEW p \in DOMAIN pixels[color]
             PROVE  pixels[color][p] = IF near(p) = {} THEN Painted(c) ELSE shade(Min(by(p)))
  BY DEF NearestWins
<1>1. PassShows(b)
  BY DEF NearestInv, PassNearest, PassAt
<1>2. draws = Since(b) /\ draws \subseteq DOMAIN drawn
  BY DEF Since
<1>3. color \in DOMAIN pixels /\ p \in Pixels(Info[color])
  BY <1>1 DEF PassShows, NearestInv, ImagesWhole
<1>4. Nearest(draws, Surfaces(p), Colours, Painted(c), c.clearDepth, pixels[color][p], pixels[depth][p])
  BY <1>1, <1>2, <1>3 DEF PassShows
<1>5. \A k \in draws : Surfaces(p)[k] = Depths(drawn[k], p) /\ Colours[k] = shade(k)
  BY <1>2 DEF Surfaces, Colours
<1>6. /\ \A k : Depths(drawn[k], p) \subseteq Int
      /\ draws \subseteq Int /\ c.clearDepth \in Int
  <2>1. \A k : Depths(drawn[k], p) \subseteq Int
    BY DEF Depths, One
  <2>2. drawn \in Seq(Meanings) /\ at \in Nat \ {0}
    <3>1. at \in Nat
      BY DEF NearestInv, FullInv, IInv, Recording
    <3> QED BY <3>1 DEF NearestInv, FullInv, DrawInv, Listed
  <2>3. draws \subseteq Int
    BY <2>2
  <2>4. c.clearDepth \in Int
    BY <1>1 DEF PassShows
  <2> QED BY <2>1, <2>3, <2>4
<1> HIDE DEF b, c, color, depth, draws, shade
<1>7. CASE pixels[color][p] = Painted(c) /\ \A k \in draws : \A z \in Surfaces(p)[k] : z >= c.clearDepth
  <2>1. \A k \in draws : \A z \in Depths(drawn[k], p) : ~(z < c.clearDepth)
    <3> TAKE k \in draws
    <3> TAKE z \in Depths(drawn[k], p)
    <3>1. z >= c.clearDepth /\ z \in Int
      BY <1>5, <1>6, <1>7
    <3> QED BY <1>6, <3>1
  <2>2. near(p) = {}
    BY <2>1
  <2> QED BY <1>7, <2>2
<1>8. CASE \E z : /\ z < c.clearDepth
                  /\ \A k \in draws : \A y \in Surfaces(p)[k] : y >= z
                  /\ \E k \in draws : /\ z \in Surfaces(p)[k] /\ pixels[color][p] = Colours[k]
                                      /\ \A m \in draws : z \in Surfaces(p)[m] => k <= m
  <2>1. PICK z : /\ z < c.clearDepth
                 /\ \A k \in draws : \A y \in Surfaces(p)[k] : y >= z
                 /\ \E k \in draws : /\ z \in Surfaces(p)[k] /\ pixels[color][p] = Colours[k]
                                     /\ \A m \in draws : z \in Surfaces(p)[m] => k <= m
    BY <1>8
  <2>2. PICK k \in draws : /\ z \in Depths(drawn[k], p) /\ pixels[color][p] = shade(k)
                           /\ \A m \in draws : z \in Depths(drawn[m], p) => k <= m
    BY <1>5, <2>1
  <2>3. \A m \in draws : \A y \in Depths(drawn[m], p) : z <= y
    BY <1>5, <1>6, <2>1, <2>2
  <2>4. z \in near(p) /\ near(p) \subseteq Int /\ \A y \in near(p) : z <= y
    BY <1>6, <2>1, <2>2, <2>3
  <2>5. Min(near(p)) = z
    <3> HIDE DEF near
    <3> QED BY <2>4, LeastIs
  <2>6. k \in by(p) /\ by(p) \subseteq Int /\ \A m \in by(p) : k <= m
    <3> HIDE DEF near
    <3> QED BY <1>6, <2>2, <2>5
  <2>7. Min(by(p)) = k
    <3> HIDE DEF by
    <3> QED BY <2>6, LeastIs
  <2>8. near(p) # {}
    BY <2>4
  <2> HIDE DEF near, by
  <2> QED BY <2>2, <2>7, <2>8
<1> QED BY <1>4, <1>7, <1>8 DEF Nearest

\* In a pass that cleared its images and whose draws all test and write the depth, every pixel
\* shows the nearest surface that covers it, the first drawn among equals, or the clear colour
\* (rasterize_triangle(), draw_triangle(), execute_draw()).  For every application, every set of
\* triangles and viewports and every size of images: as long as a framebuffer's two images are
\* two and equally large, no draw reads a vertex from outside its buffer, and no viewport
\* is flat or mirrored.
THEOREM NearestSafe ==
    ASSUME Paired
    PROVE  Spec => [](Within /\ Upright => NearestWins)
<1>1. Init => NearestInv
  <2> SUFFICES ASSUME Init PROVE NearestInv
    OBVIOUS
  <2>1. FullInv
    BY InitInv DEF FullInv, DrawInv, Init
  <2>2. Live = {} /\ pixels = << >> /\ drawn = << >> /\ at = 0
    BY DEF Init, Live
  <2> QED BY <2>1, <2>2 DEF NearestInv, ImagesWhole, Places, PassNearest
<1>2. NearestInv /\ [Next]_vars => NearestInv'
  <2> SUFFICES ASSUME NearestInv, [Next]_vars PROVE NearestInv'
    OBVIOUS
  <2>1. FullInv'
    BY NextInv, DrawNext DEF NearestInv, FullInv
  <2>2. ImagesWhole' /\ Places' /\ PassNearest'
    BY ImagesNext, PlacesNext, NearestNext DEF NearestInv
  <2> QED BY <2>1, <2>2 DEF NearestInv
<1>3. NearestInv => (Within /\ Upright => NearestWins)
  BY NearestSeen
<1> QED BY <1>1, <1>2, <1>3, PTL DEF Spec
=============================================================================
