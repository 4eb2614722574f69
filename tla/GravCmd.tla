------------------------------ MODULE GravCmd ------------------------------
(***************************************************************************)
(* Command buffers of gravityon.c and the application that uses them:      *)
(* objects are created and destroyed, commands recorded, and a buffer is    *)
(* submitted any number of times.  gravSubmitCommandBuffer() takes one step  *)
(* for each command; the application, which called it, waits meanwhile.     *)
(* Handles are pointers and nothing checks what they point to: using one      *)
(* that was destroyed, or that its creation never wrote, has no defined      *)
(* effect, and the model stops.                                              *)
(***************************************************************************)
EXTENDS GravRast, SequencesExt

CONSTANTS
  Info,         \* the pCreateInfo of each object the application wants
  Session,      \* what an application does: see GravAssumption
  UniformCells  \* the cells of uniformData[]

NULL == "NULL"
Objects == DOMAIN Info
Kind(o) == Info[o].kind

\* The handles a command holds, and those an object leads to when it is used.
Named(c) == CASE c.type = "BEGIN_RENDER_PASS" -> {c.renderPass, c.framebuffer}
              [] c.type = "BIND_PIPELINE" -> {c.pipeline}
              [] c.type \in {"BIND_VERTEX_BUFFER", "BIND_INDEX_BUFFER"} -> {c.buffer}
              [] c.type = "CLEAR_COLOR_IMAGE" -> {c.image}
              [] OTHER -> {}
Led(o) == CASE Kind(o) = "framebuffer" -> {Info[o].colorImage, Info[o].depthImage}
            [] Kind(o) = "pipeline" -> {Info[o].shader}
            [] OTHER -> {}

\* What the types of C let an application pass: handles of the right kind, or NULL.
IsA(h, kind) == h = NULL \/ (h \in Objects /\ Kind(h) = kind)
Typed(c) ==
  /\ c.type = "BEGIN_RENDER_PASS" => /\ IsA(c.renderPass, "renderPass") /\ IsA(c.framebuffer, "framebuffer")
                                     /\ c.renderArea \in GravRect2D /\ c.clearDepth \in Int
  /\ c.type = "SET_VIEWPORT" => c.viewport \in GravViewport
  /\ c.type = "SET_SCISSOR" => c.scissor \in GravRect2D
  /\ c.type = "BIND_VERTEX_BUFFER" => c.offset \in Nat
  /\ c.type \in {"DRAW", "DRAW_INDEXED"} => c.count \in Nat
  /\ c.type = "BIND_PIPELINE" => IsA(c.pipeline, "pipeline")
  /\ c.type = "SET_UNIFORMS" => c \in [type : {"SET_UNIFORMS"}, size : Nat, data : Nat]

ASSUME GravAssumption ==
  /\ UniformCells \in Nat \ {0}
  /\ NULL \notin Objects
  /\ \A o \in Objects :
        /\ Kind(o) = "image" => Info[o].width \in Nat /\ Info[o].height \in Nat
        /\ Kind(o) = "pipeline" => /\ Info[o].uniforms \in {NULL, "memory"}
                                   /\ Info[o].viewport \in GravViewport /\ Info[o].scissor \in GravRect2D
        /\ Kind(o) = "framebuffer" => \A i \in Led(o) : IsA(i, "image")
  /\ \A s \in Session :
        /\ s.setup \in Seq(Objects)        \* creates these, in this order, once, parts first
        /\ \A k \in DOMAIN s.setup :
              /\ Led(s.setup[k]) \subseteq {s.setup[j] : j \in 1 .. k - 1} \cup {NULL}
              /\ s.setup[k] \notin {s.setup[j] : j \in 1 .. k - 1}
        /\ s.capacity \in Nat \ {0}        \* of the command buffer
        /\ Len(s.menu) \in Nat             \* menu[k]: the choices for the k-th command
        /\ \A k \in 1 .. Len(s.menu) : \A c \in s.menu[k] :
              Typed(c) /\ Named(c) \subseteq Range(s.setup) \cup {NULL}
        /\ s.submissions \in Nat
        /\ s.initialised \in BOOLEAN       \* its variables for handles, with NULL
        /\ s.accidents \in Nat             \* creations that fail, objects destroyed
        /\ s.updates \in Nat               \* changes of the memory uniforms come from

VARIABLES
  session,
  created,      \* how many of session.setup the application has tried
  null, wild,   \* those that failed: the handle is NULL, or what its variable held before
  gone,         \* those destroyed
  recording, cmds,   \* the command buffer
  accepted,     \* the commands acknowledged since gravBeginCommandBuffer()
  budget,       \* how many commands, submissions and updates were made
  memory,       \* the application's memory: what it last wrote there
  pixels,       \* of the images
  state,        \* RastState
  at,           \* the command executed next, or 0
  drawn,        \* what this submission has drawn
  undefined     \* a handle was used that pointed to nothing

appVars == <<session, created, null, wild, gone, budget, memory>>
bufferVars == <<recording, cmds, accepted>>
submitVars == <<pixels, state, at, drawn, undefined>>
vars == <<appVars, bufferVars, submitVars>>

Cell == 1 .. UniformCells
NoUniforms == [c \in Cell |-> -1]          \* a NULL pointer
Block(value) == [c \in Cell |-> value]

\* What a handle is compared with NULL as; one that points to nothing stays itself.
Handle(o) == IF o = NULL \/ o \in null THEN NULL ELSE o
Live == {session.setup[k] : k \in 1 .. created} \ (null \cup wild \cup gone)

Pixels(image) == (0 .. image.width - 1) \X (0 .. image.height - 1)
Whole(image, value) == [p \in Pixels(image) |-> value]
Black == [by |-> "calloc", uniforms |-> NoUniforms]
White == [by |-> "wireframe", uniforms |-> NoUniforms]

ZeroRect == [x |-> 0, y |-> 0, width |-> 0, height |-> 0]
ZeroViewport == [x |-> 0, y |-> 0, width |-> 0, height |-> 0, minDepth |-> 0, maxDepth |-> 0]

\* memset(&state, 0, sizeof(state)); inRenderPass is never read and left out.
Zeroed == [pipeline |-> NULL, framebuffer |-> NULL,
           vertexBuffer |-> NULL, vertexOffset |-> 0, indexBuffer |-> NULL, indexOffset |-> 0,
           viewport |-> ZeroViewport, scissor |-> ZeroRect,
           uniforms |-> NULL, uniformData |-> Block(0)]

Init == /\ session \in Session
        /\ created = 0 /\ null = {} /\ wild = {} /\ gone = {}
        /\ recording = FALSE /\ cmds = << >> /\ accepted = << >>
        /\ budget = [commands |-> 0, submissions |-> 0, updates |-> 0] /\ memory = 1
        /\ pixels = << >> /\ state = Zeroed /\ at = 0 /\ drawn = << >> /\ undefined = FALSE

Spend(what) == budget' = [budget EXCEPT ![what] = @ + 1]
Ready == created = Len(session.setup)
Calls == at = 0 /\ ~undefined
Accidents == Cardinality(null \cup wild \cup gone)

-----------------------------------------------------------------------------
(* Objects *)

\* gravCreateShaderModule() and gravCreatePipeline() refuse a missing part.
Complete(o) == IF Kind(o) = "pipeline" THEN Handle(Info[o].shader) # NULL ELSE TRUE

Fresh(o) == IF Info[o].format = "D32_SFLOAT" THEN Whole(Info[o], One) ELSE Whole(Info[o], Black)

\* A creation that fails leaves *pHandle as it is: NULL, or anything if the
\* application did not initialise it.
Unwritten(o) == \/ null' = null \cup {o} /\ wild' = wild
                \/ ~session.initialised /\ wild' = wild \cup {o} /\ null' = null

Create == /\ Calls /\ ~Ready
          /\ LET o == session.setup[created + 1]
             IN /\ \/ Complete(o) /\ UNCHANGED <<null, wild>>
                   \/ (~Complete(o) \/ Accidents < session.accidents) /\ Unwritten(o)
                /\ pixels' = IF Kind(o) = "image" /\ o \notin null' \cup wild' THEN [i \in DOMAIN pixels \cup {o} |-> IF i = o THEN Fresh(o) ELSE pixels[i]]
                             ELSE pixels
          /\ created' = created + 1
          /\ UNCHANGED <<session, gone, budget, memory, bufferVars, state, at, drawn, undefined>>

Destroy(o) == /\ Calls /\ Ready /\ o \in Live /\ Accidents < session.accidents
              /\ gone' = gone \cup {o}
              /\ pixels' = [i \in DOMAIN pixels \ {o} |-> pixels[i]]
              /\ UNCHANGED <<session, created, null, wild, budget, memory, bufferVars,
                             state, at, drawn, undefined>>

\* The application changes what pipelines and gravCmdSetUniforms() point to.
Update == /\ Calls /\ Ready /\ budget.updates < session.updates /\ Spend("updates")
          /\ memory' = memory + 1
          /\ UNCHANGED <<session, created, null, wild, gone, bufferVars, submitVars>>

-----------------------------------------------------------------------------
(* Recording *)

gravBeginCommandBuffer ==
  /\ Calls /\ Ready /\ ~recording
  /\ recording' = TRUE /\ cmds' = << >> /\ accepted' = << >>
  /\ UNCHANGED <<appVars, submitVars>>

gravEndCommandBuffer ==
  /\ Calls /\ recording /\ recording' = FALSE
  /\ UNCHANGED <<cmds, accepted, appVars, submitVars>>

gravResetCommandBuffer ==
  /\ Calls /\ (recording \/ cmds # << >>)
  /\ recording' = FALSE /\ cmds' = << >> /\ accepted' = << >>
  /\ UNCHANGED <<appVars, submitVars>>

\* The handles a gravCmd* function refuses when they are NULL.
Checked(c) == CASE c.type \in {"BIND_PIPELINE"} -> {c.pipeline}
                [] c.type \in {"BIND_VERTEX_BUFFER", "BIND_INDEX_BUFFER"} -> {c.buffer}
                [] c.type = "CLEAR_COLOR_IMAGE" -> {c.image}
                [] OTHER -> {}

TooLarge(c) == c.type = "SET_UNIFORMS" /\ c.size > UniformCells
Refused(c) == TooLarge(c) \/ (\E h \in Checked(c) : Handle(h) = NULL)

\* The bytes of the uniforms are copied when the command is recorded.
Stored(c) == IF c.type = "SET_UNIFORMS" THEN [c EXCEPT !.data = memory] ELSE c

Offered == IF budget.commands < Len(session.menu) THEN session.menu[budget.commands + 1] ELSE {}

\* push_cmd(): a full buffer refuses the command and stays as it is.
Record(c) ==
  /\ Calls /\ recording /\ ~Refused(c)
  /\ Len(cmds) < session.capacity
  /\ Spend("commands")
  /\ cmds' = Append(cmds, Stored(c))
  /\ accepted' = Append(accepted, Stored(c))
  /\ UNCHANGED <<recording, session, created, null, wild, gone, memory, submitVars>>

-----------------------------------------------------------------------------
(* Drawing *)

UniformsSeen == CASE state.uniforms = NULL -> NoUniforms
                  [] state.uniforms = "memory" -> Block(memory)
                  [] state.uniforms = "uniformData" -> state.uniformData

\* The vertices of a draw: c.firstVertex and c.vertexOffset are recorded, and not used.
Vertices(c) ==
  LET v(n) == Info[state.vertexBuffer].vertices[state.vertexOffset + n]
      index(k) == Info[state.indexBuffer].indices[state.indexOffset + c.firstIndex + k] + 1
  IN [k \in 1 .. c.count |-> IF c.type = "DRAW" THEN v(k) ELSE v(index(k))]

\* Lines and points are drawn as triangles.
Triangles(topology, v) ==
  IF topology = "TRIANGLE_STRIP"
  THEN [k \in 1 .. Len(v) - 2 |-> IF k % 2 = 1 THEN <<v[k], v[k + 1], v[k + 2]>>
                                  ELSE <<v[k], v[k + 2], v[k + 1]>>]
  ELSE [k \in 1 .. Len(v) \div 3 |-> <<v[3 * k - 2], v[3 * k - 1], v[3 * k]>>]

Attached(field) == IF state.framebuffer = NULL THEN NULL ELSE Handle(Info[state.framebuffer][field])
Color == Attached("colorImage")
Depth == Attached("depthImage")

Buffers(c) == {state.vertexBuffer} \cup IF c.type = "DRAW" THEN {} ELSE {state.indexBuffer}

\* Variant: a draw outside a render pass is not skipped.
NoTargetLess == state.pipeline = NULL
NoTarget == state.pipeline = NULL \/ state.framebuffer = NULL

OnScreen(c) ==
  LET triangles == Triangles(Info[state.pipeline].topology, Vertices(c))
  IN [k \in DOMAIN triangles |->
        [i \in Corner |-> ndc_to_screen(state.viewport, triangles[k][i])]]

FragColor == [by |-> Info[state.vertexBuffer].varying, uniforms |-> UniformsSeen]

\* rasterize_triangle(), from the bounding box on.
Filled(image, t) ==
  LET pl == Info[state.pipeline]
      seen == {p \in Fragments(t, state.scissor, Info[Color]) :
                 pl.depthTest => depth_test(pl.compare, t[1].z, image.depth[p])}
  IN [color |-> [p \in DOMAIN image.color |-> IF p \in seen THEN FragColor ELSE image.color[p]],
      depth |-> IF Depth # NULL /\ pl.depthTest /\ pl.depthWrite
                THEN [p \in DOMAIN image.depth |-> IF p \in seen THEN t[1].z ELSE image.depth[p]]
                ELSE image.depth]

draw_triangle(image, t) ==
  LET pl == Info[state.pipeline]
  IN IF pl.fillMode = "WIREFRAME"
     THEN [image EXCEPT !.color = [p \in DOMAIN @ |->
                                     IF p \in Outline(t, Info[Color]) THEN White ELSE @[p]]]
     ELSE IF Culled(pl.cullMode, t) THEN image ELSE Filled(image, t)

\* Without a depth image every depth read is 1.0.
Target == [color |-> pixels[Color],
           depth |-> IF Depth = NULL THEN Whole(Info[Color], One) ELSE pixels[Depth]]

\* The images after the first n triangles of a draw.
Painting(c) ==
  LET shown == OnScreen(c)
      image[n \in 0 .. Len(shown)] == IF n = 0 THEN Target ELSE draw_triangle(image[n - 1], shown[n])
  IN image

\* What is dereferenced once there are triangles to draw.
TriangleTouches(c) ==
  LET pl == Info[state.pipeline]
      shown == {t \in Range(OnScreen(c)) : pl.fillMode = "WIREFRAME" \/ ~Culled(pl.cullMode, t)}
  IN {Handle(pl.shader)}
     \cup (IF shown = {} THEN {} ELSE {Color})
     \cup (IF /\ pl.fillMode = "SOLID" /\ pl.depthTest /\ Depth # NULL
              /\ \E t \in shown : Fragments(t, state.scissor, Info[Color]) # {}
           THEN {Depth} ELSE {})

Shows(c) == NULL \notin Buffers(c) /\ ~NoTarget /\ Color # NULL /\ c.count >= 3

\* execute_draw() reads the framebuffer, then the pipeline, then the rest.
DrawTouches(c) ==
  IF NULL \in Buffers(c) THEN {}
  ELSE Buffers(c) \cup
       (IF NoTarget THEN {} ELSE {state.framebuffer}) \cup
       (IF NoTarget \/ Color = NULL THEN {} ELSE {state.pipeline}) \cup
       (IF Shows(c) THEN TriangleTouches(c) ELSE {})

-----------------------------------------------------------------------------
(* Submission: what a command dereferences, and what it does *)

Clears(c, attachment) == /\ Handle(c.renderPass) # NULL /\ Handle(c.framebuffer) # NULL
                         /\ IF attachment = "colorImage" THEN Info[c.renderPass].colorLoad = "CLEAR"
                            ELSE Info[c.renderPass].hasDepth /\ Info[c.renderPass].depthLoad = "CLEAR"

Cleared(c, attachment) ==
  IF Clears(c, attachment) THEN {Handle(Info[c.framebuffer][attachment])} \ {NULL} ELSE {}

PassTouches(c) ==
  IF Handle(c.framebuffer) = NULL THEN {}
  ELSE ({Handle(c.renderPass)} \ {NULL})
       \cup (IF \E a \in {"colorImage", "depthImage"} : Clears(c, a) THEN {c.framebuffer} ELSE {})
       \cup Cleared(c, "colorImage") \cup Cleared(c, "depthImage")

Touched(c) == CASE c.type = "BEGIN_RENDER_PASS" -> PassTouches(c)
                [] c.type = "BIND_PIPELINE" -> {c.pipeline}
                [] c.type = "CLEAR_COLOR_IMAGE" -> {c.image}
                [] c.type \in {"DRAW", "DRAW_INDEXED"} -> DrawTouches(c)
                [] OTHER -> {}

Painted(c) == [by |-> c.clearColor, uniforms |-> NoUniforms]

AreaViewport(r) == [x |-> r.x, y |-> r.y, width |-> r.width, height |-> r.height,
                    minDepth |-> 0, maxDepth |-> One]

\* Variant: the depth image keeps what an earlier pass left.
BeginRenderPassColorOnly(c) ==
  /\ c.type = "BEGIN_RENDER_PASS"
  /\ state' = [state EXCEPT !.framebuffer = Handle(c.framebuffer),
                            !.viewport = AreaViewport(c.renderArea),
                            !.scissor = c.renderArea]
  /\ pixels' = [i \in DOMAIN pixels |->
                  IF i \in Cleared(c, "colorImage") THEN Whole(Info[i], Painted(c)) ELSE pixels[i]]
  /\ UNCHANGED drawn
BeginRenderPass(c) ==
  /\ c.type = "BEGIN_RENDER_PASS"
  /\ state' = [state EXCEPT !.framebuffer = Handle(c.framebuffer),
                            !.viewport = AreaViewport(c.renderArea),
                            !.scissor = c.renderArea]
  /\ pixels' = [i \in DOMAIN pixels |->
                  IF i \in Cleared(c, "colorImage") THEN Whole(Info[i], Painted(c))
                  ELSE IF i \in Cleared(c, "depthImage") THEN Whole(Info[i], c.clearDepth)
                  ELSE pixels[i]]
  /\ UNCHANGED drawn

\* The framebuffer stays bound: a draw behind it still reaches it.
EndRenderPass(c) == c.type = "END_RENDER_PASS" /\ UNCHANGED <<state, pixels, drawn>>

\* Variant: the scissor rectangle of the command before stays.
BindPipelineKeeping(c) ==
  /\ c.type = "BIND_PIPELINE"
  /\ state' = [state EXCEPT !.pipeline = c.pipeline,
                            !.viewport = Info[c.pipeline].viewport,
                            !.uniforms = Info[c.pipeline].uniforms]
  /\ UNCHANGED <<pixels, drawn>>
\* Binding brings the pipeline's viewport, scissor rectangle and uniforms along.
BindPipeline(c) ==
  /\ c.type = "BIND_PIPELINE"
  /\ state' = [state EXCEPT !.pipeline = c.pipeline,
                            !.viewport = Info[c.pipeline].viewport,
                            !.scissor = Info[c.pipeline].scissor,
                            !.uniforms = Info[c.pipeline].uniforms]
  /\ UNCHANGED <<pixels, drawn>>

BindVertexBuffer(c) == /\ c.type = "BIND_VERTEX_BUFFER"
                       /\ state' = [state EXCEPT !.vertexBuffer = c.buffer, !.vertexOffset = c.offset]
                       /\ UNCHANGED <<pixels, drawn>>

BindIndexBuffer(c) == /\ c.type = "BIND_INDEX_BUFFER"
                      /\ state' = [state EXCEPT !.indexBuffer = c.buffer, !.indexOffset = c.offset]
                      /\ UNCHANGED <<pixels, drawn>>

SetViewport(c) == /\ c.type = "SET_VIEWPORT"
                  /\ state' = [state EXCEPT !.viewport = c.viewport]
                  /\ UNCHANGED <<pixels, drawn>>

SetScissor(c) == /\ c.type = "SET_SCISSOR"
                 /\ state' = [state EXCEPT !.scissor = c.scissor]
                 /\ UNCHANGED <<pixels, drawn>>

\* Only c.size cells are written: the rest is what an earlier command left.
SetUniforms(c) ==
  /\ c.type = "SET_UNIFORMS"
  /\ state' = [state EXCEPT !.uniforms = "uniformData",
                            !.uniformData = [k \in Cell |-> IF k <= c.size THEN c.data ELSE @[k]]]
  /\ UNCHANGED <<pixels, drawn>>

\* Both kinds of draw; one that lacks something is skipped without a word.
Draw(c) ==
  /\ c.type \in {"DRAW", "DRAW_INDEXED"}
  /\ IF Shows(c)
     THEN LET image == Painting(c)[Len(OnScreen(c))]
          IN /\ pixels' = [i \in DOMAIN pixels |-> IF i = Color THEN image.color
                                                   ELSE IF i = Depth THEN image.depth ELSE pixels[i]]
             /\ drawn' = Append(drawn, [at |-> at, framebuffer |-> state.framebuffer,
                                        pipeline |-> state.pipeline, buffer |-> state.vertexBuffer,
                                        vertices |-> Vertices(c), viewport |-> state.viewport,
                                        scissor |-> state.scissor, uniforms |-> UniformsSeen])
     ELSE UNCHANGED <<pixels, drawn>>
  /\ UNCHANGED state

ClearColorImage(c) ==
  /\ c.type = "CLEAR_COLOR_IMAGE"
  /\ pixels' = [pixels EXCEPT ![c.image] = Whole(Info[c.image], Painted(c))]
  /\ UNCHANGED <<state, drawn>>

Step(c) == \/ BeginRenderPass(c) \/ EndRenderPass(c) \/ BindPipeline(c)
           \/ BindVertexBuffer(c) \/ BindIndexBuffer(c) \/ SetViewport(c) \/ SetScissor(c)
           \/ SetUniforms(c) \/ Draw(c) \/ ClearColorImage(c)

\* The call of gravSubmitCommandBuffer(): refused while the buffer records.
Submit ==
  /\ Calls /\ Ready /\ ~recording
  /\ budget.submissions < session.submissions /\ Spend("submissions")
  /\ at' = 1 /\ state' = Zeroed /\ drawn' = << >>
  /\ UNCHANGED <<session, created, null, wild, gone, memory, bufferVars, pixels, undefined>>

Running == ~undefined /\ at \in DOMAIN cmds

Execute == /\ Running /\ Touched(cmds[at]) \subseteq Live
           /\ Step(cmds[at]) /\ at' = at + 1
           /\ UNCHANGED <<appVars, bufferVars, undefined>>

Fault == /\ Running /\ ~(Touched(cmds[at]) \subseteq Live)
         /\ undefined' = TRUE
         /\ UNCHANGED <<appVars, bufferVars, pixels, state, at, drawn>>

\* gravSubmitCommandBuffer() returns.
Return == /\ ~undefined /\ at = Len(cmds) + 1
          /\ at' = 0 /\ drawn' = << >>
          /\ UNCHANGED <<appVars, bufferVars, pixels, state, undefined>>

Next == \/ Create \/ (\E o \in Objects : Destroy(o)) \/ Update
        \/ gravBeginCommandBuffer \/ gravEndCommandBuffer \/ gravResetCommandBuffer
        \/ (\E c \in Offered : Record(c))
        \/ Submit \/ Execute \/ Fault \/ Return

Spec == Init /\ [][Next]_vars

-----------------------------------------------------------------------------
(* What the recorded commands mean, without executing them *)

\* The last command of these types before the i-th, or 0.
LastOf(i, types) == Max({j \in 1 .. i - 1 : accepted[j].type \in types} \cup {0})

Bound(i, type, field) ==
  LET j == LastOf(i, {type}) IN IF j = 0 THEN NULL ELSE Handle(accepted[j][field])

Scissor(i) ==
  LET c == accepted[LastOf(i, {"BEGIN_RENDER_PASS", "BIND_PIPELINE", "SET_SCISSOR"})]
  IN CASE c.type = "BEGIN_RENDER_PASS" -> c.renderArea
       [] c.type = "BIND_PIPELINE" -> Info[c.pipeline].scissor
       [] c.type = "SET_SCISSOR" -> c.scissor

Viewport(i) ==
  LET c == accepted[LastOf(i, {"BEGIN_RENDER_PASS", "BIND_PIPELINE", "SET_VIEWPORT"})]
  IN CASE c.type = "BEGIN_RENDER_PASS" -> AreaViewport(c.renderArea)
       [] c.type = "BIND_PIPELINE" -> Info[c.pipeline].viewport
       [] c.type = "SET_VIEWPORT" -> c.viewport

\* The last value given to each cell of the uniforms.
UniformCell(i, k) ==
  LET j == Max({n \in 1 .. i - 1 : accepted[n].type = "SET_UNIFORMS" /\ accepted[n].size >= k} \cup {0})
  IN IF j = 0 THEN 0 ELSE accepted[j].data

Uniforms(i) ==
  LET j == LastOf(i, {"BIND_PIPELINE", "SET_UNIFORMS"})
  IN IF accepted[j].type = "SET_UNIFORMS" THEN [k \in Cell |-> UniformCell(i, k)]
     ELSE IF Info[accepted[j].pipeline].uniforms = NULL THEN NoUniforms ELSE Block(memory)

Draws(i) ==
  LET c == accepted[i]
      fb == Bound(i, "BEGIN_RENDER_PASS", "framebuffer")
  IN /\ c.type \in {"DRAW", "DRAW_INDEXED"} /\ c.count >= 3
     /\ c.type = "DRAW_INDEXED" => Bound(i, "BIND_INDEX_BUFFER", "buffer") # NULL
     /\ Bound(i, "BIND_VERTEX_BUFFER", "buffer") # NULL /\ Bound(i, "BIND_PIPELINE", "pipeline") # NULL
     /\ fb # NULL /\ Handle(Info[fb].colorImage) # NULL

\* The vertex a draw begins with, or the one its indices count from.
First(c) == IF c.type = "DRAW" THEN c.firstVertex ELSE c.vertexOffset

\* The vertices a draw names.
Ranged(i) ==
  LET c == accepted[i]
      from(type) == accepted[LastOf(i, {type})].offset
      index(k) == IF c.type = "DRAW" THEN k
                  ELSE Info[Bound(i, "BIND_INDEX_BUFFER", "buffer")].indices
                         [from("BIND_INDEX_BUFFER") + c.firstIndex + k] + 1
  IN [k \in 1 .. c.count |-> Info[Bound(i, "BIND_VERTEX_BUFFER", "buffer")].vertices
                               [from("BIND_VERTEX_BUFFER") + First(c) + index(k)]]

Meaning(i, vertices) ==
  [at |-> i, framebuffer |-> Bound(i, "BEGIN_RENDER_PASS", "framebuffer"),
   pipeline |-> Bound(i, "BIND_PIPELINE", "pipeline"),
   buffer |-> Bound(i, "BIND_VERTEX_BUFFER", "buffer"), vertices |-> vertices,
   viewport |-> Viewport(i), scissor |-> Scissor(i), uniforms |-> Uniforms(i)]

\* The handles the recorded commands hold, and those they lead to.
Held == (UNION {Named(accepted[i]) : i \in DOMAIN accepted}) \ {NULL}
Reached == Held \cup UNION {Led(o) : o \in Held}

-----------------------------------------------------------------------------
(* Properties *)

\* A submission draws what was accepted while recording, each draw with what was bound
\* or set last before it: nothing of an earlier submission or recording, no
\* later value of a uniform that was copied, and never less.  The vertices are those
\* named where their range begins with the first one (see DrawsItsRange).
DrawsAsRecorded ==
  at > 0 => /\ \A k \in DOMAIN drawn :
                 LET i == drawn[k].at
                     vertices == IF First(accepted[i]) = 0 THEN Ranged(i) ELSE drawn[k].vertices
                 IN drawn[k] = Meaning(i, vertices)
            /\ {drawn[k].at : k \in DOMAIN drawn} = {i \in 1 .. at - 1 : Draws(i)}
            /\ \A k, n \in DOMAIN drawn : k < n => drawn[k].at < drawn[n].at

\* A draw takes the vertices from the one it names on: gravCmdDraw(cmdBuf, vertexCount,
\* firstVertex) and gravCmdDrawIndexed(cmdBuf, indexCount, firstIndex, vertexOffset) of
\* gravityon.h.  The code does not.
DrawsItsRange == \A k \in DOMAIN drawn : drawn[k].vertices = Ranged(drawn[k].at)

\* Whatever is recorded in whatever order, and whichever creation failed, a submission
\* goes wrong only at a handle the recorded commands reach whose object was
\* destroyed, or whose creation failed and whose variable was never initialised: a handle
\* that reads NULL never hurts.  What a framebuffer or a pipeline only names, its
\* render pass, is not reached.
OnlyStrayHandlesHurt ==
  undefined => (IF session.initialised THEN gone ELSE gone \cup wild) \cap Reached # {}

Ordinary(pl) == pl.fillMode = "SOLID" /\ pl.depthTest /\ pl.depthWrite /\ pl.compare = "LESS"

\* The triangles of a draw as seen: a clockwise one, y upwards, is a back face.
Seen(d) ==
  LET pl == Info[d.pipeline]
      ts == Triangles(pl.topology, d.vertices)
      onScreen(t) == [i \in Corner |-> ndc_to_screen(d.viewport, t[i])]
      turn(t) == Cross(t[1], t[2], t[1], t[3])
  IN {onScreen(t) : t \in {u \in Range(ts) : /\ turn(u) # 0
                                             /\ pl.cullMode = "BACK" => turn(u) > 0
                                             /\ pl.cullMode = "FRONT" => turn(u) < 0}}

\* The depths at which a draw covers a pixel.
Depths(d, p) == {t[1].z : t \in {u \in Seen(d) : InTriangle(u, Centre(p)) /\ InRect(p, d.scissor)}}
                \cap 0 .. One

\* The pass that began with the i-th command cleared its depth, and all its draws since
\* test and write it.
Sorted(i) ==
  /\ i > 0 /\ Cleared(accepted[i], "colorImage") # {} /\ Cleared(accepted[i], "depthImage") # {}
  /\ \A j \in i + 1 .. at - 1 : accepted[j].type # "CLEAR_COLOR_IMAGE"
  /\ \A k \in DOMAIN drawn : drawn[k].at > i => Ordinary(Info[drawn[k].pipeline])

\* In such a pass every pixel shows the nearest of the surfaces that cover it, the first
\* drawn among equals, in whatever order they were drawn, or else the clear colour.
NearestWins ==
  LET b == LastOf(at, {"BEGIN_RENDER_PASS"})
  IN (at > 0 /\ ~undefined /\ Sorted(b)) =>
     LET c == accepted[b]
         color == pixels[Info[c.framebuffer].colorImage]
         draws == {k \in DOMAIN drawn : drawn[k].at > b}
     IN \A p \in DOMAIN color :
          LET near == {z \in UNION {Depths(drawn[k], p) : k \in draws} : z < c.clearDepth}
              by == {k \in draws : Min(near) \in Depths(drawn[k], p)}
          IN color[p] = IF near = {} THEN Painted(c)
                        ELSE [by |-> Info[drawn[Min(by)].buffer].varying,
                              uniforms |-> drawn[Min(by)].uniforms]

\* Each line of a wireframe is a chain of pixels from corner to corner (the loop ends),
\* and the corners in the image are white right after the draw.
OutlineJoins ==
  \A k \in DOMAIN drawn :
    LET d == drawn[k]
        ts == Triangles(Info[d.pipeline].topology, d.vertices)
        corner(t, i) == Truncated(ndc_to_screen(d.viewport, t[i]))
        color == Handle(Info[d.framebuffer].colorImage)
    IN Info[d.pipeline].fillMode = "WIREFRAME" =>
         \A n \in DOMAIN ts, i \in Corner :
           LET a == corner(ts[n], i)
               z == corner(ts[n], (i % 3) + 1)
           IN /\ Joins(draw_line(a, z), a, z)
              /\ (at = d.at + 1 /\ InImage(<<a.x, a.y>>, Info[color])) => pixels[color][<<a.x, a.y>>] = White
=============================================================================
