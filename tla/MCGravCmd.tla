----------------------------- MODULE MCGravCmd -----------------------------
(***************************************************************************)
(* Two images of 2 x 2 pixels, a few objects of each kind, and six kinds   *)
(* of application.                                                           *)
(***************************************************************************)
EXTENDS GravCmd

Rect(x, y, w, h) == [x |-> x, y |-> y, width |-> w, height |-> h]
View(x, y, w, h) == Rect(x, y, w, h) @@ [minDepth |-> 0, maxDepth |-> One]
Full == Rect(0, 0, 2, 2)

V(x, y, z) == [x |-> x, y |-> y, z |-> z]
\* The lower left half of the screen and the upper right one, the diagonal in both.
Halves(z1, z2) == << V(-1, -1, z1), V(1, -1, z1), V(-1, 1, z1), V(1, 1, z2), V(-1, 1, z2), V(1, -1, z2) >>

Image(format) == [kind |-> "image", format |-> format, width |-> 2, height |-> 2]
Pass(op) == [kind |-> "renderPass", colorLoad |-> op, depthLoad |-> op, hasDepth |-> TRUE]
Fb(depthImage) == [kind |-> "framebuffer", colorImage |-> "color", depthImage |-> depthImage]
Pipe(topology, cull, fill, compare, scissor, uniforms) ==
  [kind |-> "pipeline", shader |-> "shader", topology |-> topology, cullMode |-> cull,
   fillMode |-> fill, depthTest |-> compare # "ALWAYS", depthWrite |-> compare # "GREATER", compare |-> compare,
   viewport |-> View(0, 0, 2, 2), scissor |-> scissor, uniforms |-> uniforms]
Vb(vertices, varying) == [kind |-> "buffer", vertices |-> vertices, varying |-> varying]

MCInfo ==
  [color |-> Image("R8G8B8A8_UNORM"), depth |-> Image("D32_SFLOAT"),
   clear |-> Pass("CLEAR"), load |-> Pass("LOAD"), fb |-> Fb("depth"), flat |-> Fb(NULL),
   shader |-> [kind |-> "shader"],
   less |-> Pipe("TRIANGLE_LIST", "NONE", "SOLID", "LESS", Full, "memory"),
   back |-> Pipe("TRIANGLE_LIST", "BACK", "SOLID", "LESS", Rect(0, 0, 1, 3), NULL),
   strip |-> Pipe("TRIANGLE_STRIP", "FRONT", "SOLID", "GREATER", Rect(-1, 0, 4, 1), NULL),
   always |-> Pipe("TRIANGLE_LIST", "NONE", "SOLID", "ALWAYS", Full, NULL),
   wire |-> Pipe("TRIANGLE_LIST", "NONE", "WIREFRAME", "LEQUAL", Full, NULL),
   near |-> Vb(Halves(-1, 0), "near"), far |-> Vb(Halves(0, 0), "far"), behind |-> Vb(Halves(1, 2), "behind"),
   index |-> [kind |-> "buffer", indices |-> <<0, 1, 2, 0, 2, 1>>]]

Begin(rp, f, area) == [type |-> "BEGIN_RENDER_PASS", renderPass |-> rp, framebuffer |-> f,
                       renderArea |-> area, clearColor |-> "clear", clearDepth |-> One]
End == [type |-> "END_RENDER_PASS"]
Bind(p) == [type |-> "BIND_PIPELINE", pipeline |-> p]
From(b) == [type |-> "BIND_VERTEX_BUFFER", buffer |-> b, offset |-> 0]
Behind(b) == [type |-> "BIND_VERTEX_BUFFER", buffer |-> b, offset |-> 3]
Index(b, n) == [type |-> "BIND_INDEX_BUFFER", buffer |-> b, offset |-> n]
Port(v) == [type |-> "SET_VIEWPORT", viewport |-> v]
Cut(r) == [type |-> "SET_SCISSOR", scissor |-> r]
Uni(n) == [type |-> "SET_UNIFORMS", size |-> n, data |-> 0]
Drawing(n, first) == [type |-> "DRAW", count |-> n, firstVertex |-> first]
Draw6 == Drawing(6, 0)
Draw3 == Drawing(3, 0)
Draw2 == Drawing(2, 0)
Indexed == [type |-> "DRAW_INDEXED", count |-> 3, firstIndex |-> 1, vertexOffset |-> 0]
Clear == [type |-> "CLEAR_COLOR_IMAGE", image |-> "color", clearColor |-> "grey"]

Times(n, choices) == [k \in 1 .. n |-> choices]
Base == <<"color", "depth", "clear", "fb", "shader">>
Does(setup, capacity, menu, submissions, accidents, updates) ==
  [setup |-> setup, capacity |-> capacity, menu |-> menu, submissions |-> submissions,
   accidents |-> accidents, updates |-> updates, initialised |-> TRUE]
Careless(s) == [s EXCEPT !.initialised = FALSE]

MCSession ==
  { \* surfaces in any order
    Does(Base \o <<"less", "back", "near", "far", "behind">>, 7,
         << {Begin("clear", "fb", Full)}, {Bind("less"), Bind("back")} >>
         \o Times(4, {From("near"), From("far"), From("behind"), Draw6}) \o <<{Draw6}>>, 1, 0, 0),
    \* any order of commands, recorded and submitted twice
    Does(Base \o <<"back", "always", "load", "flat", "near">>, 4,
         Times(4, {Begin("clear", "fb", Full), Begin("load", "flat", Rect(0, 1, 2, 1)), Bind("back"), Bind("always"),
                   From("near"), Cut(Rect(1, 0, 1, 2)), Draw6}) \o <<{Draw6}>>, 2, 0, 0),
    \* uniforms that change before, between and after
    Does(Base \o <<"less", "strip", "far">>, 8,
         << {Begin("clear", "fb", Full), End}, {Bind("less"), Bind("strip")}, {From("far")} >>
         \o Times(2, {Uni(1), Uni(2), Uni(3), Bind("less")}) \o << {Draw6, Draw2} >>, 2, 0, 1),
    \* a creation that fails or an object destroyed, with variables that held NULL or anything
    Does(Base \o <<"flat", "less", "far">>, 4,
         << {Begin("clear", "fb", Full), Begin("clear", "flat", Full)}, {Bind("less")}, {From("far")}, {Draw3} >>, 1, 1, 0),
    Careless(
      Does(Base \o <<"load", "flat", "less", "far", "index">>, 5,
           Times(2, {Begin("clear", "fb", Full), Begin("load", "flat", Full), Bind("less"), From("far")})
           \o Times(2, {Bind("less"), Behind("far"), Index("index", 2), Index("index", 0)})
           \o << {Draw3, Indexed, Clear} >>, 1, 1, 0)),
    \* lines of all slopes, partly outside the image
    Does(Base \o <<"wire", "far">>, 5,
         << {Begin("clear", "fb", Full)}, {Bind("wire")}, {From("far")},
            {Port(View(x, 0, w, h)) : x \in {-2, 0}, w \in 1 .. 5, h \in 1 .. 5}, {Draw6, Drawing(3, 3)} >>, 1, 0, 0) }

\* The second of two triangles.
MCRange == {Does(Base \o <<"less", "far">>, 4,
                 << {Begin("clear", "fb", Full)}, {Bind("less")}, {From("far")}, {Drawing(3, 3)} >>, 1, 0, 0)}
=============================================================================
