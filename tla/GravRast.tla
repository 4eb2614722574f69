------------------------------ MODULE GravRast ------------------------------
(***************************************************************************)
(* The rasterizer of gravityon.c: rasterize_triangle() and draw_line().    *)
(* A vertex is what the vertex shader returns with w = 1: integers in       *)
(* normalized coordinates.  Positions on the screen are in half pixels, so  *)
(* that the centre of pixel (x, y) is (2x + 1, 2y + 1) and nothing is        *)
(* rounded.  Depths are in quarters: One is 1.0.  The vertices of a          *)
(* triangle have one depth; varyings are not interpolated.                   *)
(***************************************************************************)
EXTENDS Integers, FiniteSets, FiniteSetsExt, Sequences

GravRect2D == [x : Int, y : Int, width : Int, height : Int]
GravViewport == [x : Int, y : Int, width : Int, height : Int, minDepth : Int, maxDepth : Int]

One == 4
Corner == 1 .. 3

\* x, y and z on the screen of a vertex in the viewport vp.
ndc_to_screen(vp, v) ==
  [x |-> (v.x + 1) * vp.width + 2 * vp.x,
   y |-> (1 - v.y) * vp.height + 2 * vp.y,
   z |-> (v.z * (vp.maxDepth - vp.minDepth) + vp.maxDepth + vp.minDepth) \div 2]

Centre(p) == [x |-> 2 * p[1] + 1, y |-> 2 * p[2] + 1]

\* The cross product of the edges from a to b and from c to d.
Cross(a, b, c, d) == (b.x - a.x) * (d.y - c.y) - (b.y - a.y) * (d.x - c.x)

Culled(mode, t) ==
  LET cross == Cross(t[1], t[2], t[1], t[3])
  IN (mode = "BACK" /\ cross >= 0) \/ (mode = "FRONT" /\ cross <= 0)

-----------------------------------------------------------------------------
(* Filled triangles *)

Area(t) == Cross(t[1], t[2], t[3], t[1])

\* The barycentric coordinates of a point, times Area.
Barycentric(t, q) ==
  LET w0 == Cross(t[2], q, t[2], t[3])
      w1 == Cross(t[3], q, t[3], t[1])
  IN << w0, w1, Area(t) - w0 - w1 >>

Floor(half) == half \div 2
Ceil(half) == -((-half) \div 2)
Xs(t) == {t[k].x : k \in Corner}
Ys(t) == {t[k].y : k \in Corner}

\* The bounding box, cut by the scissor rectangle and by the image.
Box(t, scissor, image) ==
  (Max({Floor(Min(Xs(t))), scissor.x, 0}) ..
     Min({Ceil(Max(Xs(t))), scissor.x + scissor.width - 1, image.width - 1}))
  \X (Max({Floor(Min(Ys(t))), scissor.y, 0}) ..
        Min({Ceil(Max(Ys(t))), scissor.y + scissor.height - 1, image.height - 1}))

Covered(t, p) == \A k \in Corner : Barycentric(t, Centre(p))[k] * Area(t) >= 0

\* The pixels rasterize_triangle() takes to the depth test.
Fragments(t, scissor, image) ==
  IF Area(t) = 0 \/ t[1].z \notin 0 .. One THEN {}
  ELSE {p \in Box(t, scissor, image) : Covered(t, p)}

depth_test(compare, z, zBuf) ==
  \/ compare = "LESS" /\ z < zBuf
  \/ compare = "LEQUAL" /\ z <= zBuf
  \/ compare = "GREATER" /\ z > zBuf
  \/ compare = "ALWAYS"

-----------------------------------------------------------------------------
(* Lines *)

\* (int): towards zero.
Truncated(v) == [x |-> IF v.x >= 0 THEN v.x \div 2 ELSE -((-v.x) \div 2),
                 y |-> IF v.y >= 0 THEN v.y \div 2 ELSE -((-v.y) \div 2)]

Abs(n) == IF n < 0 THEN -n ELSE n
Toward(from, to) == IF from < to THEN 1 ELSE -1
Length(a, b) == Max({Abs(b.x - a.x), Abs(b.y - a.y)})

\* Variant: the second comparison sees the error the first has changed.
AdvancedTwice(a, b, s) ==
  LET dx == Abs(b.x - a.x)
      dy == Abs(b.y - a.y)
      e == IF 2 * s.err > -dy THEN s.err - dy ELSE s.err
  IN [x |-> IF 2 * s.err > -dy THEN s.x + Toward(a.x, b.x) ELSE s.x,
      y |-> IF 2 * e < dx THEN s.y + Toward(a.y, b.y) ELSE s.y,
      err |-> IF 2 * e < dx THEN e + dx ELSE e]
\* One turn of Bresenham's loop between a and b.
Advanced(a, b, s) ==
  LET dx == Abs(b.x - a.x)
      dy == Abs(b.y - a.y)
      right == 2 * s.err > -dy
      down == 2 * s.err < dx
  IN [x |-> IF right THEN s.x + Toward(a.x, b.x) ELSE s.x,
      y |-> IF down THEN s.y + Toward(a.y, b.y) ELSE s.y,
      err |-> s.err - (IF right THEN dy ELSE 0) + (IF down THEN dx ELSE 0)]

\* Bresenham's loop: where it is, and the error, after n of its turns.
Walk(a, b) ==
  LET walk[n \in 0 .. Length(a, b)] ==
        IF n = 0 THEN [x |-> a.x, y |-> a.y, err |-> Abs(b.x - a.x) - Abs(b.y - a.y)]
        ELSE Advanced(a, b, walk[n - 1])
  IN walk

\* The pixels of the first Length + 1 turns: the loop ends when it meets b.
draw_line(a, b) ==
  LET walk == Walk(a, b) IN [n \in 0 .. Length(a, b) |-> <<walk[n].x, walk[n].y>>]

Sides(t) == {<<t[1], t[2]>>, <<t[2], t[3]>>, <<t[3], t[1]>>}

InImage(p, image) == p[1] \in 0 .. image.width - 1 /\ p[2] \in 0 .. image.height - 1

\* The pixels of the image on the lines of a wireframe triangle.
Outline(t, image) ==
  {p \in UNION {{draw_line(Truncated(s[1]), Truncated(s[2]))[n] :
                   n \in 0 .. Length(Truncated(s[1]), Truncated(s[2]))} : s \in Sides(t)} :
     InImage(p, image)}

-----------------------------------------------------------------------------
(* What the two promise, without their arithmetic *)

\* A point of the closed triangle is a weighted mean of its corners.
InTriangle(t, q) ==
  LET n == Abs(Area(t))
  IN \E a, b \in 0 .. n :
       /\ a + b <= n
       /\ a * t[1].x + b * t[2].x + (n - a - b) * t[3].x = n * q.x
       /\ a * t[1].y + b * t[2].y + (n - a - b) * t[3].y = n * q.y

InRect(p, r) == p[1] \in r.x .. r.x + r.width - 1 /\ p[2] \in r.y .. r.y + r.height - 1

\* A line is a chain of neighbours from one end to the other, no longer than it must be.
Joins(line, a, b) ==
  LET n == Length(a, b)
  IN /\ line[0] = <<a.x, a.y>> /\ line[n] = <<b.x, b.y>>
     /\ \A k \in 1 .. n : Abs(line[k][1] - line[k - 1][1]) <= 1 /\ Abs(line[k][2] - line[k - 1][2]) <= 1
=============================================================================
