---------------------------- MODULE RasterFrontEnd ----------------------------
(***************************************************************************)
(* The first half of the rasterizer: the choice between the triangles of   *)
(* the vertex pipeline and of triangle_input, triangle_param with its      *)
(* texture lookup in load_texture, the tile walk of triangle_core,         *)
(* tile_reject, tile_fifo and line_fifo, up to the worker.  One step is    *)
(* one rising clock edge.                                                  *)
(*                                                                         *)
(* Coordinates and edge functions are exact; the widths at which they wrap *)
(* (14 and 28 bits) and the interpolation of depth and texture are left    *)
(* out.  A triangle is followed by its number, its index in the ghost      *)
(* `accepted`, which stands for its vertices in param_q and its copies.    *)
(***************************************************************************)
EXTENDS Integers, FiniteSets, MyFifo

CONSTANTS
  Triangle,               \* [a, b, c: [x, y]]
  TILE_WIDTH, TILE_HEIGHT,
  TilesX, TilesY,         \* the frame in tiles
  TileDepth, LineDepth,   \* Depth of tile_fifo and line_fifo
  MaxTriangles            \* bound: triangles presented

VARIABLES
  vertex,     \* the triangle the vertex pipeline presents: <<>> or <<t>>
  software,   \* triangle_input: <<>> or <<t>> when out_valid_o
  param,      \* triangle_param: [state, n, busy, valid, tex, tex_valid]
  texture,    \* load_texture: the lookup it holds, None when not valid_q
  core,       \* triangle_core: [valid, n, tex, x, y]
  tiles,      \* tile_fifo
  walk,       \* line_fifo: [writing, line, n, tex, x, y, e] beside its FIFO
  lineq,      \* its FIFO of lines [n, tex, x, y, mask]
  accepted,   \* ghost: the triangles accepted, oldest first
  sent        \* ghost: the lines the worker took

vars == <<vertex, software, param, texture, core, tiles, walk, lineq, accepted, sent>>

None == 0
Edges == 1 .. 3
FRAME_WIDTH == TILE_WIDTH * TilesX
FRAME_HEIGHT == TILE_HEIGHT * TilesY
Clip(v, last) == IF v < 0 THEN 0 ELSE IF v > last THEN last ELSE v

From(t) == <<t.a, t.b, t.c>>
To(t)   == <<t.b, t.c, t.a>>
Vertices(t) == {t.a, t.b, t.c}
Least(s) == CHOOSE v \in s : \A w \in s : v <= w
Largest(s) == CHOOSE v \in s : \A w \in s : v >= w

(* The pixels of a triangle, from its vertices alone: a pixel is covered if *)
(* it is on the inner side of the three edges.                              *)
Side(p, q, x, y) == (q.x - p.x) * (y - p.y) - (q.y - p.y) * (x - p.x)
Covered(t, x, y) == \A i \in Edges : Side(From(t)[i], To(t)[i], x, y) >= 0

ASSUME TriangleAssumption ==
  LET Point == [x: Int, y: Int] IN Triangle \subseteq [a: Point, b: Point, c: Point]
\* the first line of a tile is pushed as it is accepted, so it must have a second
ASSUME FrameAssumption ==
  /\ {TILE_WIDTH, TILE_HEIGHT, TilesX, TilesY} \subseteq Nat \ {0} /\ TILE_HEIGHT >= 2
  /\ TileDepth \in Nat /\ TileDepth >= 2
  /\ LineDepth \in Nat /\ LineDepth >= TILE_HEIGHT /\ LineDepth >= 2
\* triangle_inv_area.sv asserts that it never gets a triangle without area
ASSUME AreaAssumption == \A t \in Triangle : Side(t.a, t.b, t.c.x, t.c.y) # 0

-------------------------------------------------------------------------------
(* triangle_param: the values of param_q as functions of the triangle.      *)
dx(t, i) == To(t)[i].x - From(t)[i].x
dy(t, i) == To(t)[i].y - From(t)[i].y
e0(t, i) == From(t)[i].x * To(t)[i].y - From(t)[i].y * To(t)[i].x

Xs(t) == {v.x : v \in Vertices(t)}
Ys(t) == {v.y : v \in Vertices(t)}
triangle_outside(t) ==
  \/ Largest(Xs(t)) < 0 \/ Least(Xs(t)) >= FRAME_WIDTH
  \/ Largest(Ys(t)) < 0 \/ Least(Ys(t)) >= FRAME_HEIGHT

bbox(t) ==
  [min |-> [x |-> Clip(Least(Xs(t)) \div TILE_WIDTH, TilesX - 1),
            y |-> Clip(Least(Ys(t)) \div TILE_HEIGHT, TilesY - 1)],
   max |-> [x |-> Clip(Largest(Xs(t)) \div TILE_WIDTH, TilesX - 1),
            y |-> Clip(Largest(Ys(t)) \div TILE_HEIGHT, TilesY - 1)]]

(* What triangle_param computes of each triangle, as a table.               *)
ParamOf(t) ==
  [outside |-> triangle_outside(t), bbox |-> bbox(t),
   dx |-> [i \in Edges |-> dx(t, i)], dy |-> [i \in Edges |-> dy(t, i)],
   e |-> [i \in Edges |-> e0(t, i)]]
Setup == [t \in Triangle |-> ParamOf(t)]

T(n) == accepted[n]
P(n) == Setup[T(n)]

(* The triangle at the input: the vertex pipeline goes before the software. *)
triangle_i == IF vertex # <<>> THEN vertex ELSE software

id_in_ready == param.busy /\ ~param.tex_valid
texture_ready == texture = None \/ id_in_ready
idle == param.state = "E" /\ ~param.busy
param_ready == idle /\ triangle_i # <<>> /\ (Setup[triangle_i[1]].outside \/ texture_ready)
starts == param_ready /\ ~Setup[triangle_i[1]].outside
texture_answered == texture # None /\ id_in_ready

texture_complete == param.tex_valid \/ texture_answered

core_ready == ~core.valid

\* calc: the reciprocal, and then the interpolation, has come to its end
TriangleParam(calc) ==
  LET n == Len(accepted) + 1
      ends == param.state = "ATTR" /\ calc /\ texture_complete
      leaves == param.state = "E" /\ param.valid /\ core_ready
  IN  param' = [state |-> CASE starts -> "AREA"
                            [] param.state = "AREA" /\ calc -> "ATTR"
                            [] ends -> "E"
                            [] OTHER -> param.state,
                n     |-> IF starts THEN n ELSE param.n,
                busy  |-> starts \/ (param.busy /\ ~leaves),
                valid |-> ends \/ (param.valid /\ ~leaves),
                tex   |-> IF texture_answered THEN texture ELSE param.tex,
                tex_valid |-> texture_answered \/ (param.tex_valid /\ ~starts)]

\* the lookup of the triangle accepted; the texture is named by the triangle
LoadTexture ==
  texture' = IF texture_ready THEN (IF starts THEN Len(accepted) + 1 ELSE None) ELSE texture

-------------------------------------------------------------------------------
(* triangle_core: the walk over the tiles of the bounding box.              *)
last_tile == LET b == P(core.n).bbox IN core.x = b.max.x /\ core.y = b.max.y

Step(b) ==
  IF core.x = b.max.x THEN [core EXCEPT !.x = b.min.x, !.y = @ + 1]
                      ELSE [core EXCEPT !.x = @ + 1]

TriangleCore(tile_ready) ==
  core' = IF param.valid /\ core_ready
          THEN LET b == P(param.n).bbox
               IN  [valid |-> TRUE, n |-> param.n, tex |-> param.tex, x |-> b.min.x, y |-> b.min.y]
          ELSE IF core.valid /\ tile_ready
          THEN (IF last_tile THEN [core EXCEPT !.valid = FALSE] ELSE Step(P(core.n).bbox))
          ELSE core

(* tile_reject: the edge functions at the first pixel of the tile and their *)
(* maxima over it.                                                          *)
edge_at(p, x, y) == [i \in Edges |-> p.e[i] + p.dx[i] * (y * TILE_HEIGHT) - p.dy[i] * (x * TILE_WIDTH)]
edge_max(p, x, y, i) ==
  edge_at(p, x, y)[i] + (IF p.dx[i] > 0 THEN p.dx[i] * (TILE_HEIGHT - 1) ELSE 0)
                      - (IF p.dy[i] < 0 THEN p.dy[i] * (TILE_WIDTH - 1) ELSE 0)
reject(p, x, y) == \E i \in Edges : edge_max(p, x, y, i) < 0

tile_i == [n |-> core.n, tex |-> core.tex, x |-> core.x, y |-> core.y,
           e |-> edge_at(P(core.n), core.x, core.y), reject |-> reject(P(core.n), core.x, core.y)]

-------------------------------------------------------------------------------
(* line_fifo: the first line of a tile is pushed on the edge on which the   *)
(* tile is accepted, the others one by one after it.  The FIFO's in_ready   *)
(* is not looked at: the tile is only accepted when it has room for all.    *)
line_fifo_ready_OffByOne == ~walk.writing /\ Len(lineq.items) <= LineDepth - TILE_HEIGHT + 1   \* mutant
line_fifo_ready == ~walk.writing /\ Len(lineq.items) <= LineDepth - TILE_HEIGHT

tile_o == OutData(tiles)
tile_out_ready == tile_o.reject \/ line_fifo_ready
tile_in_ready == InReady(tiles, TileDepth, tiles.valid_q /\ tile_out_ready)
tile_taken == tiles.valid_q /\ tile_out_ready
tile_starts == tiles.valid_q /\ ~tile_o.reject /\ line_fifo_ready

TileFifo ==
  tiles' = FifoEdge(tiles, IF core.valid /\ tile_in_ready THEN <<tile_i>> ELSE <<>>, tile_taken)

current == IF tile_starts
           THEN [n |-> tile_o.n, tex |-> tile_o.tex, x |-> tile_o.x,
                 y |-> tile_o.y * TILE_HEIGHT, e |-> tile_o.e]
           ELSE [n |-> walk.n, tex |-> walk.tex, x |-> walk.x, y |-> walk.y, e |-> walk.e]
line_mask == {x \in 0 .. TILE_WIDTH - 1 :
                \A i \in Edges : current.e[i] - P(current.n).dy[i] * x >= 0}
line_pushed == IF (walk.writing \/ tile_starts) /\ line_mask # {}
               THEN <<[n |-> current.n, tex |-> current.tex, x |-> current.x, y |-> current.y,
                       mask |-> line_mask]>>
               ELSE <<>>

NextLine(w) == [w EXCEPT !.line = @ + 1, !.y = @ + 1,
                         !.e = [i \in Edges |-> w.e[i] + P(w.n).dx[i]]]

walk_ends == walk.line = TILE_HEIGHT - 1

LineFifo(worker_ready) ==
  /\ lineq' = FifoEdge(lineq, IF InReady(lineq, LineDepth, worker_ready) THEN line_pushed ELSE <<>>,
                       lineq.valid_q /\ worker_ready)
  /\ walk' = IF tile_starts
             THEN NextLine([writing |-> TRUE, line |-> 0, n |-> current.n, tex |-> current.tex,
                            x |-> current.x, y |-> current.y, e |-> current.e])
             ELSE IF ~walk.writing THEN walk
             ELSE IF walk_ends THEN [walk EXCEPT !.writing = FALSE]
             ELSE NextLine(walk)

-------------------------------------------------------------------------------
(* The vertex pipeline holds a triangle until it is taken; the software     *)
(* submits one through triangle_input, which ignores a submit while it      *)
(* still holds one.                                                         *)
Presented == Len(accepted) + Len(vertex) + Len(software)

Sources(v, submit) ==
  LET taken == param_ready
  IN  /\ v # <<>> \/ submit # <<>> => Presented < MaxTriangles
      /\ v # <<>> => submit = <<>> /\ vertex = <<>>
      /\ submit # <<>> => software = <<>>
      /\ vertex' = IF vertex # <<>> THEN (IF taken THEN <<>> ELSE vertex) ELSE v
      /\ software' = IF software # <<>> THEN (IF taken /\ vertex = <<>> THEN <<>> ELSE software)
                     ELSE submit
      /\ accepted' = IF taken THEN accepted \o triangle_i ELSE accepted

Clock(v, submit, calc, worker_ready) ==
  /\ Sources(v, submit)
  /\ TriangleParam(calc)
  /\ LoadTexture
  /\ TriangleCore(tile_in_ready)
  /\ TileFifo
  /\ LineFifo(worker_ready)
  /\ sent' = IF lineq.valid_q /\ worker_ready THEN Append(sent, OutData(lineq)) ELSE sent

NoWalk == [writing |-> FALSE, line |-> 0, n |-> None, tex |-> None, x |-> 0, y |-> 0,
           e |-> [i \in Edges |-> 0]]

Init ==
  /\ vertex = <<>> /\ software = <<>> /\ accepted = <<>> /\ sent = <<>>
  /\ param = [state |-> "E", n |-> None, busy |-> FALSE, valid |-> FALSE, tex |-> None, tex_valid |-> FALSE]
  /\ texture = None
  /\ core = [valid |-> FALSE, n |-> None, tex |-> None, x |-> 0, y |-> 0]
  /\ tiles = EmptyFifo /\ lineq = EmptyFifo /\ walk = NoWalk

Offer == {<<>>} \cup {<<t>> : t \in Triangle}

Next == \E v, submit \in Offer, calc, worker_ready \in BOOLEAN : Clock(v, submit, calc, worker_ready)

Spec == Init /\ [][Next]_vars

(* What fairness is about: the clock runs, the arithmetic ends and the      *)
(* worker keeps taking lines.                                               *)
Calculated == \E v, submit \in Offer, worker_ready \in BOOLEAN : Clock(v, submit, TRUE, worker_ready)
LineTaken == \E v, submit \in Offer, calc \in BOOLEAN : Clock(v, submit, calc, TRUE)
-------------------------------------------------------------------------------

(* The lines of each triangle: where it covers a pixel of a row of a tile.   *)
LineMask(t, x, y) == {i \in 0 .. TILE_WIDTH - 1 : Covered(t, x * TILE_WIDTH + i, y)}
LinesOf ==
  [t \in Triangle |->
     {l \in {[x |-> x, y |-> y, mask |-> LineMask(t, x, y)] :
               x \in 0 .. TilesX - 1, y \in 0 .. FRAME_HEIGHT - 1} : l.mask # {}}]

\* the line l of the n-th triangle as the worker should get it
LineFor(n, l) == [n |-> n, tex |-> n, x |-> l.x, y |-> l.y, mask |-> l.mask]
AllLines == UNION {{LineFor(n, l) : l \in LinesOf[T(n)]} : n \in DOMAIN accepted}

(* The order of the walk: triangle after triangle, the tiles row by row,    *)
(* the lines of a tile from the top.                                        *)
Row(y) == y \div TILE_HEIGHT
TileOf(l) == [n |-> l.n, x |-> l.x, y |-> Row(l.y)]
TileBefore(a, b) ==
  \/ a.n < b.n
  \/ a.n = b.n /\ (a.y < b.y \/ (a.y = b.y /\ a.x < b.x))
LineBefore(l, m) ==
  \/ TileBefore(TileOf(l), TileOf(m))
  \/ TileOf(l) = TileOf(m) /\ l.y < m.y

(***************************************************************************)
(* The worker gets the lines of the triangles in the order in which they   *)
(* were accepted, exactly the covered pixels of the frame, each once and   *)
(* with the triangle's texture, and none is passed over: no tile with a    *)
(* covered pixel is rejected or left out of the bounding box, no line is   *)
(* lost in the full FIFO whose in_ready is not connected (line_fifo.sv:56, *)
(* 146), and no triangle gets the texture of another                       *)
(* (triangle_param.sv:118-121).                                            *)
(***************************************************************************)
SendsTheTriangles ==
  /\ \A i \in DOMAIN sent : sent[i] \in AllLines
  /\ \A i, j \in DOMAIN sent : i < j => LineBefore(sent[i], sent[j])
  /\ \A l \in AllLines, i \in DOMAIN sent :
       LineBefore(l, sent[i]) => \E j \in DOMAIN sent : sent[j] = l

(***************************************************************************)
(* Nothing is withheld: every triangle presented has been accepted and all *)
(* its lines have been sent, also when all of it is off the screen or      *)
(* covers no pixel.  Fairness must bring this about again and again.       *)
(***************************************************************************)
AllLinesSent ==
  Presented = Len(accepted) /\ \A l \in AllLines : \E i \in DOMAIN sent : sent[i] = l
===============================================================================
