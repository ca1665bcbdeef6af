------------------------------- MODULE MCRender -------------------------------
(***************************************************************************)
(* The three stretches of the rendering pipeline in one run: the vertex    *)
(* pipeline, the front end of the rasterizer and its back end with the     *)
(* memory and the software.  Each meets an arbitrary neighbour, so stretch *)
(* says which of them runs and the others stay in reset.                   *)
(***************************************************************************)
EXTENDS RasterFrontEnd, RasterBackEnd, VertexMath

(***************************************************************************)
(* The front end: a frame of two by two tiles of two by four pixels.  A    *)
(* triangle over all tiles, one that leaves the frame at the top left, a   *)
(* sliver that misses two of the tiles of its box, and one off the screen. *)
(***************************************************************************)
At(i, j) == [x |-> i, y |-> j]
Tri(p, q, r) == [a |-> p, b |-> q, c |-> r]
MCTriangle ==
  {Tri(At(0, 0), At(4, 1), At(1, 7)), Tri(At(-3, -2), At(2, 0), At(0, 4)),
   Tri(At(0, 3), At(4, 4), At(3, 5)), Tri(At(5, 1), At(9, 2), At(6, 7))}

VARIABLES
  stored, launch, read, product, final, dummy, collector, post, fifo, behind, flat, frames, drawn,
  stretch

vertices == <<stored, launch, read, product, final, dummy, collector, post, fifo, behind, flat,
              frames, drawn>>
all == <<vars, vertices, backVars, stretch>>

(* Three triangles, two frames, no start_render while one is under way.     *)
V == INSTANCE VertexPipeline WITH LastId <- 2, FIFO_DEPTH <- 2, MaxFrames <- 2, Restarts <- FALSE

(* A line over the first half, a nearer one over both halves of a place.    *)
L(p, c, z, m) == [place |-> p, cover |-> c, z |-> z, marker |-> m]
MCPlace == {"p", "q"}
MCLine == {L("p", {"lo"}, 1, FALSE), L("p", {"lo", "hi"}, 2, FALSE)}
MCMarkerLine == L("q", {"lo"}, 3, TRUE)
MCMaxDraws == <<2, 1>>

ASSUME VertexAssumption == V!Assumptions

-------------------------------------------------------------------------------
RenderInit == Init /\ V!Init /\ BackInit /\ stretch \in {"vertices", "front", "back"}

VerticesRun == stretch = "vertices" /\ UNCHANGED <<vars, backVars, stretch>>
FrontRuns == stretch = "front" /\ UNCHANGED <<backVars, vertices, stretch>>
BackRuns == stretch = "back" /\ UNCHANGED <<vertices, vars, stretch>>

VerticesClock == VerticesRun /\ V!Next
FrontClock == FrontRuns /\ Next
BackTicks == BackRuns /\ BackNext
RenderNext == VerticesClock \/ FrontClock \/ BackTicks

RenderSpec ==
  /\ RenderInit /\ [][RenderNext]_all
  /\ WF_all(VerticesRun /\ V!Divided) /\ WF_all(VerticesRun /\ V!TriangleTaken)
  /\ WF_all(FrontRuns /\ Calculated) /\ WF_all(FrontRuns /\ LineTaken)
  /\ WF_all(BackTicks)
  /\ WF_all(BackRuns /\ MemoryAccepts) /\ WF_all(BackRuns /\ MemoryAnswers)
  /\ WF_all(BackRuns /\ ColorDelivers) /\ WF_all(BackRuns /\ FrameEnded)
  /\ WF_all(BackRuns /\ SoftwareSteps)

FramesDrawn == V!FramesDrawn
(***************************************************************************)
(* No stretch gets stuck: the vertex pipeline comes to the end of every    *)
(* frame started (vertex_processor.sv:310-324), the front end passes or    *)
(* drops every triangle (triangle_param.sv:123, line_fifo.sv:119), and     *)
(* every call of render_frame returns (graphics_pipeline.c:47-48), though  *)
(* each join waits for all its inputs while each input waits for room      *)
(* behind the join (output_fifo.sv:66).                                    *)
(***************************************************************************)
StretchesFinish ==
  []<>(/\ stretch = "vertices" => V!FramesEnded
       /\ stretch = "front" => AllLinesSent
       /\ stretch = "back" => FrameCompleted)

-------------------------------------------------------------------------------
(* The arithmetic, at eight bits.  1/w is truncated toward zero and         *)
(* saturates, for every w.                                                  *)
ASSUME InverseTruncates ==
  \A w \in Word \ {0} :
    LET q == (ONE_FP * ONE_FP) \div (IF w < 0 THEN -w ELSE w)
        exact == IF w < 0 THEN -q ELSE q
        least == -(2^(DATA_WIDTH - 1))
    IN  inv_w(w) = (IF exact < least THEN least ELSE IF exact > -least - 1 THEN -least - 1 ELSE exact)

(* A vertex inside the view lands on the screen.                            *)
ASSUME ViewLandsOnScreen == \A x \in -ONE_FP .. ONE_FP : vp_x(x) \in 0 .. SCREEN_W

(* The rasterizer only gets triangles that wind its way, and with its       *)
(* texture coordinates when the triangle was not turned.                    *)
Corner == [x: {-2, 0, 1, 3}, y: {-1, 0, 2}]
ASSUME TrianglesWindOneWay ==
  \A a, b, c \in Corner :
    LET uv == <<<<1, 0>>, <<0, 0>>, <<1, 1>>>>
        t == triangle2d(<<a, b, c>>, uv)
    IN  /\ area(t.v) >= 0 /\ {t.v[i] : i \in 1 .. 3} = {a, b, c}
        /\ area(<<a, b, c>>) > 0 => \A i \in 1 .. 3 : t.v[i] = <<a, b, c>>[i] /\ t.uv[i] = uv[i]

(***************************************************************************)
(* For every triangle of nonzero area with vertices in a small grid around *)
(* the frame, a tile with a covered pixel is in the bounding box and is    *)
(* not rejected.                                                           *)
(***************************************************************************)
Grid == {At(i, j) : i \in {-2, 0, 1, 3, 5}, j \in {-3, 0, 2, 3, 9}}
ASSUME NoCoveredTileRejected ==
  \A p, q, r \in Grid :
    LET t == Tri(p, q, r)
        box == ParamOf(t)
    IN  Side(p, q, r.x, r.y) # 0 =>
        \A tx \in 0 .. TilesX - 1, ty \in 0 .. TilesY - 1 :
          (\E x \in 0 .. TILE_WIDTH - 1, y \in 0 .. TILE_HEIGHT - 1 :
             Covered(t, tx * TILE_WIDTH + x, ty * TILE_HEIGHT + y))
          => /\ ~box.outside /\ ~reject(box, tx, ty)
             /\ tx \in box.bbox.min.x .. box.bbox.max.x
             /\ ty \in box.bbox.min.y .. box.bbox.max.y
===============================================================================
