----------------------------- MODULE VertexPipeline -----------------------------
(***************************************************************************)
(* The vertex pipeline: vertex_processor with its matmul,                  *)
(* vertex_triangle_collector, vertex_post and vertex_post_to_triangle2d,   *)
(* driven by the registers the software writes, up to the FIFO the         *)
(* rasterizer takes triangles from.  One step is one rising clock edge.    *)
(*                                                                         *)
(* A vertex is the pair <<triangle, number>> it was stored under, so that  *)
(* the id registers that travel with the data (read_id_q, id_shift) need   *)
(* no copy of their own.  What the matrix makes of a triangle is a choice  *)
(* of each frame: it is behind the camera, flat, or visible.               *)
(***************************************************************************)
EXTENDS Integers, SequencesExt

CONSTANTS
  LastId,        \* the largest triangle id, RAM_DEPTH
  FIFO_DEPTH,    \* of vertex_post_to_triangle2d
  MaxFrames,     \* bound: start_render writes
  Restarts       \* the software may write start_render during a frame

(* What the constants must be; the module that gives them values assumes it. *)
Assumptions ==
  /\ {LastId, MaxFrames} \subseteq Nat /\ FIFO_DEPTH \in Nat \ {0} /\ Restarts \in BOOLEAN

VARIABLES
  stored,      \* last_stored_triangle_q, <<>> until stored_triangle_valid_q
  launch,      \* [triangle, vertex, enabled]
  read,        \* the DPRAM output: [first, data], first when a valid first vertex
  product,     \* matmul's two stages, the output last
  final,       \* final_output_vertex_q, 0 when not final_output_active_q
  dummy,       \* dummy_vertex_q, Off when not dummy_active_q
  collector,   \* [vertex_idx, collecting, full, id, vec]
  post,        \* vertex_post: [state, triangle, out_valid]
  fifo,        \* fifo_q of vertex_post_to_triangle2d
  behind, flat,\* what the matrix makes of the stored triangles
  frames,      \* ghost: for each start_render the ids to be drawn
  drawn        \* ghost: the triangles the rasterizer took

processor == <<stored, launch, read, product, final, dummy>>
vars == <<processor, collector, post, fifo, behind, flat, frames, drawn>>

Ids == 0 .. LastId
COMPLETION_TRIANGLE_ID == LastId + 1
Off == -1
NoVertex == <<Off, 0>>
Vertex == (0 .. LastId + 1) \X (0 .. 2) \cup {NoVertex}
Whole(id) == [id |-> id, vec |-> [i \in 0 .. 2 |-> <<id, i>>]]
Blank == [id |-> 0, vec |-> [i \in 0 .. 2 |-> NoVertex]]
Empty == [first |-> FALSE, data |-> NoVertex]
Stopped == [triangle |-> 0, vertex |-> 0, enabled |-> FALSE]

-------------------------------------------------------------------------------
(* vertex_processor                                                         *)
out_ready == ~collector.full
matmul_ready == out_ready /\ dummy = Off
read_fire == matmul_ready /\ launch.enabled /\ stored # <<>>

out_valid == IF dummy # Off THEN dummy = 0 ELSE product[2].first
out_vec == IF dummy # Off THEN <<COMPLETION_TRIANGLE_ID, dummy>> ELSE product[2].data

\* a new start or a new matrix drops what is being launched
cancels(w) == w.reg \in {"start_render", "matrix"}

\* the last vertex of the last triangle ends the frame
Advance ==
  IF launch.vertex < 2 THEN [launch EXCEPT !.vertex = @ + 1]
  ELSE IF launch.triangle = stored[1] THEN Stopped
  ELSE [launch EXCEPT !.vertex = 0, !.triangle = (@ + 1) % (LastId + 1)]

\* a count below the triangle being launched starts over; of what a vertex
\* read on the same edge assigns, it leaves the vertex and the next triangle
beyond(w) == w.reg = "triangle_count" /\ launch.triangle > w.val

StartOver ==
  IF ~read_fire THEN [Stopped EXCEPT !.enabled = launch.enabled]
  ELSE IF launch.vertex < 2 THEN [Advance EXCEPT !.triangle = 0] ELSE Advance

Launch(w) ==
  launch' = CASE w.reg = "start_render" -> [Stopped EXCEPT !.enabled = TRUE]
              [] w.reg = "matrix"       -> Stopped
              [] beyond(w)              -> StartOver
              [] ~beyond(w) /\ read_fire -> Advance
              [] OTHER                  -> launch

ReadVertex(w) ==
  read' = [first |-> /\ ~cancels(w)
                     /\ IF matmul_ready THEN read_fire /\ launch.vertex = 0
                                        ELSE read.first /\ ~beyond(w),
           data |-> IF read_fire THEN <<launch.triangle, launch.vertex>> ELSE read.data]

Matmul == product' = IF matmul_ready THEN <<read, product[1]>> ELSE product

\* the completion triangle follows the two vertices after the last triangle's first
starts_final == product[2].first /\ product[2].data[1] = stored[1]
ends_final_Early == final = 1               \* mutant
ends_final == final = 2

Marker(w) ==
  CASE cancels(w) -> final' = 0 /\ dummy' = Off
    [] ~cancels(w) /\ dummy # Off ->
         /\ final' = final
         /\ dummy' = IF ~out_ready THEN dummy ELSE IF dummy = 2 THEN Off ELSE dummy + 1
    [] ~cancels(w) /\ dummy = Off /\ matmul_ready ->
         /\ final' = IF starts_final THEN 1 ELSE IF final = 0 \/ ends_final THEN 0 ELSE final + 1
         /\ dummy' = IF ~starts_final /\ ends_final THEN 0 ELSE dummy
    [] OTHER -> UNCHANGED <<final, dummy>>

VertexProcessor(w) ==
  /\ stored' = IF w.reg = "triangle_count" THEN <<w.val>> ELSE stored
  /\ Launch(w)
  /\ ReadVertex(w)
  /\ Matmul
  /\ Marker(w)

-------------------------------------------------------------------------------
(* vertex_post                                                              *)
to_fifo == Len(fifo) < FIFO_DEPTH
out_fire == post.out_valid /\ to_fifo

\* one vertex behind the camera drops the triangle
in_front(vec) == \A i \in DOMAIN vec : vec[i][1] \notin behind
post_ready == post.state = "IDLE" \/ (post.state = "OUT" /\ out_fire)
accepts == post_ready /\ collector.full /\ in_front(collector.vec)

(* vertex_triangle_collector: after a valid first vertex every beat counts  *)
beat == ~collector.full /\ (out_valid \/ collector.collecting)

Collector ==
  collector' =
    IF beat
    THEN [vertex_idx |-> (collector.vertex_idx + 1) % 3,
          collecting |-> collector.vertex_idx < 2,
          full |-> collector.vertex_idx = 2,
          id |-> IF collector.collecting THEN collector.id ELSE out_vec[1],
          vec |-> [collector.vec EXCEPT ![collector.vertex_idx] = out_vec]]
    ELSE [collector EXCEPT !.full = @ /\ ~post_ready]

\* divided: the 33 division steps have come to their end
Post(divided) ==
  post' =
    IF accepts
    THEN [state |-> "DIV", triangle |-> [id |-> collector.id, vec |-> collector.vec], out_valid |-> FALSE]
    ELSE CASE post.state = "DIV" /\ divided -> [post EXCEPT !.state = "NDC"]
           [] post.state = "NDC" -> [post EXCEPT !.state = "OUT"]
           [] post.state = "OUT" -> [post EXCEPT !.state = IF out_fire THEN "IDLE" ELSE "OUT",
                                                 !.out_valid = ~out_fire]
           [] OTHER -> post

(* vertex_post_to_triangle2d: a flat triangle is taken and dropped          *)
drop_degenerate == post.triangle.id \in flat
push == IF out_fire /\ ~drop_degenerate THEN <<post.triangle>> ELSE <<>>
pop(ready) == fifo # <<>> /\ ready

Triangle2d(ready) ==
  /\ fifo' = (IF pop(ready) THEN Tail(fifo) ELSE fifo) \o push
  /\ drawn' = IF pop(ready) THEN Append(drawn, Head(fifo)) ELSE drawn

-------------------------------------------------------------------------------
(* The register writes of render_frame, set_tri_count and                   *)
(* write_camera_matrix.  The software waits for the completion triangle     *)
(* before it touches the pipeline again; b and f say what the matrix makes  *)
(* of the triangles.                                                        *)
Write ==
  {[reg |-> r, val |-> 0] : r \in {"none", "matrix", "start_render"}} \cup
  {[reg |-> "triangle_count", val |-> n] : n \in Ids}

Frame(last, b, f) ==
  SelectSeq([i \in 1 .. last + 1 |-> i - 1], LAMBDA t : t \notin b \cup f)
    \o <<COMPLETION_TRIANGLE_ID>>
expected == FlattenSeq(frames)
waits == Len(drawn) < Len(expected)

Software(w, b, f) ==
  /\ waits => w.reg = "none" \/ (Restarts /\ w.reg = "start_render")
  /\ IF w.reg = "start_render"
     THEN /\ stored # <<>> /\ Len(frames) < MaxFrames
          /\ frames' = Append(frames, Frame(stored[1], b, f))
          /\ behind' = b /\ flat' = f
     ELSE UNCHANGED <<frames, behind, flat>>

Clock(w, b, f, divided, ready) ==
  /\ Software(w, b, f)
  /\ VertexProcessor(w)
  /\ Collector
  /\ Post(divided)
  /\ Triangle2d(ready)

Init ==
  /\ stored = <<>> /\ launch = Stopped
  /\ read = Empty /\ product = <<Empty, Empty>>
  /\ final = 0 /\ dummy = Off
  /\ collector = [vertex_idx |-> 0, collecting |-> FALSE, full |-> FALSE, id |-> 0, vec |-> Blank.vec]
  /\ post = [state |-> "IDLE", triangle |-> Blank, out_valid |-> FALSE]
  /\ fifo = <<>> /\ behind = {} /\ flat = {}
  /\ frames = <<>> /\ drawn = <<>>

Next ==
  \E divided, ready \in BOOLEAN :
    \/ \E w \in Write : w.reg # "start_render" /\ Clock(w, behind, flat, divided, ready)
    \/ \E b \in SUBSET Ids : \E f \in SUBSET (Ids \ b) :
         Clock([reg |-> "start_render", val |-> 0], b, f, divided, ready)

Spec == Init /\ [][Next]_vars

(* What fairness is about: the clock runs, divisions end and the rasterizer *)
(* takes triangles.                                                         *)
NoWrite == [reg |-> "none", val |-> 0]
Divided == \E ready \in BOOLEAN : Clock(NoWrite, behind, flat, TRUE, ready)
TriangleTaken == \E divided \in BOOLEAN : Clock(NoWrite, behind, flat, divided, TRUE)
-------------------------------------------------------------------------------

(***************************************************************************)
(* The rasterizer gets, frame after frame, exactly the visible triangles   *)
(* up to the last one stored, in the order of their ids, each with its own *)
(* three vertices, and then the completion triangle: the collector, which  *)
(* counts beats after the first valid one (vertex_triangle_collector.sv:49)*)
(* stays in step through every stall, culled and flat triangles go without *)
(* a trace, and the completion triangle comes last and once                *)
(* (vertex_processor.sv:310-324).                                          *)
(***************************************************************************)
FramesDrawn ==
  /\ IsPrefix([i \in DOMAIN drawn |-> drawn[i].id], expected)
  /\ \A i \in DOMAIN drawn : drawn[i] = Whole(drawn[i].id)

(***************************************************************************)
(* Every visible triangle of the frames started and their completion       *)
(* triangles, for which render_frame waits, have reached the rasterizer.   *)
(* Fairness must bring this about again and again.                         *)
(***************************************************************************)
FramesEnded == ~waits

(***************************************************************************)
(* vertex_processor.hjson:22 of start_render: "Write one to restart and    *)
(* enable rendering".  When everything started has been drawn, the last    *)
(* triangles drawn are the frame last started.                             *)
(***************************************************************************)
Quiet == ~launch.enabled /\ final = 0 /\ dummy = Off /\ ~read.first /\ ~collector.full
         /\ ~collector.collecting /\ post.state = "IDLE" /\ fifo = <<>>
         /\ \A i \in 1 .. 2 : ~product[i].first
RestartDrawsTheFrame ==
  Quiet /\ frames # <<>> => IsSuffix(Last(frames), [i \in DOMAIN drawn |-> drawn[i].id])
===============================================================================
