----------------------------- MODULE RasterBackEnd -----------------------------
(***************************************************************************)
(* The second half of the rasterizer: worker (a fork into six lanes and    *)
(* their join in depth_mask and output_fifo), two depth readers,           *)
(* rasterizer_status and writer, with the DDR they read and write and the  *)
(* software that renders a frame.  One step is one rising clock edge.      *)
(*                                                                         *)
(* A line is 32 pixels of a triangle at a Place (tile_x, y); the first and *)
(* the second 16 of them, "lo" and "hi", share one depth value each.  The  *)
(* lanes carry the number of a line, its index in the ghost `lines`.  The  *)
(* arithmetic of the depth lane is left out (a line has one z); the three  *)
(* colour stages uq_vq, 1/q and texture are one lane that holds up to      *)
(* ColorDepth lines and delivers each when it likes.                       *)
(***************************************************************************)
EXTENDS Integers, FiniteSets, MyFifo

CONSTANTS
  Place,       \* the (tile_x, y) the lines lie at
  Line,        \* the lines triangles have: [place, cover, z, marker]
  MarkerLine,  \* the line of the completion triangle
  MaxDraws,    \* bound: frame f draws at most MaxDraws[f] lines, f in 1 .. Frames
  MarkerLines, \* number of lines the completion triangle covers
  ReadDepth, ZDepth, MaskDepth, MetaDepth, DataDepth, ColorDepth,
  MaxOwed      \* answers the memory side may owe

Frames == Len(MaxDraws)
Halves == {"lo", "hi"}
Colors == {"RED", "GREEN", "BLUE"}

ASSUME DepthsAssumption ==
  \A d \in {ReadDepth, ZDepth, MaskDepth, MetaDepth, DataDepth} : d \in Nat /\ d >= 2
ASSUME LinesAssumption ==
  /\ Line \subseteq [place: Place, cover: (SUBSET Halves) \ {{}}, z: Nat, marker: {FALSE}]
  /\ MarkerLine \in [place: Place, cover: (SUBSET Halves) \ {{}}, z: Nat, marker: {TRUE}]
\* the completion triangle covers a pixel, or no frame would ever be reported
ASSUME MarkerAssumption == MarkerLines \in Nat \ {0}
ASSUME BoundsAssumption ==
  MaxDraws \in Seq(Nat) /\ MaxDraws # <<>> /\ {ColorDepth, MaxOwed} \subseteq Nat \ {0}

VARIABLES
  zq,         \* depth_calculation: the FIFO of interpolated depths
  reader,     \* depth readers: [req, tokens, resp] per half
  maskq,      \* depth_mask: FIFO of [z, pass]
  color,      \* the colour lane: line numbers, oldest first
  meta, data, \* output_fifo: its two FIFOs
  status,     \* rasterizer_status: [pending, set, valid]
  writer,     \* writer: [state, line, outstanding]
  mem, owed,  \* the DDR: surfaces, and the answers it owes in order
  sw, draws, markers, frame,       \* software, what the front end still sends
  lines, first, claimed, early,    \* ghosts
  pictures    \* ghost: the frame after each line, the lines drawn one after the other

backVars == <<zq, reader, maskq, color, meta, data, status, writer, mem, owed,
          sw, draws, markers, frame, lines, first, claimed, early, pictures>>

NoNumber == 0           \* no line
Nobody == "nobody"

Image(s) == {s[i] : i \in DOMAIN s}

-------------------------------------------------------------------------------
(* The depth readers.  req is the line whose Get is presented (ddr_valid_q  *)
(* and the address registers), a token per line accepted says whether the   *)
(* half is uncovered (zero_q), resp holds the answers.                      *)

request_count_q(h) == Len(reader[h].tokens)
token(h) == Head(reader[h].tokens)
depth_valid(h) == request_count_q(h) # 0 /\ (token(h).zero \/ reader[h].resp.valid_q)
out_depth(h) == IF token(h).zero THEN 0 ELSE OutData(reader[h].resp).depth

reader_ready(h, uncovered, a_ready) ==
  /\ uncovered \/ reader[h].req = NoNumber \/ a_ready
  /\ request_count_q(h) < ReadDepth

\* in: <<>> or the line accepted; answer: <<>> or the answer accepted
NewToken(h, in) ==
  IF in = <<>> THEN <<>> ELSE <<[n |-> in[1].n, zero |-> h \notin in[1].cover]>>

DepthReader(h, in, a_ready, out_fire, answer) ==
  LET r == reader[h]
      asks == in # <<>> /\ h \in in[1].cover
      takes == out_fire /\ ~token(h).zero
  IN  [req |-> IF asks THEN in[1].n ELSE IF a_ready THEN NoNumber ELSE r.req,
       tokens |-> (IF out_fire THEN Tail(r.tokens) ELSE r.tokens) \o NewToken(h, in),
       resp |-> FifoEdge(r.resp, answer, takes)]

-------------------------------------------------------------------------------
(* The join of the depth lanes, the output FIFOs and the completion marker, *)
(* from the output backwards: each ready depends on the next stage's.       *)

writer_ready == writer.state = "IDLE"
busy_NoOutstanding == writer.state # "IDLE"                  \* mutant
busy == writer.state # "IDLE" \/ writer.outstanding # 0

out_line == OutData(data)
completion_marker == data.valid_q /\ lines[out_line.color].marker
status_ready == IF completion_marker THEN TRUE ELSE writer_ready
to_writer == data.valid_q /\ ~completion_marker /\ writer_ready

data_ready == InReady(data, DataDepth, status_ready)
joined(colored) == meta.valid_q /\ maskq.valid_q /\ colored
\* depth_ready_o: the mask FIFO is consumed when the other two are there
depth_ready(colored) == meta.valid_q /\ colored /\ data_ready
output_fire(colored) == joined(colored) /\ data_ready

mask_ready(colored) == InReady(maskq, MaskDepth, depth_ready(colored))
depth_fire(colored) ==
  zq.valid_q /\ depth_valid("lo") /\ depth_valid("hi") /\ mask_ready(colored)

pass_mask_GreaterEqual == {h \in Halves : lines[OutData(zq)].z >= out_depth(h)}  \* mutant
pass_mask == {h \in Halves : lines[OutData(zq)].z > out_depth(h)}

DepthMask(colored) ==
  maskq' = FifoEdge(maskq,
                    IF depth_fire(colored) THEN <<[z |-> OutData(zq), pass |-> pass_mask]>> ELSE <<>>,
                    maskq.valid_q /\ depth_ready(colored))

joined_line ==
  LET n == OutData(meta)
  IN  [n |-> n, mask |-> lines[n].cover \cap OutData(maskq).pass,
       color |-> Head(color), z |-> OutData(maskq).z]

OutputFifo_ColorAlone(in, colored) ==        \* mutant: not held for the depth
  /\ meta' = FifoEdge(meta, in, output_fire(colored))
  /\ color' = (IF meta.valid_q /\ colored /\ data_ready THEN Tail(color) ELSE color) \o in
  /\ data' = FifoEdge(data, IF output_fire(colored) THEN <<joined_line>> ELSE <<>>,
                      data.valid_q /\ status_ready)

OutputFifo(in, colored) ==
  /\ meta' = FifoEdge(meta, in, output_fire(colored))
  /\ color' = (IF output_fire(colored) THEN Tail(color) ELSE color) \o in
  /\ data' = FifoEdge(data, IF output_fire(colored) THEN <<joined_line>> ELSE <<>>,
                      data.valid_q /\ status_ready)

(* completion_pending_q, completion_set_q, and the write-one-to-clear bit,  *)
(* on which the software's clear wins over the hardware's set.              *)
RasterizerStatus(sw_clears) ==
  status' = [pending |-> completion_marker \/ (status.pending /\ busy),
             set     |-> status.pending /\ ~busy,
             valid   |-> (status.valid \/ status.set) /\ ~sw_clears]

-------------------------------------------------------------------------------
(* The writer: three colour planes, then the depth halves it has pixels of. *)

WriterNext(state, mask) ==
  CASE state = "RED"    -> "GREEN"
    [] state = "GREEN"  -> "BLUE"
    [] state = "BLUE"   -> IF "lo" \in mask THEN "DEPTH1" ELSE IF "hi" \in mask THEN "DEPTH2" ELSE "IDLE"
    [] state = "DEPTH1" -> IF "hi" \in mask THEN "DEPTH2" ELSE "IDLE"
    [] state = "DEPTH2" -> "IDLE"

Writer_CountsBoth(accepted, acknowledged) ==  \* mutant: both at once counts up
  writer' =
    [line  |-> IF to_writer THEN out_line ELSE writer.line,
     state |-> IF to_writer THEN (IF out_line.mask = {} THEN "IDLE" ELSE "RED")
               ELSE IF accepted THEN WriterNext(writer.state, writer.line.mask)
               ELSE writer.state,
     outstanding |-> writer.outstanding + (IF accepted THEN 1 ELSE 0)
                                        - (IF acknowledged /\ ~accepted THEN 1 ELSE 0)]

Writer(accepted, acknowledged) ==
  writer' =
    [line  |-> IF to_writer THEN out_line ELSE writer.line,
     state |-> IF to_writer THEN (IF out_line.mask = {} THEN "IDLE" ELSE "RED")
               ELSE IF accepted THEN WriterNext(writer.state, writer.line.mask)
               ELSE writer.state,
     outstanding |-> writer.outstanding + (IF accepted /\ ~acknowledged THEN 1 ELSE 0)
                                        - (IF acknowledged /\ ~accepted THEN 1 ELSE 0)]

(* What a write of the writer does to the surfaces. *)
Written(m) ==
  LET w == writer.line  p == lines[w.n].place  s == writer.state
  IN  IF s \in Colors
      THEN [m EXCEPT ![p].color[s] = [h \in Halves |-> IF h \in w.mask THEN w.color ELSE @[h]]]
      ELSE LET h == IF s = "DEPTH1" THEN "lo" ELSE "hi"
           IN  IF h \in w.mask THEN [m EXCEPT ![p].depth[h] = lines[w.z].z] ELSE m

Cleared == [p \in Place |-> [color |-> [c \in Colors |-> [h \in Halves |-> NoNumber]],
                             depth |-> [h \in Halves |-> 0]]]

-------------------------------------------------------------------------------
(* The DDR behind the multiplexer: in order, fixed priority to the readers. *)

requests(port) == IF port = "writer" THEN writer.state # "IDLE" ELSE reader[port].req # NoNumber
granted == IF requests("lo") THEN "lo" ELSE IF requests("hi") THEN "hi" ELSE "writer"
someone_requests == \E port \in Halves \cup {"writer"} : requests(port)

\* d_ready of the port the oldest answer goes to
d_ready(colored) ==
  LET h == Head(owed).to
  IN  IF h = "writer" THEN TRUE
      ELSE InReady(reader[h].resp, ReadDepth, depth_fire(colored) /\ ~token(h).zero)

Answered(to, answered) ==
  IF answered /\ Head(owed).to = to THEN <<Head(owed)>> ELSE <<>>

(* The line a granted request belongs to and what a read finds.             *)
NewAnswer(port) ==
  IF port = "writer" THEN [to |-> port, n |-> writer.line.n, depth |-> 0]
  ELSE LET n == reader[port].req
       IN  [to |-> port, n |-> n, depth |-> mem[lines[n].place].depth[port]]

Memory(port, answered, sw_clears) ==
  /\ owed' = (IF answered THEN Tail(owed) ELSE owed)
               \o (IF port = Nobody THEN <<>> ELSE <<NewAnswer(port)>>)
  /\ mem' = IF sw_clears THEN Cleared ELSE IF port = "writer" THEN Written(mem) ELSE mem

(* The draws that may still write depth half h at place p.                  *)
MayWrite(p, h) ==
  {n \in Image(meta.items) : lines[n].place = p /\ h \in lines[n].cover /\ ~lines[n].marker}
  \cup {d.n : d \in {x \in Image(data.items) : lines[x.n].place = p /\ h \in x.mask
                                            /\ ~lines[x.n].marker}}
  \cup (IF /\ writer.state # "IDLE" /\ lines[writer.line.n].place = p /\ h \in writer.line.mask
            /\ ~(h = "lo" /\ writer.state = "DEPTH2")
         THEN {writer.line.n} ELSE {})

-------------------------------------------------------------------------------
(* render_frame of the software, and the lines the front end sends for it:  *)
(* the draws of the frame, then the lines of the completion triangle.       *)

Offered ==
  (IF markers = 0 /\ draws < MaxDraws[frame] THEN Line ELSE {})
  \cup (IF markers < MarkerLines THEN {MarkerLine} ELSE {})

worker_ready(line, port, colored) ==
  /\ InReady(zq, ZDepth, depth_fire(colored))
  /\ \A h \in Halves : reader_ready(h, h \notin line.cover, port = h)
  /\ Len(color) < ColorDepth
  /\ InReady(meta, MetaDepth, output_fire(colored))

(* A bound on time rather than on data: the software does not get through   *)
(* two frame clears before the rest of the completion triangle has left the *)
(* pipeline.                                                                *)
MarkerFlushed ==
  /\ markers = MarkerLines /\ ~status.pending /\ ~status.set
  /\ meta.items = <<>> /\ data.items = <<>>

sw_ready == \/ sw = "clear" /\ MarkerFlushed
            \/ sw = "poll" /\ status.valid

Software(step, in) ==
  LET starts == step /\ sw = "clear"  sees == step /\ sw = "poll"
  IN  /\ sw' = IF starts THEN "poll"
               ELSE IF sees THEN (IF frame = Frames THEN "done" ELSE "clear")
               ELSE sw
      /\ frame' = IF sees /\ frame < Frames THEN frame + 1 ELSE frame
      /\ draws' = IF starts THEN 0
                  ELSE IF in # <<>> /\ ~in[1].marker THEN draws + 1 ELSE draws
      /\ markers' = IF starts THEN 0
                    ELSE IF in # <<>> /\ in[1].marker THEN markers + 1 ELSE markers
      /\ first' = IF starts THEN Len(lines) + 1 ELSE first

(* The frame as the lines define it: each line passes where it is nearer    *)
(* than what the lines of the frame before it have drawn.                   *)
Drawn(m, l, n) ==
  LET hit == {h \in l.cover : l.z > m[l.place].depth[h]}
  IN  IF l.marker THEN m
      ELSE [m EXCEPT ![l.place] =
              [color |-> [c \in Colors |-> [h \in Halves |-> IF h \in hit THEN n ELSE @.color[c][h]]],
               depth |-> [h \in Halves |-> IF h \in hit THEN l.z ELSE @.depth[h]]]]

PictureAfter(n) == IF n < first THEN Cleared ELSE pictures[n]
Reference == PictureAfter(Len(lines))

History(in, port, starts) ==
  /\ lines' = lines \o in
  /\ pictures' = pictures \o (IF in = <<>> THEN <<>> ELSE <<Drawn(Reference, in[1], Len(lines) + 1)>>)
  /\ claimed' = IF completion_marker THEN out_line.color ELSE claimed
  /\ early' = IF starts THEN {}
              ELSE IF port \in Halves
                   THEN LET n == reader[port].req  p == lines[n].place
                        IN  IF \E j \in MayWrite(p, port) : j < n THEN early \cup {<<p, port>>} ELSE early
              ELSE early

-------------------------------------------------------------------------------
(***************************************************************************)
(* One clock edge.  in: <<>> or the line accepted; grant: the memory side  *)
(* accepts a request; answered: it delivers an answer; colored: the colour *)
(* lane presents its oldest line; step: the software takes a step.         *)
(***************************************************************************)
BackClock(in, grant, answered, colored, step) ==
  LET port == IF grant THEN granted ELSE Nobody
      n == Len(lines) + 1
      lane == IF in = <<>> THEN <<>> ELSE <<n>>
      asked == IF in = <<>> THEN <<>> ELSE <<[n |-> n, cover |-> in[1].cover]>>
      starts == step /\ sw = "clear"
  IN  /\ grant => someone_requests /\ Len(owed) < MaxOwed
      /\ colored => color # <<>>
      /\ answered => owed # <<>> /\ d_ready(colored)
      /\ in # <<>> => in[1] \in Offered /\ worker_ready(in[1], port, colored)
      /\ step => sw_ready
      /\ zq' = FifoEdge(zq, lane, depth_fire(colored))
      /\ reader' = [h \in Halves |-> DepthReader(h, asked, port = h, depth_fire(colored),
                                                 Answered(h, answered))]
      /\ DepthMask(colored)
      /\ OutputFifo(lane, colored)
      /\ RasterizerStatus(starts)
      /\ Writer(port = "writer", answered /\ Head(owed).to = "writer")
      /\ Memory(port, answered, starts)
      /\ Software(step, in)
      /\ History(in, port, starts)

NoLine == [n |-> NoNumber, mask |-> {}, color |-> NoNumber, z |-> NoNumber]

BackInit ==
  /\ zq = EmptyFifo /\ maskq = EmptyFifo /\ color = <<>> /\ meta = EmptyFifo /\ data = EmptyFifo
  /\ reader = [h \in Halves |-> [req |-> NoNumber, tokens |-> <<>>, resp |-> EmptyFifo]]
  /\ status = [pending |-> FALSE, set |-> FALSE, valid |-> FALSE]
  /\ writer = [state |-> "IDLE", line |-> NoLine, outstanding |-> 0]
  /\ mem = Cleared /\ owed = <<>>
  /\ sw = "poll" /\ draws = 0 /\ markers = 0 /\ frame = 1
  /\ lines = <<>> /\ first = 1 /\ claimed = NoNumber /\ early = {} /\ pictures = <<>>

Arrival == {<<>>} \cup {<<l>> : l \in Offered}

BackNext == \E in \in Arrival, grant, answered, colored, step \in BOOLEAN :
          BackClock(in, grant, answered, colored, step)

BackSpec == BackInit /\ [][BackNext]_backVars

(***************************************************************************)
(* What fairness is about: the clock runs, the memory accepts and answers, *)
(* the colour lane delivers, the front end ends its frame and the software *)
(* keeps polling.                                                          *)
(***************************************************************************)
MemoryAccepts ==
  \E in \in Arrival, answered, colored, step \in BOOLEAN : BackClock(in, TRUE, answered, colored, step)
MemoryAnswers ==
  \E in \in Arrival, grant, colored, step \in BOOLEAN : BackClock(in, grant, TRUE, colored, step)
ColorDelivers ==
  \E in \in Arrival, grant, answered, step \in BOOLEAN : BackClock(in, grant, answered, TRUE, step)
FrameEnded ==
  \E grant, answered, colored, step \in BOOLEAN :
    BackClock(<<MarkerLine>>, grant, answered, colored, step)
SoftwareSteps ==
  \E in \in Arrival, grant, answered, colored \in BOOLEAN : BackClock(in, grant, answered, colored, TRUE)

-------------------------------------------------------------------------------

Numbered(s) == [i \in DOMAIN s |-> s[i].n]

Increasing(s) == \A i, j \in DOMAIN s : i < j => s[i] < s[j]

(***************************************************************************)
(* The reads a depth reader has made, wherever they are (answered, owed by *)
(* the memory, still presented), are the reads of its tokens in order, so  *)
(* that an answer meets the line it was read for (depth_reader.sv:51-54,   *)
(* 112-129).                                                               *)
(***************************************************************************)
ReadsMatchTokens ==
  \A h \in Halves :
    LET answers == Numbered(reader[h].resp.items)
        mine == {i \in DOMAIN owed : owed[i].to = h}
        waiting == {owed[i].n : i \in mine}
        presented == {reader[h].req} \ {NoNumber}
    IN  /\ Image(answers) \cup waiting \cup presented
             = {t.n : t \in {x \in Image(reader[h].tokens) : ~x.zero}}
        /\ Increasing(Numbered(reader[h].tokens)) /\ Increasing(answers)
        /\ \A i, j \in mine : i < j => owed[i].n < owed[j].n
        /\ \A a \in Image(answers), w \in waiting : a < w
        /\ \A a \in Image(answers) \cup waiting, r \in presented : a < r

(***************************************************************************)
(* An answer always finds room: d_ready never goes low, and no reader can  *)
(* hold up the answers of the other hosts on the shared in-order bus       *)
(* (depth_reader.sv:51).                                                   *)
(***************************************************************************)
AnswersFindRoom == owed # <<>> => \A colored \in BOOLEAN : d_ready(colored)

(***************************************************************************)
(* Every lane of the worker holds the same lines in the same order from    *)
(* the fork to its join, although each lane has its own FIFOs and accepts  *)
(* under its own conditions (worker.sv:96, depth_mask.sv:38-40,            *)
(* output_fifo.sv:65-67).                                                  *)
(***************************************************************************)
LanesAgree ==
  /\ \A h \in Halves : Numbered(reader[h].tokens) = zq.items
  /\ [i \in DOMAIN maskq.items |-> maskq.items[i].z] \o zq.items = meta.items
  /\ color = meta.items
  /\ \A d \in Image(data.items) : d.color = d.n /\ d.z = d.n

\* Together: the lanes, and what each has asked of the memory, keep step.
LanesInStep == ReadsMatchTokens /\ LanesAgree /\ AnswersFindRoom

(***************************************************************************)
(* When the status bit is set for a completion line, every line before it  *)
(* is in the memory: none is in the pipeline or in the writer, and no      *)
(* write is unacknowledged (rasterizer_status.sv:45-48, writer.sv:53).     *)
(***************************************************************************)
CompletionMeansWritten ==
  status.set =>
    /\ \A n \in Image(meta.items) \cup {d.n : d \in Image(data.items)} : n > claimed
    /\ writer.state # "IDLE" => writer.line.n > claimed
    /\ \A i \in DOMAIN owed : owed[i].to = "writer" => owed[i].n > claimed

Shown(m, p, h) == <<m[p].depth[h], [c \in Colors |-> m[p].color[c][h]]>>

(***************************************************************************)
(* When the software sees the completion, the surfaces hold the frame that *)
(* drawing the lines one after the other gives, wherever no depth was read *)
(* while an earlier line could still write it.                             *)
(***************************************************************************)
FrameMatchesUnlessEarly ==
  sw = "poll" /\ status.valid =>
    \A p \in Place, h \in Halves :
      <<p, h>> \notin early => Shown(mem, p, h) = Shown(Reference, p, h)

(***************************************************************************)
(* The same everywhere: of two lines drawn over each other the nearer one  *)
(* is seen ("Inverse Z depth testing", src/src/sw/project/camera.c:27).    *)
(* It does not hold: nothing stops a depth read from overtaking the depth  *)
(* write of a line ahead of it in the pipeline (depth_reader.sv:66-71).    *)
(***************************************************************************)
NearerIsSeen ==
  sw = "poll" /\ status.valid =>
    \A p \in Place, h \in Halves : Shown(mem, p, h) = Shown(Reference, p, h)

(***************************************************************************)
(* render_frame has seen the completion.  Fairness must bring this about   *)
(* again and again: every frame is completed.                              *)
(***************************************************************************)
FrameCompleted == sw # "poll"
===============================================================================
