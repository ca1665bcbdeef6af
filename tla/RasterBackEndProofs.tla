-------------------------- MODULE RasterBackEndProofs --------------------------
(***************************************************************************)
(* The back end of the rasterizer for every depth of its FIFOs, every set  *)
(* of places and lines, any number of frames and any number of answers the *)
(* memory may owe.                                                         *)
(*                                                                         *)
(* IInv is about the lines: each lane holds the last lines accepted as far *)
(* as it has come (Lanes, Output), the reads of a depth reader are those   *)
(* of its tokens in order (Readers), and a status bit that is set vouches  *)
(* for lines that have left and are acknowledged (Status).                 *)
(*                                                                         *)
(* FInv is about what they draw.  The ghost `pictures` has the frame after *)
(* each line.  An answer has the depth of the picture before its line,     *)
(* unless it was read early (Depths); so a mask hits where that picture is *)
(* farther (Masks); so the surfaces are the picture of the lines that have *)
(* left, but for what the writer has yet to write (Memories).  A frame is  *)
(* draws and then markers (Frame), and a marker is claimed as it leaves    *)
(* (Progress): from the claim on, nothing is left to draw.                 *)
(***************************************************************************)
\* the lemmas about queues (Shifted .. FifoStep) are those of the front end
EXTENDS RasterBackEnd, RasterFrontEndProofs, FunctionTheorems, FiniteSetTheorems, WellFoundedInduction, TLAPS

Ports == Halves \cup {"writer"}
WriterStates == Colors \cup {"IDLE", "DEPTH1", "DEPTH2"}
Answer == [to: Ports, n: Nat, depth: Nat]
Token == [n: Nat, zero: BOOLEAN]
Masked == [z: Nat, pass: SUBSET Halves]
OutLine == [n: Nat, mask: SUBSET Halves, color: Nat, z: Nat]
Reader(S) == [req: Nat, tokens: Seq(Token), resp: S]
Surfaces == [Place -> [color: [Colors -> [Halves -> Nat]], depth: [Halves -> Nat]]]

Types ==
  /\ lines \in Seq(Line \cup {MarkerLine})
  /\ zq \in Fifos(Nat) /\ meta \in Fifos(Nat) /\ color \in Seq(Nat)
  /\ maskq \in Fifos(Masked) /\ data \in Fifos(OutLine)
  /\ reader \in [Halves -> Reader(Fifos(Answer))]
  /\ owed \in Seq(Answer)
  /\ status \in [pending: BOOLEAN, set: BOOLEAN, valid: BOOLEAN]
  /\ writer \in [state: WriterStates, line: OutLine, outstanding: Nat]
  /\ mem \in Surfaces

(* Every lane holds the last lines accepted, as far as it has come.         *)
Ends(s, last) == \A i \in DOMAIN s : s[i] = last - Len(s) + i

Lanes ==
  /\ Ends(meta.items, Len(lines)) /\ Len(meta.items) <= Len(lines)
  /\ Ends(zq.items, Len(lines)) /\ Ends(color, Len(lines)) /\ Len(color) = Len(meta.items)
  /\ Len(maskq.items) + Len(zq.items) = Len(meta.items)
  /\ \A i \in DOMAIN maskq.items : maskq.items[i].z = Len(lines) - Len(meta.items) + i
  /\ \A h \in Halves :
       /\ Len(reader[h].tokens) = Len(zq.items)
       /\ \A i \in DOMAIN reader[h].tokens :
            LET t == reader[h].tokens[i]
            IN  t.n = Len(lines) - Len(zq.items) + i /\ (t.zero <=> h \notin lines[t.n].cover)

(* The lines that have left the output FIFO.                                *)
Left == Len(lines) - Len(meta.items) - Len(data.items)

Output ==
  /\ Left >= 0
  /\ \A i \in DOMAIN data.items :
       LET d == data.items[i] IN d.n = Left + i /\ d.color = d.n /\ d.z = d.n
  /\ LET w == writer.line
     IN  writer.state # "IDLE" => w.n \in 1 .. Left /\ w.color = w.n /\ w.z = w.n

(* The reads of a depth reader.                                             *)
Reads(h, n) ==
  n \in Len(lines) - Len(reader[h].tokens) + 1 .. Len(lines) /\ h \in lines[n].cover
Mine(h) == {i \in DOMAIN owed : owed[i].to = h}

ReadsAreTokens(h) ==
  LET r == reader[h]
  IN  /\ \A i \in DOMAIN r.resp.items : Reads(h, r.resp.items[i].n)
      /\ \A i \in Mine(h) : Reads(h, owed[i].n)
      /\ r.req # NoNumber => Reads(h, r.req)

TokensAreRead(h) ==
  LET r == reader[h]
  IN  \A n \in 1 .. Len(lines) : Reads(h, n) =>
        \/ \E i \in DOMAIN r.resp.items : r.resp.items[i].n = n
        \/ \E i \in Mine(h) : owed[i].n = n
        \/ r.req = n

InOrder(h) ==
  LET r == reader[h]
  IN  /\ \A i, j \in DOMAIN r.resp.items : i < j => r.resp.items[i].n < r.resp.items[j].n
      /\ \A i, j \in Mine(h) : i < j => owed[i].n < owed[j].n
      /\ \A i \in DOMAIN r.resp.items, j \in Mine(h) : r.resp.items[i].n < owed[j].n
      /\ r.req # NoNumber => /\ \A i \in DOMAIN r.resp.items : r.resp.items[i].n < r.req
                             /\ \A j \in Mine(h) : owed[j].n < r.req

Room(h) == Len(reader[h].tokens) <= ReadDepth

Readers == \A h \in Halves : ReadsAreTokens(h) /\ TokensAreRead(h) /\ InOrder(h) /\ Room(h)

(* What the status says.                                                    *)
Status ==
  /\ claimed \in 0 .. Left
  /\ writer.outstanding = Cardinality(Mine("writer"))
  /\ status.set =>
       /\ writer.state # "IDLE" => writer.line.n > claimed
       /\ \A i \in Mine("writer") : owed[i].n > claimed

(* The lines of a frame are draws and then markers.                         *)
Frame ==
  /\ first \in 1 .. Len(lines) + 1 /\ markers \in Nat
  /\ \A i, j \in first .. Len(lines) : i < j /\ lines[i].marker => lines[j].marker
  /\ markers = 0 => \A i \in first .. Len(lines) : ~lines[i].marker
  /\ markers # 0 => first <= Len(lines) /\ lines[Len(lines)].marker

Progress ==
  /\ first - 1 <= Left
  /\ writer.state # "IDLE" => writer.line.n \in first .. Left /\ ~lines[writer.line.n].marker
  /\ status.pending \/ status.set \/ status.valid => claimed >= first
  /\ status.set \/ status.valid => writer.state = "IDLE"
  /\ claimed >= first => lines[claimed].marker
  /\ first <= Left /\ lines[Left].marker => claimed = Left
  /\ busy /\ claimed = Left /\ first <= Left => status.pending

(* What the surfaces, the answers and the masks hold of the pictures.       *)
Pictures ==
  /\ pictures \in Seq(Surfaces)
  /\ Len(pictures) = Len(lines)
  /\ \A n \in first .. Len(lines) : pictures[n] = Drawn(PictureAfter(n - 1), lines[n], n)

Late(n, h) == <<lines[n].place, h>> \in early
Hits(n, h) == h \in lines[n].cover /\ lines[n].z > PictureAfter(n - 1)[lines[n].place].depth[h]

Depths ==
  \A h \in Halves :
    LET found(a) == ~Late(a.n, h) => a.depth = PictureAfter(a.n - 1)[lines[a.n].place].depth[h]
    IN  /\ \A i \in DOMAIN reader[h].resp.items : found(reader[h].resp.items[i])
        /\ \A i \in Mine(h) : found(owed[i])

Masks ==
  \A h \in Halves :
    /\ \A i \in DOMAIN maskq.items :
         LET m == maskq.items[i]
         IN  h \in lines[m.z].cover /\ ~Late(m.z, h) => (h \in m.pass <=> Hits(m.z, h))
    /\ \A i \in DOMAIN data.items :
         LET d == data.items[i] IN ~Late(d.n, h) => (h \in d.mask <=> Hits(d.n, h))

(* The colour planes and depths the writer has written of its line.         *)
Done(c) ==
  CASE c = "RED"   -> writer.state # "RED"
    [] c = "GREEN" -> writer.state \notin {"RED", "GREEN"}
    [] c = "BLUE"  -> writer.state \notin {"RED", "GREEN", "BLUE"}
Deep(h) == h = "lo" /\ writer.state = "DEPTH2"
BeingWritten(p, h) ==
  writer.state # "IDLE" /\ lines[writer.line.n].place = p /\ h \in writer.line.mask

Stored(p, h) ==
  LET w == writer.line.n
      q == PictureAfter(Left)
  IN  IF BeingWritten(p, h)
      THEN /\ q[p].depth[h] = lines[w].z /\ \A c \in Colors : q[p].color[c][h] = w
           /\ \A c \in Colors : Done(c) => mem[p].color[c][h] = w
           /\ Deep(h) => mem[p].depth[h] = lines[w].z
      ELSE /\ mem[p].depth[h] = q[p].depth[h]
           /\ \A c \in Colors : mem[p].color[c][h] = q[p].color[c][h]

Memories ==
  /\ writer.state = "DEPTH1" => "lo" \in writer.line.mask
  /\ writer.state = "DEPTH2" => "hi" \in writer.line.mask
  /\ writer.state = "BLUE" \/ writer.state = "RED" \/ writer.state = "GREEN" => writer.line.mask # {}
  /\ \A p \in Place, h \in Halves : <<p, h>> \notin early => Stored(p, h)

IInv == Types /\ Lanes /\ Output /\ Readers /\ Status
FInv == Frame /\ Progress /\ Pictures /\ Depths /\ Masks /\ Memories

-------------------------------------------------------------------------------
(* A lane that holds the last lines accepted keeps doing so.                 *)
LEMMA EndsStep ==
  ASSUME NEW s, NEW r, NEW b, NEW put, NEW last \in Nat,
         Queue(Nat, s, r, b, put), Ends(s, last), Len(put) = 1 => put[1] = last + 1
  PROVE  Ends(r, last + Len(put))
<1> DEFINE n == Len(s)  k == Len(put)  m == n - b + k
<1>1. /\ n \in Nat /\ k \in {0, 1} /\ b \in {0, 1} /\ b <= n
      /\ DOMAIN s = 1 .. n /\ DOMAIN r = 1 .. m /\ Len(r) = m
      /\ \A i \in 1 .. n - b : r[i] = s[i + b]
      /\ k = 1 => r[n - b + 1] = put[1]
  BY DEF Queue
<1>2. \A i \in 1 .. n : s[i] = last - n + i  BY <1>1 DEF Ends
<1>3. k = 1 => put[1] = last + 1  OBVIOUS
<1> HIDE DEF n, k
<1>4. ASSUME NEW i \in 1 .. m PROVE r[i] = (last + k) - m + i
  <2>1. CASE i <= n - b
    <3>1. r[i] = s[i + b] /\ i + b \in 1 .. n  BY <1>1, <2>1
    <3>2. s[i + b] = last - n + (i + b)  BY <1>2, <3>1
    <3> QED  BY <1>1, <3>1, <3>2
  <2>2. CASE ~(i <= n - b)
    <3>1. k = 1 /\ i = n - b + 1  BY <1>1, <2>2
    <3>2. r[i] = last + 1  BY <1>1, <1>3, <3>1
    <3> QED  BY <1>1, <3>1, <3>2
  <2> QED  BY <2>1, <2>2
<1>5. \A i \in DOMAIN r : r[i] = (last + k) - Len(r) + i  BY <1>1, <1>4
<1> QED  BY <1>5 DEF Ends, k

(* The line accepted, if there is one.                                       *)
Lane(in) == IF in = <<>> THEN <<>> ELSE <<Len(lines) + 1>>

(* The lines grow by the one accepted.                                       *)
LEMMA Arrivals ==
  ASSUME Types, NEW in \in Arrival, lines' = lines \o in
  PROVE  /\ in # <<>> => in = <<in[1]>> /\ in[1] \in Offered /\ Len(in) = 1
         /\ in \in Seq(Line \cup {MarkerLine}) /\ Len(in) \in {0, 1}
         /\ lines' \in Seq(Line \cup {MarkerLine})
         /\ Len(lines) \in Nat /\ Len(lines') = Len(lines) + Len(in)
         /\ \A i \in 1 .. Len(lines) : lines'[i] = lines[i] /\ lines[i] \in Line \cup {MarkerLine}
         /\ in # <<>> => lines'[Len(lines) + 1] = in[1]
         /\ Lane(in) \in Seq(Nat) /\ Len(Lane(in)) = Len(in)
         /\ in # <<>> => Lane(in)[1] = Len(lines) + 1
<1>1. Offered \subseteq Line \cup {MarkerLine}  BY DEF Offered
<1>2. lines \in Seq(Line \cup {MarkerLine}) /\ Len(lines) \in Nat  BY Lengths DEF Types
<1>3. \A i \in 1 .. Len(lines) : lines[i] \in Line \cup {MarkerLine}  BY <1>2, ElementOfSeq
<1>4. CASE in = <<>>
  <2>1. Lane(in) = <<>> /\ Len(in) = 0 /\ lines \o in = lines  BY <1>2, <1>4, EmptySeq, ConcatEmptySeq DEF Lane
  <2>2. <<>> \in Seq(Nat) /\ <<>> \in Seq(Line \cup {MarkerLine}) /\ Len(<<>>) = 0  BY EmptySeq
  <2>3. lines' = lines /\ Len(lines') = Len(lines) + Len(in)  BY <1>2, <2>1
  <2>4. Lane(in) \in Seq(Nat) /\ Len(Lane(in)) = Len(in)  BY <1>4, <2>1, <2>2
  <2>5. in \in Seq(Line \cup {MarkerLine}) /\ Len(in) \in {0, 1}  BY <1>4, <2>1, <2>2
  <2>6. lines' \in Seq(Line \cup {MarkerLine}) /\ \A i \in 1 .. Len(lines) : lines'[i] = lines[i]
    BY <1>2, <2>3
  <2> QED  BY <1>2, <1>3, <1>4, <2>3, <2>4, <2>5, <2>6
<1>5. CASE in # <<>>
  <2>1. PICK l \in Offered : in = <<l>>  BY <1>5 DEF Arrival
  <2>2. in = <<in[1]>> /\ in[1] = l /\ Len(in) = 1  BY <2>1
  <2>3. in \in Seq(Line \cup {MarkerLine})  BY <1>1, <2>1
  <2>4. /\ lines \o in \in Seq(Line \cup {MarkerLine})
        /\ Len(lines \o in) = Len(lines) + Len(in)
        /\ \A i \in 1 .. Len(lines) + Len(in) :
             (lines \o in)[i] = IF i <= Len(lines) THEN lines[i] ELSE in[i - Len(lines)]
    BY <1>2, <2>3, ConcatProperties
  <2>5. Len(lines) + 1 \in Nat /\ (Len(lines) + 1) - Len(lines) = 1  BY <1>2
  <2>6. Lane(in) = <<Len(lines) + 1>>  BY <1>5 DEF Lane
  <2>7. Lane(in) \in Seq(Nat) /\ Len(Lane(in)) = 1 /\ Lane(in)[1] = Len(lines) + 1  BY <2>5, <2>6
  <2>8. (lines \o in)[Len(lines) + 1] = in[1]  BY <1>2, <2>2, <2>4
  <2>9. \A i \in 1 .. Len(lines) : (lines \o in)[i] = lines[i]  BY <1>2, <2>2, <2>4
  <2> QED  BY <1>2, <1>3, <1>5, <2>1, <2>2, <2>3, <2>4, <2>7, <2>8, <2>9
<1> QED  BY <1>4, <1>5

(* What happens on an edge, in one record.                                   *)
Inputs == [in: Arrival, grant: BOOLEAN, answered: BOOLEAN, colored: BOOLEAN, step: BOOLEAN]
Clocked(e) == e \in Inputs /\ BackClock(e.in, e.grant, e.answered, e.colored, e.step)

Port(e) == IF e.grant THEN granted ELSE Nobody
Fire(e) == depth_fire(e.colored)
Out(e) == output_fire(e.colored)
Gone == data.valid_q /\ status_ready
Took(e, h) == Fire(e) /\ ~token(h).zero
Starts(e) == e.step /\ sw = "clear"
Covers(e, h) == e.in # <<>> /\ h \in e.in[1].cover
MaskPut(e) == IF Fire(e) THEN <<[z |-> OutData(zq), pass |-> pass_mask]>> ELSE <<>>
LinePut(e) == IF Out(e) THEN <<joined_line>> ELSE <<>>
TokenPut(e, h) ==
  IF e.in = <<>> THEN <<>> ELSE <<[n |-> Len(lines) + 1, zero |-> h \notin e.in[1].cover]>>
OwedPut(e) == IF Port(e) = Nobody THEN <<>> ELSE <<NewAnswer(Port(e))>>

(* Every step of the back end is such an edge.                               *)
LEMMA EveryStep ==
  ASSUME BackNext
  PROVE  \E e : Clocked(e)
<1>1. PICK in \in Arrival, grant \in BOOLEAN, answered \in BOOLEAN, colored \in BOOLEAN, step \in BOOLEAN :
        BackClock(in, grant, answered, colored, step)
  BY DEF BackNext
<1> DEFINE e == [in |-> in, grant |-> grant, answered |-> answered, colored |-> colored, step |-> step]
<1>2. e \in Inputs  BY DEF Inputs
<1>3. e.in = in /\ e.grant = grant /\ e.answered = answered /\ e.colored = colored /\ e.step = step
  OBVIOUS
<1>4. BackClock(e.in, e.grant, e.answered, e.colored, e.step)
  BY <1>1, Zenon
<1> QED  BY <1>2, <1>4 DEF Clocked

(* The updates of an edge, one per register.                                 *)
LEMMA Updates ==
  ASSUME NEW e, Clocked(e)
  PROVE  /\ e.in \in Arrival /\ e.grant \in BOOLEAN /\ e.answered \in BOOLEAN
         /\ e.colored \in BOOLEAN /\ e.step \in BOOLEAN
         /\ lines' = lines \o e.in
         /\ e.colored => color # <<>>
         /\ e.answered => owed # <<>>
         /\ e.grant => someone_requests
         /\ zq' = FifoEdge(zq, Lane(e.in), Fire(e))
         /\ meta' = FifoEdge(meta, Lane(e.in), Out(e))
         /\ color' = Shifted(color, Out(e), Lane(e.in))
         /\ maskq' = FifoEdge(maskq, MaskPut(e), maskq.valid_q /\ depth_ready(e.colored))
         /\ data' = FifoEdge(data, LinePut(e), Gone)
         /\ owed' = Shifted(owed, e.answered, OwedPut(e))
         /\ e.in # <<>> => e.in[1] \in Offered /\ worker_ready(e.in[1], Port(e), e.colored)
<1>1. e \in Inputs /\ BackClock(e.in, e.grant, e.answered, e.colored, e.step)  BY DEF Clocked
<1>2. /\ e.in \in Arrival /\ e.grant \in BOOLEAN /\ e.answered \in BOOLEAN
      /\ e.colored \in BOOLEAN /\ e.step \in BOOLEAN
  BY <1>1 DEF Inputs
<1>3. /\ lines' = lines \o e.in
      /\ e.colored => color # <<>>
      /\ e.answered => owed # <<>>
      /\ e.grant => someone_requests
  BY <1>1 DEF BackClock, History
<1>4. /\ zq' = FifoEdge(zq, Lane(e.in), Fire(e))
      /\ meta' = FifoEdge(meta, Lane(e.in), Out(e))
      /\ color' = Shifted(color, Out(e), Lane(e.in))
  BY <1>1 DEF BackClock, OutputFifo, Lane, Fire, Out, Shifted
<1>5. maskq' = FifoEdge(maskq, MaskPut(e), maskq.valid_q /\ depth_ready(e.colored))
  BY <1>1 DEF BackClock, DepthMask, MaskPut, Fire
<1>6. data' = FifoEdge(data, LinePut(e), Gone)
  BY <1>1 DEF BackClock, OutputFifo, LinePut, Out, Gone
<1>7. owed' = Shifted(owed, e.answered, OwedPut(e))
  BY <1>1 DEF BackClock, Memory, OwedPut, Port, Shifted
<1>8. e.in # <<>> => e.in[1] \in Offered /\ worker_ready(e.in[1], Port(e), e.colored)
  BY <1>1 DEF BackClock, Port
<1> QED  BY <1>2, <1>3, <1>4, <1>5, <1>6, <1>7, <1>8

(* The updates of a depth reader.                                            *)
LEMMA ReaderUpdate ==
  ASSUME NEW e, Clocked(e), NEW h \in Halves
  PROVE  /\ reader' = [g \in Halves |-> reader'[g]]
         /\ reader'[h] = [req |-> reader'[h].req, tokens |-> reader'[h].tokens, resp |-> reader'[h].resp]
         /\ reader'[h].tokens = Shifted(reader[h].tokens, Fire(e), TokenPut(e, h))
         /\ reader'[h].req = IF Covers(e, h) THEN Len(lines) + 1
                             ELSE IF Port(e) = h THEN NoNumber ELSE reader[h].req
         /\ reader'[h].resp = FifoEdge(reader[h].resp, Answered(h, e.answered), Took(e, h))
<1> DEFINE asked == IF e.in = <<>> THEN <<>> ELSE <<[n |-> Len(lines) + 1, cover |-> e.in[1].cover]>>
<1>1. reader' = [g \in Halves |-> DepthReader(g, asked, Port(e) = g, Fire(e), Answered(g, e.answered))]
  BY DEF Clocked, BackClock, Port, Fire
<1>2. reader'[h] = DepthReader(h, asked, Port(e) = h, Fire(e), Answered(h, e.answered))
  BY <1>1
<1>3. /\ asked # <<>> <=> e.in # <<>>
      /\ e.in # <<>> => asked[1].n = Len(lines) + 1 /\ asked[1].cover = e.in[1].cover
  OBVIOUS
<1> HIDE DEF asked
<1>4. (asked # <<>> /\ h \in asked[1].cover) <=> Covers(e, h)  BY <1>3 DEF Covers
<1>5. reader'[h].req = IF Covers(e, h) THEN Len(lines) + 1
                       ELSE IF Port(e) = h THEN NoNumber ELSE reader[h].req
  BY <1>2, <1>3, <1>4 DEF DepthReader, Covers
<1>6. reader'[h].resp = FifoEdge(reader[h].resp, Answered(h, e.answered), Took(e, h))
  BY <1>2 DEF DepthReader, Took
<1>7. reader'[h].tokens = Shifted(reader[h].tokens, Fire(e), NewToken(h, asked))
  BY <1>2 DEF DepthReader, Shifted
<1>8. NewToken(h, asked) = TokenPut(e, h)
  <2>1. CASE e.in = <<>>  BY <1>3, <2>1 DEF NewToken, TokenPut
  <2>2. CASE e.in # <<>>
    <3>1. NewToken(h, asked) = <<[n |-> asked[1].n, zero |-> h \notin asked[1].cover]>>
      BY <1>3, <2>2 DEF NewToken
    <3> QED  BY <1>3, <2>2, <3>1 DEF TokenPut
  <2> QED  BY <2>1, <2>2
<1>9. reader' = [g \in Halves |-> reader'[g]]  BY <1>1
<1>10. reader'[h] = [req |-> reader'[h].req, tokens |-> reader'[h].tokens, resp |-> reader'[h].resp]
  BY <1>2 DEF DepthReader
<1> QED  BY <1>5, <1>6, <1>7, <1>8, <1>9, <1>10

(* What is taken is there.                                                   *)
LEMMA Handshakes ==
  ASSUME Types, NEW e, Clocked(e)
  PROVE  /\ Fire(e) \in BOOLEAN /\ Out(e) \in BOOLEAN /\ Gone \in BOOLEAN
         /\ Fire(e) => zq.valid_q /\ \A h \in Halves : depth_valid(h)
         /\ Out(e) => maskq.valid_q /\ meta.valid_q /\ color # <<>>
         /\ (maskq.valid_q /\ depth_ready(e.colored)) = Out(e)
         /\ Gone => data.valid_q
         /\ \A h \in Halves : Took(e, h) \in BOOLEAN /\ (Took(e, h) => reader[h].resp.valid_q)
<1>1. zq.valid_q \in BOOLEAN /\ meta.valid_q \in BOOLEAN /\ maskq.valid_q \in BOOLEAN /\ data.valid_q \in BOOLEAN
  BY DEF Types, Fifos
<1>2. e.colored => color # <<>>  BY Updates
<1>3. Fire(e) \in BOOLEAN /\ (Fire(e) => zq.valid_q /\ \A h \in Halves : depth_valid(h))
  BY DEF Fire, depth_fire, Halves
<1>4. Out(e) \in BOOLEAN /\ (Out(e) => maskq.valid_q /\ meta.valid_q /\ color # <<>>)
  BY <1>2 DEF Out, output_fire, joined
<1>5. (maskq.valid_q /\ depth_ready(e.colored)) = Out(e)
  BY DEF Out, output_fire, joined, depth_ready
<1>6. Gone \in BOOLEAN /\ (Gone => data.valid_q)  BY DEF Gone
<1>7. ASSUME NEW h \in Halves PROVE Took(e, h) \in BOOLEAN /\ (Took(e, h) => reader[h].resp.valid_q)
  BY <1>3 DEF Took, depth_valid
<1> QED  BY <1>1, <1>3, <1>4, <1>5, <1>6, <1>7

(* A lane: what has come and gone on an edge.                                *)
LEMMA LaneMoves ==
  ASSUME Types, NEW e, Clocked(e)
  PROVE  /\ zq' \in Fifos(Nat) /\ Queue(Nat, zq.items, zq'.items, By(Fire(e)), Lane(e.in))
         /\ meta' \in Fifos(Nat) /\ Queue(Nat, meta.items, meta'.items, By(Out(e)), Lane(e.in))
         /\ Queue(Nat, color, color', By(Out(e)), Lane(e.in))
<1>1. Lane(e.in) \in Seq(Nat) /\ Len(Lane(e.in)) <= 1
  <2>1. e.in \in Arrival /\ lines' = lines \o e.in  BY Updates
  <2>2. Lane(e.in) \in Seq(Nat) /\ Len(Lane(e.in)) = Len(e.in) /\ Len(e.in) \in {0, 1}  BY <2>1, Arrivals
  <2> DEFINE k == Len(Lane(e.in))
  <2>3. k \in {0, 1}  BY <2>2
  <2> HIDE DEF k
  <2>4. k <= 1  BY <2>3
  <2> QED  BY <2>2, <2>4 DEF k
<1>2. /\ Fire(e) \in BOOLEAN /\ Out(e) \in BOOLEAN
      /\ Fire(e) => zq.valid_q
      /\ Out(e) => meta.valid_q /\ color # <<>>
  BY Handshakes
<1>3. zq \in Fifos(Nat) /\ meta \in Fifos(Nat) /\ color \in Seq(Nat)  BY DEF Types
<1>4. /\ zq' = FifoEdge(zq, Lane(e.in), Fire(e))
      /\ meta' = FifoEdge(meta, Lane(e.in), Out(e))
      /\ color' = Shifted(color, Out(e), Lane(e.in))
  BY Updates
<1>5. /\ FifoEdge(zq, Lane(e.in), Fire(e)) \in Fifos(Nat)
      /\ Queue(Nat, zq.items, FifoEdge(zq, Lane(e.in), Fire(e)).items, By(Fire(e)), Lane(e.in))
  BY <1>1, <1>2, <1>3, FifoStep
<1>6. /\ FifoEdge(meta, Lane(e.in), Out(e)) \in Fifos(Nat)
      /\ Queue(Nat, meta.items, FifoEdge(meta, Lane(e.in), Out(e)).items, By(Out(e)), Lane(e.in))
  BY <1>1, <1>2, <1>3, FifoStep
<1>7. Queue(Nat, color, Shifted(color, Out(e), Lane(e.in)), By(Out(e)), Lane(e.in))
  BY <1>1, <1>2, <1>3, QueueStep
<1> QED  BY <1>4, <1>5, <1>6, <1>7

(* The FIFO of depth_mask takes the oldest line of the depth lane.           *)
LEMMA MaskMoves ==
  ASSUME Types, NEW e, Clocked(e)
  PROVE  /\ maskq' \in Fifos(Masked)
         /\ Queue(Masked, maskq.items, maskq'.items, By(Out(e)), MaskPut(e))
         /\ Len(MaskPut(e)) = By(Fire(e))
         /\ Fire(e) => /\ MaskPut(e)[1] = [z |-> OutData(zq), pass |-> pass_mask]
                       /\ OutData(zq) = zq.items[1] /\ zq.items[1] \in Nat
<1>1. Fire(e) \in BOOLEAN /\ (Fire(e) => zq.valid_q)  BY Handshakes
<1>2. zq \in Fifos(Nat) /\ zq.items \in Seq(Nat) /\ (zq.valid_q => zq.items # <<>>)  BY DEF Types, Fifos
<1>3. Fire(e) => OutData(zq) = zq.items[1] /\ zq.items[1] \in Nat
  BY <1>1, <1>2, HeadTailProperties DEF OutData
<1>4. pass_mask \in SUBSET Halves  BY DEF pass_mask
<1>5. /\ MaskPut(e) \in Seq(Masked) /\ Len(MaskPut(e)) = By(Fire(e))
      /\ Fire(e) => MaskPut(e)[1] = [z |-> OutData(zq), pass |-> pass_mask]
  <2>1. CASE Fire(e)
    <3> DEFINE new == [z |-> OutData(zq), pass |-> pass_mask]
    <3>1. new \in Masked  BY <1>3, <1>4, <2>1 DEF Masked
    <3>2. MaskPut(e) = <<new>> /\ By(Fire(e)) = 1  BY <2>1 DEF MaskPut, By
    <3> HIDE DEF new
    <3>3. MaskPut(e) \in Seq(Masked) /\ Len(MaskPut(e)) = 1 /\ MaskPut(e)[1] = new  BY <3>1, <3>2
    <3> QED  BY <3>2, <3>3 DEF new
  <2>2. CASE ~Fire(e)
    <3>1. MaskPut(e) = <<>> /\ By(Fire(e)) = 0  BY <2>2 DEF MaskPut, By
    <3> QED  BY <2>2, <3>1, EmptySeq
  <2> QED  BY <2>1, <2>2
<1>6. maskq' = FifoEdge(maskq, MaskPut(e), Out(e))
  <2>1. maskq' = FifoEdge(maskq, MaskPut(e), maskq.valid_q /\ depth_ready(e.colored))  BY Updates
  <2>2. (maskq.valid_q /\ depth_ready(e.colored)) = Out(e)  BY Handshakes
  <2> QED  BY <2>1, <2>2
<1>7. Out(e) \in BOOLEAN /\ (Out(e) => maskq.valid_q) /\ maskq \in Fifos(Masked) /\ Len(MaskPut(e)) <= 1
  <2>1. Out(e) \in BOOLEAN /\ (Out(e) => maskq.valid_q)  BY Handshakes
  <2>2. By(Fire(e)) \in {0, 1}  BY DEF By
  <2> QED  BY <1>5, <2>1, <2>2 DEF Types
<1>8. /\ FifoEdge(maskq, MaskPut(e), Out(e)) \in Fifos(Masked)
      /\ Queue(Masked, maskq.items, FifoEdge(maskq, MaskPut(e), Out(e)).items, By(Out(e)), MaskPut(e))
  BY <1>5, <1>7, FifoStep
<1> QED  BY <1>3, <1>5, <1>6, <1>8

(* The output FIFO takes the oldest line of all lanes.                       *)
LEMMA LineMoves ==
  ASSUME Types, NEW e, Clocked(e)
  PROVE  /\ data' \in Fifos(OutLine)
         /\ Queue(OutLine, data.items, data'.items, By(Gone), LinePut(e))
         /\ Len(LinePut(e)) = By(Out(e))
         /\ Out(e) => /\ LinePut(e)[1] = joined_line
                      /\ OutData(meta) = meta.items[1] /\ Head(color) = color[1]
                      /\ OutData(maskq) = maskq.items[1] /\ maskq.items[1] \in Masked
<1>1. /\ Out(e) \in BOOLEAN /\ Gone \in BOOLEAN /\ (Gone => data.valid_q)
      /\ Out(e) => maskq.valid_q /\ meta.valid_q /\ color # <<>>
  BY Handshakes
<1>2. /\ meta.items \in Seq(Nat) /\ (meta.valid_q => meta.items # <<>>) /\ color \in Seq(Nat)
      /\ maskq.items \in Seq(Masked) /\ (maskq.valid_q => maskq.items # <<>>)
      /\ data \in Fifos(OutLine)
  BY DEF Types, Fifos
<1>3. Out(e) => /\ OutData(meta) = meta.items[1] /\ meta.items[1] \in Nat
                /\ Head(color) = color[1] /\ color[1] \in Nat
                /\ OutData(maskq) = maskq.items[1] /\ maskq.items[1] \in Masked
  BY <1>1, <1>2, HeadTailProperties DEF OutData
<1>4. Out(e) => joined_line \in OutLine
  <2> SUFFICES ASSUME Out(e) PROVE joined_line \in OutLine
    OBVIOUS
  <2>1. OutData(maskq).z \in Nat /\ OutData(maskq).pass \in SUBSET Halves  BY <1>3 DEF Masked
  <2>2. lines[OutData(meta)].cover \cap OutData(maskq).pass \in SUBSET Halves  BY <2>1
  <2> QED  BY <1>3, <2>1, <2>2 DEF joined_line, OutLine
<1>5. /\ LinePut(e) \in Seq(OutLine) /\ Len(LinePut(e)) = By(Out(e)) /\ (Out(e) => LinePut(e)[1] = joined_line)
  <2>1. CASE Out(e)
    <3>1. LinePut(e) = <<joined_line>> /\ By(Out(e)) = 1  BY <2>1 DEF LinePut, By
    <3>2. LinePut(e) \in Seq(OutLine) /\ Len(LinePut(e)) = 1 /\ LinePut(e)[1] = joined_line
      BY <1>4, <2>1, <3>1
    <3> QED  BY <3>1, <3>2
  <2>2. CASE ~Out(e)
    <3>1. LinePut(e) = <<>> /\ By(Out(e)) = 0  BY <2>2 DEF LinePut, By
    <3> QED  BY <2>2, <3>1, EmptySeq
  <2> QED  BY <2>1, <2>2
<1>6. Len(LinePut(e)) <= 1
  <2>1. By(Out(e)) \in {0, 1}  BY DEF By
  <2> QED  BY <1>5, <2>1
<1>7. /\ FifoEdge(data, LinePut(e), Gone) \in Fifos(OutLine)
      /\ Queue(OutLine, data.items, FifoEdge(data, LinePut(e), Gone).items, By(Gone), LinePut(e))
  BY <1>1, <1>2, <1>5, <1>6, FifoStep
<1>8. data' = FifoEdge(data, LinePut(e), Gone)  BY Updates
<1> QED  BY <1>3, <1>5, <1>7, <1>8

(* The lines the back end has been sent.                                     *)
LEMMA Accepted ==
  ASSUME Types, NEW e, Clocked(e)
  PROVE  /\ lines' \in Seq(Line \cup {MarkerLine})
         /\ Len(lines) \in Nat /\ Len(e.in) \in {0, 1} /\ Len(lines') = Len(lines) + Len(e.in)
         /\ Len(Lane(e.in)) = Len(e.in) /\ (e.in # <<>> <=> Len(e.in) = 1)
         /\ \A i \in 1 .. Len(lines) : lines'[i] = lines[i] /\ lines[i] \in Line \cup {MarkerLine}
         /\ Len(e.in) = 1 => /\ Lane(e.in)[1] = Len(lines) + 1
                             /\ lines'[Len(lines) + 1] = e.in[1] /\ e.in[1] \in Line \cup {MarkerLine}
                             /\ e.in = <<e.in[1]>>
<1>1. e.in \in Arrival /\ lines' = lines \o e.in  BY Updates
<1>2. /\ e.in # <<>> => e.in = <<e.in[1]>> /\ e.in[1] \in Offered /\ Len(e.in) = 1
      /\ Len(e.in) \in {0, 1}
      /\ lines' \in Seq(Line \cup {MarkerLine})
      /\ Len(lines) \in Nat /\ Len(lines') = Len(lines) + Len(e.in)
      /\ \A i \in 1 .. Len(lines) : lines'[i] = lines[i] /\ lines[i] \in Line \cup {MarkerLine}
      /\ e.in # <<>> => lines'[Len(lines) + 1] = e.in[1]
      /\ Len(Lane(e.in)) = Len(e.in)
      /\ e.in # <<>> => Lane(e.in)[1] = Len(lines) + 1
  BY <1>1, Arrivals
<1>3. e.in = <<>> => Len(e.in) = 0  BY EmptySeq
<1>4. e.in # <<>> <=> Len(e.in) = 1  BY <1>2, <1>3
<1>5. Offered \subseteq Line \cup {MarkerLine}  BY DEF Offered
<1> QED  BY <1>2, <1>4, <1>5

(* The tokens of a depth reader, one per line it has taken.                  *)
LEMMA TokenMoves ==
  ASSUME Types, Lanes, NEW e, Clocked(e), NEW h \in Halves
  PROVE  /\ Queue(Token, reader[h].tokens, reader'[h].tokens, By(Fire(e)), TokenPut(e, h))
         /\ Len(TokenPut(e, h)) = Len(e.in)
         /\ Len(e.in) = 1 => /\ TokenPut(e, h)[1].n = Len(lines) + 1
                             /\ TokenPut(e, h)[1].zero <=> h \notin lines'[Len(lines) + 1].cover
<1> DEFINE L == Len(lines)  k == Len(e.in)  f == By(Fire(e))  Q == Len(zq.items)
           s == reader[h].tokens  r == reader'[h].tokens  put == TokenPut(e, h)
<1>1. L \in Nat /\ k \in {0, 1}  BY Accepted
<1>2. s \in Seq(Token) /\ Len(s) = Q /\ Q \in Nat /\ f <= Q
  <2>1. s \in Seq(Token)  BY DEF Types, Reader
  <2>2. Q \in Nat /\ f <= Q  BY LaneMoves DEF Queue
  <2> QED  BY <2>1, <2>2 DEF Lanes
<1>3. /\ put \in Seq(Token) /\ Len(put) = k
      /\ k = 1 => put[1].n = L + 1 /\ (put[1].zero <=> h \notin lines'[L + 1].cover)
  <2>1. CASE e.in = <<>>
    <3>1. put = <<>> /\ k = 0  BY <1>1, <2>1, Accepted DEF TokenPut
    <3> QED  BY <3>1, EmptySeq
  <2>2. CASE e.in # <<>>
    <3> DEFINE t == [n |-> L + 1, zero |-> h \notin e.in[1].cover]
    <3>1. put = <<t>> /\ k = 1 /\ lines'[L + 1] = e.in[1]  BY <2>2, Accepted DEF TokenPut
    <3>2. t \in Token /\ t.n = L + 1 /\ (t.zero <=> h \notin e.in[1].cover)
      <4>1. L + 1 \in Nat /\ (h \notin e.in[1].cover) \in BOOLEAN  BY <1>1
      <4> QED  BY <4>1 DEF Token
    <3> HIDE DEF t
    <3>3. put \in Seq(Token) /\ Len(put) = 1 /\ put[1] = t  BY <3>1, <3>2
    <3> QED  BY <3>1, <3>2, <3>3
  <2> QED  BY <2>1, <2>2
<1>4. r = Shifted(s, Fire(e), put)  BY ReaderUpdate
<1>5. Fire(e) \in BOOLEAN /\ (Fire(e) => s # <<>>)
  <2>1. Fire(e) \in BOOLEAN  BY Handshakes
  <2>2. Fire(e) => Q >= 1  BY <1>2 DEF By
  <2> QED  BY <1>2, <2>1, <2>2, Lengths
<1>6. Len(put) <= 1
  <2> HIDE DEF k, put
  <2>1. k \in {0, 1} /\ Len(put) = k  BY <1>1, <1>3
  <2> QED  BY <2>1
<1>7. Queue(Token, s, Shifted(s, Fire(e), put), By(Fire(e)), put)
  <2>1. put \in Seq(Token) /\ s \in Seq(Token)  BY <1>2, <1>3
  <2> QED  BY <1>5, <1>6, <2>1, QueueStep
<1> QED  BY <1>3, <1>4, <1>7

(* An edge keeps the lanes in step.                                          *)
LEMMA LanesKeep ==
  ASSUME Types, Lanes, NEW e, Clocked(e)
  PROVE  Lanes'
<1> DEFINE L == Len(lines)  k == Len(e.in)  f == By(Fire(e))  o == By(Out(e))
           Q == Len(zq.items)  M == Len(meta.items)  K == Len(maskq.items)
           lane == Lane(e.in)
<1>1. /\ L \in Nat /\ k \in {0, 1} /\ Len(lines') = L + k /\ Len(lane) = k /\ (k = 1 => lane[1] = L + 1)
      /\ \A i \in 1 .. L : lines'[i] = lines[i]
  BY Accepted
<1>2. /\ Queue(Nat, zq.items, zq'.items, f, lane)
      /\ Queue(Nat, meta.items, meta'.items, o, lane)
      /\ Queue(Nat, color, color', o, lane)
  BY LaneMoves
<1>3. /\ Q \in Nat /\ M \in Nat /\ K \in Nat /\ f \in {0, 1} /\ o \in {0, 1}
      /\ K + Q = M /\ M <= L /\ Len(color) = M /\ f <= Q /\ o <= M /\ o <= K
  <2>1. K \in Nat /\ o <= K  BY MaskMoves DEF Queue
  <2>2. Q \in Nat /\ M \in Nat /\ f \in {0, 1} /\ o \in {0, 1} /\ f <= Q /\ o <= M
    BY <1>2 DEF Queue
  <2> QED  BY <2>1, <2>2 DEF Lanes
<1> HIDE DEF lane
<1>4. /\ Len(zq'.items) = Q - f + k /\ Len(meta'.items) = M - o + k /\ Len(color') = M - o + k
      /\ Len(zq'.items) \in Nat
  <2>1. Len(zq'.items) = Q - f + k /\ Len(meta'.items) = M - o + k /\ Len(color') = Len(color) - o + k
    BY <1>1, <1>2 DEF Queue
  <2> QED  BY <1>1, <1>3, <2>1
<1>5. Ends(zq'.items, L + k) /\ Ends(meta'.items, L + k) /\ Ends(color', L + k)
  <2>1. Ends(zq.items, L) /\ Ends(meta.items, L) /\ Ends(color, L)  BY DEF Lanes
  <2>2. Ends(zq'.items, L + Len(lane))  BY <1>1, <1>2, <2>1, EndsStep
  <2>3. Ends(meta'.items, L + Len(lane))  BY <1>1, <1>2, <2>1, EndsStep
  <2>4. Ends(color', L + Len(lane))  BY <1>1, <1>2, <2>1, EndsStep
  <2> QED  BY <1>1, <2>2, <2>3, <2>4
<1>6. /\ Len(maskq'.items) = K - o + f
      /\ \A i \in DOMAIN maskq'.items : maskq'.items[i].z = L - M + o + i
  <2> DEFINE s == maskq.items  r == maskq'.items  put == MaskPut(e)
  <2>1. Queue(Masked, s, r, o, put) /\ Len(put) = f  BY MaskMoves
  <2>2. f = 1 => put[1].z = L - Q + 1
    <3> SUFFICES ASSUME f = 1 PROVE put[1].z = L - Q + 1
      OBVIOUS
    <3>1. Fire(e)  BY DEF By
    <3>2. put[1] = [z |-> OutData(zq), pass |-> pass_mask] /\ OutData(zq) = zq.items[1]
      BY <3>1, MaskMoves
    <3>3. DOMAIN zq.items = 1 .. Q  BY <1>2 DEF Queue
    <3>4. 1 \in DOMAIN zq.items  BY <1>3, <3>3
    <3>5. zq.items[1] = L - Q + 1  BY <3>4 DEF Lanes, Ends
    <3> QED  BY <3>2, <3>5
  <2>3. \A i \in 1 .. K : s[i].z = L - M + i
    <3>1. DOMAIN s = 1 .. K  BY <2>1 DEF Queue
    <3> QED  BY <3>1 DEF Lanes
  <2>4. /\ Len(r) = K - o + f /\ DOMAIN r = 1 .. K - o + f
        /\ \A i \in 1 .. K - o : r[i] = s[i + o]
        /\ f = 1 => r[K - o + 1] = put[1]
    BY <2>1 DEF Queue
  <2> HIDE DEF L, Q, M, K, f, o, k, s, r, put
  <2>5. ASSUME NEW i \in 1 .. K - o + f PROVE r[i].z = L - M + o + i
    <3>1. CASE i <= K - o
      <4>1. r[i] = s[i + o] /\ i + o \in 1 .. K  BY <1>3, <2>4, <3>1
      <4>2. s[i + o].z = L - M + (i + o)  BY <2>3, <4>1
      <4> QED  BY <1>1, <1>3, <4>1, <4>2
    <3>2. CASE ~(i <= K - o)
      <4>1. f = 1 /\ i = K - o + 1  BY <1>3, <3>2
      <4>2. r[i].z = L - Q + 1  BY <2>2, <2>4, <4>1
      <4> QED  BY <1>1, <1>3, <4>1, <4>2
    <3> QED  BY <3>1, <3>2
  <2> QED  BY <2>4, <2>5 DEF r
<1>7. ASSUME NEW h \in Halves
      PROVE  /\ Len(reader'[h].tokens) = Q - f + k
             /\ \A i \in DOMAIN reader'[h].tokens :
                  LET t == reader'[h].tokens[i]
                  IN  t.n = L - Q + f + i /\ (t.zero <=> h \notin lines'[t.n].cover)
  <2> DEFINE s == reader[h].tokens  r == reader'[h].tokens  put == TokenPut(e, h)
  <2>1. s \in Seq(Token) /\ Len(s) = Q /\ DOMAIN s = 1 .. Q
    <3>1. s \in Seq(Token)  BY DEF Types, Reader
    <3> QED  BY <3>1, Lengths DEF Lanes
  <2>2. /\ Len(put) = k
        /\ k = 1 => put[1].n = L + 1 /\ (put[1].zero <=> h \notin lines'[L + 1].cover)
    BY TokenMoves
  <2>3. Queue(Token, s, r, f, put)  BY TokenMoves
  <2>4. /\ Len(r) = Q - f + k /\ DOMAIN r = 1 .. Q - f + k
        /\ \A i \in 1 .. Q - f : r[i] = s[i + f]
        /\ k = 1 => r[Q - f + 1] = put[1]
    BY <2>1, <2>2, <2>3 DEF Queue
  <2>5. \A i \in 1 .. Q : s[i].n = L - Q + i /\ (s[i].zero <=> h \notin lines[s[i].n].cover)
    BY <2>1 DEF Lanes
  <2> HIDE DEF L, Q, M, K, f, o, k, s, r, put
  <2>6. ASSUME NEW i \in 1 .. Q - f + k
        PROVE  r[i].n = L - Q + f + i /\ (r[i].zero <=> h \notin lines'[r[i].n].cover)
    <3>1. CASE i <= Q - f
      <4>1. r[i] = s[i + f] /\ i + f \in 1 .. Q  BY <1>3, <2>4, <3>1
      <4>2. s[i + f].n = L - Q + (i + f) /\ (s[i + f].zero <=> h \notin lines[s[i + f].n].cover)
        BY <2>5, <4>1
      <4>3. L - Q + (i + f) \in 1 .. L  BY <1>1, <1>3, <4>1
      <4>4. lines'[s[i + f].n] = lines[s[i + f].n]  BY <1>1, <4>2, <4>3
      <4>5. L - Q + (i + f) = L - Q + f + i  BY <1>1, <1>3
      <4> QED  BY <4>1, <4>2, <4>4, <4>5
    <3>2. CASE ~(i <= Q - f)
      <4>1. k = 1 /\ i = Q - f + 1  BY <1>1, <1>3, <3>2
      <4>2. r[i].n = L + 1 /\ (r[i].zero <=> h \notin lines'[L + 1].cover)  BY <2>2, <2>4, <4>1
      <4>3. L - Q + f + i = L + 1  BY <1>1, <1>3, <4>1
      <4> QED  BY <4>2, <4>3
    <3> QED  BY <3>1, <3>2
  <2> QED  BY <2>4, <2>6 DEF r
<1> HIDE DEF L, Q, M, K, f, o, k
<1>8. /\ L + k - (M - o + k) = L - M + o /\ L + k - (Q - f + k) = L - Q + f
      /\ M - o + k <= L + k /\ (K - o + f) + (Q - f + k) = M - o + k
  BY <1>1, <1>3
<1>9. /\ Ends(meta'.items, Len(lines')) /\ Ends(zq'.items, Len(lines')) /\ Ends(color', Len(lines'))
      /\ Len(meta'.items) <= Len(lines') /\ Len(color') = Len(meta'.items)
      /\ Len(maskq'.items) + Len(zq'.items) = Len(meta'.items)
  BY <1>1, <1>4, <1>5, <1>6, <1>8
<1>10. \A i \in DOMAIN maskq'.items : maskq'.items[i].z = Len(lines') - Len(meta'.items) + i
  BY <1>1, <1>4, <1>6, <1>8
<1>11. \A h \in Halves :
         /\ Len(reader'[h].tokens) = Len(zq'.items)
         /\ \A i \in DOMAIN reader'[h].tokens :
              LET t == reader'[h].tokens[i]
              IN  t.n = Len(lines') - Len(zq'.items) + i /\ (t.zero <=> h \notin lines'[t.n].cover)
  <2>1. Len(zq'.items) = Q - f + k /\ Len(lines') - Len(zq'.items) = L - Q + f  BY <1>1, <1>4, <1>8
  <2> QED  BY <1>7, <2>1
<1> QED  BY <1>9, <1>10, <1>11 DEF Lanes, Ends

(* The request the memory accepts is one that is presented.                  *)
LEMMA PortFacts ==
  ASSUME Types, NEW e, Clocked(e)
  PROVE  /\ Port(e) \in Ports \cup {Nobody} /\ Nobody \notin Ports /\ "writer" \notin Halves
         /\ Port(e) \in Halves => reader[Port(e)].req # NoNumber
         /\ Port(e) = "writer" => writer.state # "IDLE"
<1>1. Nobody \notin Ports /\ "writer" \notin Halves  BY DEF Nobody, Ports, Halves
<1>2. CASE e.grant
  <2>1. Port(e) = granted /\ someone_requests  BY <1>2, Updates DEF Port
  <2>2. granted \in Ports  BY DEF granted, Ports, Halves
  <2>3. requests(granted)
    <3>1. \E port \in {"lo", "hi", "writer"} : requests(port)  BY <2>1 DEF someone_requests, Halves
    <3> QED  BY <3>1 DEF granted
  <2> QED  BY <1>1, <2>1, <2>2, <2>3 DEF requests, Halves
<1>3. CASE ~e.grant
  <2>1. Port(e) = Nobody  BY <1>3 DEF Port
  <2> QED  BY <1>1, <2>1 DEF Ports
<1> QED  BY <1>2, <1>3

(* A line in the pipeline is one of those sent.                              *)
LEMMA LineTypes ==
  ASSUME NEW l \in Line \cup {MarkerLine}
  PROVE  l.place \in Place /\ l.cover \in SUBSET Halves /\ l.cover # {} /\ l.z \in Nat /\ l.marker \in BOOLEAN
<1>1. Line \subseteq [place: Place, cover: (SUBSET Halves) \ {{}}, z: Nat, marker: BOOLEAN]
  BY LinesAssumption
<1>2. MarkerLine \in [place: Place, cover: (SUBSET Halves) \ {{}}, z: Nat, marker: BOOLEAN]
  BY LinesAssumption
<1>3. l \in [place: Place, cover: (SUBSET Halves) \ {{}}, z: Nat, marker: BOOLEAN]  BY <1>1, <1>2
<1> QED  BY <1>3

(* A read is one of a line still in the depth lane.                          *)
LEMMA ReadsInRange ==
  ASSUME Types, Lanes, NEW h \in Halves, NEW n, Reads(h, n)
  PROVE  /\ n \in 1 .. Len(lines) /\ lines[n] \in Line \cup {MarkerLine} /\ h \in lines[n].cover
         /\ Len(lines) - Len(zq.items) + 1 <= n
<1>1. Len(reader[h].tokens) = Len(zq.items) /\ Len(meta.items) <= Len(lines)
      /\ Len(maskq.items) + Len(zq.items) = Len(meta.items)
  BY DEF Lanes
<1>2. /\ Len(lines) \in Nat /\ Len(zq.items) \in Nat /\ Len(maskq.items) \in Nat /\ Len(meta.items) \in Nat
      /\ DOMAIN lines = 1 .. Len(lines)
  <2>1. /\ lines \in Seq(Line \cup {MarkerLine}) /\ zq.items \in Seq(Nat) /\ maskq.items \in Seq(Masked)
        /\ meta.items \in Seq(Nat)
    BY DEF Types, Fifos
  <2> QED  BY <2>1, Lengths
<1>3. n \in Len(lines) - Len(zq.items) + 1 .. Len(lines) /\ h \in lines[n].cover  BY <1>1 DEF Reads
<1>4. n \in 1 .. Len(lines) /\ Len(lines) - Len(zq.items) + 1 <= n
  <2> DEFINE L == Len(lines)  Q == Len(zq.items)  K == Len(maskq.items)  M == Len(meta.items)
  <2>1. L \in Nat /\ Q \in Nat /\ K \in Nat /\ M \in Nat /\ M <= L /\ K + Q = M  BY <1>1, <1>2
  <2> HIDE DEF L, Q, K, M
  <2>2. n \in L - Q + 1 .. L  BY <1>3 DEF L, Q
  <2>3. n \in 1 .. L /\ L - Q + 1 <= n  BY <2>1, <2>2
  <2> QED  BY <2>3 DEF L, Q
<1>5. lines[n] \in Line \cup {MarkerLine}
  <2>1. lines \in Seq(Line \cup {MarkerLine})  BY DEF Types
  <2> QED  BY <1>4, <2>1, ElementOfSeq
<1> QED  BY <1>3, <1>4, <1>5

(* The surfaces hold numbers.                                                *)
LEMMA SurfaceTypes ==
  ASSUME NEW m \in Surfaces, NEW p \in Place, NEW h \in Halves
  PROVE  m[p].depth[h] \in Nat /\ \A c \in Colors : m[p].color[c][h] \in Nat
BY DEF Surfaces

(* The lines the writer and the requests of the readers are about.           *)
LEMMA NewAnswers ==
  ASSUME Types, Lanes, Output, Readers, NEW e, Clocked(e), Port(e) # Nobody
  PROVE  /\ NewAnswer(Port(e)) \in Answer /\ NewAnswer(Port(e)).to = Port(e)
         /\ Port(e) = "writer" => NewAnswer(Port(e)).n = writer.line.n
         /\ Port(e) \in Halves =>
              /\ NewAnswer(Port(e)).n = reader[Port(e)].req /\ Reads(Port(e), reader[Port(e)].req)
              /\ NewAnswer(Port(e)).depth = mem[lines[reader[Port(e)].req].place].depth[Port(e)]
<1> DEFINE port == Port(e)
<1>1. port \in Ports /\ (port \in Halves => reader[port].req # NoNumber)  BY PortFacts
<1>2. CASE port = "writer"
  <2>1. writer.line.n \in Nat  BY DEF Types, OutLine
  <2>2. NewAnswer(port) = [to |-> port, n |-> writer.line.n, depth |-> 0]  BY <1>2 DEF NewAnswer
  <2>3. port \notin Halves  BY <1>2, PortFacts
  <2> HIDE DEF port
  <2>4. NewAnswer(port) \in Answer /\ NewAnswer(port).to = port /\ NewAnswer(port).n = writer.line.n
    BY <1>1, <2>1, <2>2 DEF Answer
  <2> QED  BY <2>3, <2>4 DEF port
<1>3. CASE port # "writer"
  <2> DEFINE n == reader[port].req  d == mem[lines[n].place].depth[port]
  <2>1. port \in Halves  BY <1>1, <1>3 DEF Ports
  <2>2. Reads(port, n)  BY <1>1, <2>1 DEF Readers, ReadsAreTokens
  <2>3. NewAnswer(port) = [to |-> port, n |-> n, depth |-> d]  BY <1>3 DEF NewAnswer
  <2>4. n \in 1 .. Len(lines) /\ lines[n] \in Line \cup {MarkerLine}  BY <2>1, <2>2, ReadsInRange
  <2>5. lines[n].place \in Place  BY <2>4, LineTypes
  <2>6. mem \in Surfaces  BY DEF Types
  <2>7. d \in Nat  BY <2>1, <2>5, <2>6, SurfaceTypes
  <2> HIDE DEF port, n, d
  <2>8. n \in Nat
    <3>1. reader[port].req \in Nat  BY <2>1 DEF Types, Reader
    <3> QED  BY <3>1 DEF n
  <2>9. NewAnswer(port) \in Answer /\ NewAnswer(port).to = port /\ NewAnswer(port).n = n /\ NewAnswer(port).depth = d
    BY <1>1, <2>3, <2>7, <2>8 DEF Answer
  <2> QED  BY <1>3, <2>1, <2>2, <2>9 DEF port, n, d
<1> QED  BY <1>2, <1>3

(* The answers owed are a queue too: the request granted joins it.           *)
LEMMA OwedMoves ==
  ASSUME Types, Lanes, Output, Readers, NEW e, Clocked(e)
  PROVE  /\ Queue(Answer, owed, owed', By(e.answered), OwedPut(e))
         /\ Port(e) = Nobody => OwedPut(e) = <<>> /\ Len(OwedPut(e)) = 0
         /\ Port(e) # Nobody => Len(OwedPut(e)) = 1 /\ OwedPut(e)[1] = NewAnswer(Port(e))
         /\ Len(OwedPut(e)) \in {0, 1}
<1>1. Port(e) = Nobody => OwedPut(e) = <<>> /\ Len(OwedPut(e)) = 0  BY EmptySeq DEF OwedPut
<1>2. Port(e) # Nobody => /\ Len(OwedPut(e)) = 1 /\ OwedPut(e)[1] = NewAnswer(Port(e))
                          /\ OwedPut(e) \in Seq(Answer)
  <2> SUFFICES ASSUME Port(e) # Nobody
               PROVE  Len(OwedPut(e)) = 1 /\ OwedPut(e)[1] = NewAnswer(Port(e)) /\ OwedPut(e) \in Seq(Answer)
    OBVIOUS
  <2>1. NewAnswer(Port(e)) \in Answer  BY NewAnswers
  <2>2. OwedPut(e) = <<NewAnswer(Port(e))>>  BY DEF OwedPut
  <2> QED  BY <2>1, <2>2
<1>3. OwedPut(e) \in Seq(Answer)  BY <1>1, <1>2, EmptySeq
<1>4. Len(OwedPut(e)) \in {0, 1}  BY <1>1, <1>2
<1>5. Len(OwedPut(e)) <= 1
  <2> DEFINE k == Len(OwedPut(e))
  <2>1. k \in {0, 1}  BY <1>4
  <2> HIDE DEF k
  <2>2. k <= 1  BY <2>1
  <2> QED  BY <2>2 DEF k
<1>6. e.answered \in BOOLEAN /\ (e.answered => owed # <<>>) /\ owed' = Shifted(owed, e.answered, OwedPut(e))
  BY Updates
<1>7. owed \in Seq(Answer)  BY DEF Types
<1>8. Queue(Answer, owed, Shifted(owed, e.answered, OwedPut(e)), By(e.answered), OwedPut(e))
  BY <1>3, <1>5, <1>6, <1>7, QueueStep
<1> QED  BY <1>1, <1>2, <1>4, <1>6, <1>8

(* So are the answers of a reader: the one delivered joins them.             *)
LEMMA AnswerMoves ==
  ASSUME Types, NEW e, Clocked(e), NEW h \in Halves
  PROVE  /\ reader'[h].resp \in Fifos(Answer)
         /\ Queue(Answer, reader[h].resp.items, reader'[h].resp.items, By(Took(e, h)), Answered(h, e.answered))
         /\ Answered(h, e.answered) = IF e.answered /\ owed[1].to = h THEN <<owed[1]>> ELSE <<>>
         /\ e.answered => 1 \in DOMAIN owed /\ owed[1] \in Answer /\ Head(owed) = owed[1]
<1>1. owed \in Seq(Answer) /\ (e.answered => owed # <<>>) /\ e.answered \in BOOLEAN  BY Updates DEF Types
<1>2. e.answered => 1 \in DOMAIN owed /\ owed[1] \in Answer /\ Head(owed) = owed[1]
  <2>1. owed # <<>> => Head(owed) = owed[1] /\ owed[1] \in Answer  BY <1>1, HeadTailProperties
  <2>2. owed # <<>> => 1 \in DOMAIN owed  BY <1>1, Lengths
  <2> QED  BY <1>1, <2>1, <2>2
<1>3. Answered(h, e.answered) = IF e.answered /\ owed[1].to = h THEN <<owed[1]>> ELSE <<>>
  BY <1>2 DEF Answered
<1>4. Answered(h, e.answered) \in Seq(Answer) /\ Len(Answered(h, e.answered)) <= 1
  <2>1. CASE e.answered /\ owed[1].to = h
    <3>1. Answered(h, e.answered) = <<owed[1]>> /\ owed[1] \in Answer  BY <1>2, <1>3, <2>1
    <3> QED  BY <3>1
  <2>2. CASE ~(e.answered /\ owed[1].to = h)
    <3>1. Answered(h, e.answered) = <<>>  BY <1>3, <2>2
    <3> QED  BY <3>1, EmptySeq
  <2> QED  BY <2>1, <2>2
<1>5. Took(e, h) \in BOOLEAN /\ (Took(e, h) => reader[h].resp.valid_q)  BY Handshakes
<1>6. reader[h].resp \in Fifos(Answer)  BY DEF Types, Reader
<1>7. /\ FifoEdge(reader[h].resp, Answered(h, e.answered), Took(e, h)) \in Fifos(Answer)
      /\ Queue(Answer, reader[h].resp.items, FifoEdge(reader[h].resp, Answered(h, e.answered), Took(e, h)).items,
               By(Took(e, h)), Answered(h, e.answered))
  BY <1>4, <1>5, <1>6, FifoStep
<1>8. reader'[h].resp = FifoEdge(reader[h].resp, Answered(h, e.answered), Took(e, h))  BY ReaderUpdate
<1> QED  BY <1>2, <1>3, <1>7, <1>8

(* The line that leaves the output FIFO is a marker or goes to the writer.   *)
LEMMA Leaving ==
  ASSUME Types, Lanes, Output, NEW e, Clocked(e)
  PROVE  /\ Left \in Nat /\ Len(data.items) \in Nat /\ Left' = Left + By(Gone)
         /\ (Gone <=> completion_marker \/ to_writer) /\ ~(completion_marker /\ to_writer)
         /\ Gone => /\ out_line = data.items[1] /\ out_line \in OutLine
                    /\ out_line.n = Left + 1 /\ out_line.color = Left + 1 /\ out_line.z = Left + 1
                    /\ Left + 1 \in 1 .. Len(lines)
                    /\ lines[Left + 1] \in Line \cup {MarkerLine}
                    /\ (completion_marker <=> lines[Left + 1].marker)
<1> DEFINE L == Len(lines)  k == Len(e.in)  M == Len(meta.items)  o == By(Out(e))
           D == Len(data.items)  g == By(Gone)
<1>1. /\ L \in Nat /\ k \in {0, 1} /\ Len(lines') = L + k /\ Len(Lane(e.in)) = k
  BY Accepted
<1>2. M \in Nat /\ Len(meta'.items) = M - o + k /\ o \in {0, 1}  BY <1>1, LaneMoves DEF Queue
<1>3. /\ D \in Nat /\ Len(data'.items) = D - g + o /\ g \in {0, 1} /\ g <= D /\ DOMAIN data.items = 1 .. D
      /\ g = 1 => Head(data.items) = data.items[1] /\ data.items[1] \in OutLine
  <2>1. Queue(OutLine, data.items, data'.items, g, LinePut(e)) /\ Len(LinePut(e)) = o  BY LineMoves
  <2> QED  BY <2>1 DEF Queue
<1>4. Left = L - M - D /\ Left' = Len(lines') - Len(meta'.items) - Len(data'.items) /\ Left >= 0
  BY DEF Left, Output
<1> HIDE DEF L, k, M, o, D, g
<1>5. Left \in Nat /\ Left' = Left + g /\ Left + D <= L
  <2>1. Left' = (L + k) - (M - o + k) - (D - g + o)  BY <1>1, <1>2, <1>3, <1>4
  <2>2. /\ L \in Nat /\ k \in {0, 1} /\ M \in Nat /\ o \in {0, 1} /\ D \in Nat /\ g \in {0, 1}
        /\ Left = L - M - D /\ Left >= 0
    BY <1>1, <1>2, <1>3, <1>4
  <2> QED  BY <2>1, <2>2
<1>6. (Gone <=> completion_marker \/ to_writer) /\ ~(completion_marker /\ to_writer)
  BY DEF Gone, completion_marker, to_writer, status_ready
<1>7. Gone => /\ out_line = data.items[1] /\ out_line \in OutLine
              /\ out_line.n = Left + 1 /\ out_line.color = Left + 1 /\ out_line.z = Left + 1
              /\ Left + 1 \in 1 .. L
  <2> SUFFICES ASSUME Gone
               PROVE  /\ out_line = data.items[1] /\ out_line \in OutLine
                      /\ out_line.n = Left + 1 /\ out_line.color = Left + 1 /\ out_line.z = Left + 1
                      /\ Left + 1 \in 1 .. L
    OBVIOUS
  <2>1. g = 1  BY DEF By, g
  <2>2. out_line = data.items[1] /\ out_line \in OutLine  BY <1>3, <2>1 DEF out_line, OutData
  <2>3. 1 \in DOMAIN data.items /\ D >= 1  BY <1>3, <2>1
  <2>4. out_line.n = Left + 1 /\ out_line.color = out_line.n /\ out_line.z = out_line.n
    BY <2>2, <2>3 DEF Output
  <2> QED  BY <1>1, <1>3, <1>5, <2>2, <2>3, <2>4
<1>8. Gone => lines[Left + 1] \in Line \cup {MarkerLine}
  <2>1. lines \in Seq(Line \cup {MarkerLine})  BY DEF Types
  <2> QED  BY <1>7, <2>1, ElementOfSeq DEF L
<1>9. Gone => (completion_marker <=> lines[Left + 1].marker)
  BY <1>6, <1>7 DEF completion_marker, Gone
<1> QED  BY <1>3, <1>5, <1>6, <1>7, <1>8, <1>9 DEF L, D, g

(* The writer has the line given it, or the one it had.                      *)
LEMMA WriterUpdate ==
  ASSUME Types, NEW e, Clocked(e)
  PROVE  /\ writer'.line = IF to_writer THEN out_line ELSE writer.line
         /\ writer'.state = IF to_writer THEN (IF out_line.mask = {} THEN "IDLE" ELSE "RED")
                            ELSE IF Port(e) = "writer" THEN WriterNext(writer.state, writer.line.mask)
                            ELSE writer.state
         /\ writer'.outstanding =
              writer.outstanding
                + (IF Port(e) = "writer" /\ ~(e.answered /\ Head(owed).to = "writer") THEN 1 ELSE 0)
                - (IF (e.answered /\ Head(owed).to = "writer") /\ Port(e) # "writer" THEN 1 ELSE 0)
         /\ writer' = [line |-> writer'.line, state |-> writer'.state, outstanding |-> writer'.outstanding]
         /\ writer'.state \in WriterStates
         /\ to_writer => writer.state = "IDLE"
         /\ writer'.state # "IDLE" => to_writer \/ writer.state # "IDLE"
<1>1. Writer(Port(e) = "writer", e.answered /\ Head(owed).to = "writer")  BY DEF Clocked, BackClock, Port
<1>2. /\ writer'.line = IF to_writer THEN out_line ELSE writer.line
      /\ writer'.state = IF to_writer THEN (IF out_line.mask = {} THEN "IDLE" ELSE "RED")
                         ELSE IF Port(e) = "writer" THEN WriterNext(writer.state, writer.line.mask)
                         ELSE writer.state
      /\ writer' = [line |-> writer'.line, state |-> writer'.state, outstanding |-> writer'.outstanding]
  BY <1>1 DEF Writer
<1>3. writer'.outstanding =
              writer.outstanding
                + (IF Port(e) = "writer" /\ ~(e.answered /\ Head(owed).to = "writer") THEN 1 ELSE 0)
                - (IF (e.answered /\ Head(owed).to = "writer") /\ Port(e) # "writer" THEN 1 ELSE 0)
  BY <1>1 DEF Writer
<1>4. Port(e) = "writer" => writer.state # "IDLE"  BY PortFacts
<1>5. to_writer => writer.state = "IDLE"  BY DEF to_writer, writer_ready
<1>6. writer.state \in WriterStates  BY DEF Types
<1>7. writer.state # "IDLE" => WriterNext(writer.state, writer.line.mask) \in WriterStates
  BY <1>6 DEF WriterStates, Colors, WriterNext
<1>8. writer'.state \in WriterStates
  <2>1. CASE to_writer  BY <1>2, <2>1 DEF WriterStates, Colors
  <2>2. CASE ~to_writer /\ Port(e) = "writer"  BY <1>2, <1>4, <1>7, <2>2
  <2>3. CASE ~to_writer /\ Port(e) # "writer"  BY <1>2, <1>6, <2>3
  <2> QED  BY <2>1, <2>2, <2>3
<1>9. writer'.state # "IDLE" => to_writer \/ writer.state # "IDLE"  BY <1>2, <1>4
<1> QED  BY <1>2, <1>3, <1>5, <1>8, <1>9

(* The lines of the output FIFO and of the writer stay in order.             *)
LEMMA OutputKeep ==
  ASSUME Types, Lanes, Output, NEW e, Clocked(e)
  PROVE  Output'
<1> DEFINE L == Len(lines)  M == Len(meta.items)  o == By(Out(e))
           D == Len(data.items)  g == By(Gone)
           s == data.items  r == data'.items  put == LinePut(e)
<1>1. Left \in Nat /\ D \in Nat /\ Left' = Left + g /\ L \in Nat /\ Left = L - M - D
  BY Leaving, Accepted DEF Left
<1>2. M \in Nat /\ Len(color) = M /\ DOMAIN meta.items = 1 .. M /\ DOMAIN color = 1 .. M
      /\ DOMAIN maskq.items = 1 .. Len(maskq.items) /\ o <= M /\ o <= Len(maskq.items)
      /\ Len(maskq.items) \in Nat /\ o \in {0, 1}
  <2>1. M \in Nat /\ DOMAIN meta.items = 1 .. M /\ DOMAIN color = 1 .. Len(color) /\ o <= M /\ o \in {0, 1}
    BY LaneMoves DEF Queue
  <2>2. DOMAIN maskq.items = 1 .. Len(maskq.items) /\ o <= Len(maskq.items) /\ Len(maskq.items) \in Nat
    BY MaskMoves DEF Queue
  <2> QED  BY <2>1, <2>2 DEF Lanes
<1>3. /\ DOMAIN s = 1 .. D /\ DOMAIN r = 1 .. D - g + o /\ g \in {0, 1} /\ g <= D
      /\ \A i \in 1 .. D - g : r[i] = s[i + g]
      /\ o = 1 => r[D - g + 1] = put[1]
  <2>1. Queue(OutLine, s, r, g, put) /\ Len(put) = o  BY LineMoves
  <2> QED  BY <2>1 DEF Queue
<1>4. \A i \in 1 .. D : s[i].n = Left + i /\ s[i].color = s[i].n /\ s[i].z = s[i].n
  BY <1>3 DEF Output
<1>5. o = 1 => put[1].n = L - M + 1 /\ put[1].color = put[1].n /\ put[1].z = put[1].n
  <2> SUFFICES ASSUME o = 1 PROVE put[1].n = L - M + 1 /\ put[1].color = put[1].n /\ put[1].z = put[1].n
    OBVIOUS
  <2>1. Out(e)  BY DEF By
  <2>2. /\ put[1] = joined_line /\ OutData(meta) = meta.items[1] /\ Head(color) = color[1]
        /\ OutData(maskq) = maskq.items[1]
    BY <2>1, LineMoves
  <2>3. 1 \in DOMAIN meta.items /\ 1 \in DOMAIN color /\ 1 \in DOMAIN maskq.items
    <3>1. M >= 1 /\ Len(maskq.items) >= 1  BY <1>2
    <3> QED  BY <1>2, <3>1
  <2>4. meta.items[1] = L - M + 1 /\ color[1] = L - M + 1 /\ maskq.items[1].z = L - M + 1
    BY <2>3 DEF Lanes, Ends
  <2>5. put[1].n = meta.items[1] /\ put[1].color = color[1] /\ put[1].z = maskq.items[1].z
    BY <2>2 DEF joined_line
  <2> QED  BY <2>4, <2>5
<1> HIDE DEF L, M, o, D, g, s, r, put
<1>6. ASSUME NEW i \in 1 .. D - g + o
      PROVE  r[i].n = Left + g + i /\ r[i].color = r[i].n /\ r[i].z = r[i].n
  <2>1. CASE i <= D - g
    <3>1. r[i] = s[i + g] /\ i + g \in 1 .. D  BY <1>1, <1>2, <1>3, <2>1
    <3>2. s[i + g].n = Left + (i + g) /\ s[i + g].color = s[i + g].n /\ s[i + g].z = s[i + g].n
      BY <1>4, <3>1
    <3>3. Left + (i + g) = Left + g + i  BY <1>1, <1>3
    <3> QED  BY <3>1, <3>2, <3>3
  <2>2. CASE ~(i <= D - g)
    <3>1. o = 1 /\ i = D - g + 1  BY <1>1, <1>2, <1>3, <2>2
    <3>2. r[i] = put[1]  BY <1>3, <3>1
    <3>3. L - M + 1 = Left + g + i  BY <1>1, <1>2, <1>3, <3>1
    <3> QED  BY <1>5, <3>1, <3>2, <3>3
  <2> QED  BY <2>1, <2>2
<1>7. \A i \in DOMAIN data'.items :
        LET d == data'.items[i] IN d.n = Left' + i /\ d.color = d.n /\ d.z = d.n
  BY <1>1, <1>3, <1>6 DEF r
<1>8. Left' >= 0 /\ Left <= Left'  BY <1>1, <1>3
<1>9. writer'.state # "IDLE" =>
        /\ writer'.line.n \in 1 .. Left' /\ writer'.line.color = writer'.line.n /\ writer'.line.z = writer'.line.n
  <2>1. CASE to_writer
    <3>1. Gone /\ writer'.line = out_line  BY <2>1, Leaving, WriterUpdate
    <3>2. g = 1 /\ out_line.n = Left + 1 /\ out_line.color = Left + 1 /\ out_line.z = Left + 1
      BY <3>1, Leaving DEF g, By
    <3>3. Left + 1 \in 1 .. Left'  BY <1>1, <3>2
    <3> QED  BY <3>1, <3>2, <3>3
  <2>2. CASE ~to_writer
    <3>1. writer'.line = writer.line /\ (writer'.state # "IDLE" => writer.state # "IDLE")
      BY <2>2, WriterUpdate
    <3>2. writer.state # "IDLE" =>
            writer.line.n \in 1 .. Left /\ writer.line.color = writer.line.n /\ writer.line.z = writer.line.n
      BY DEF Output
    <3>3. 1 .. Left \subseteq 1 .. Left'  BY <1>1, <1>8, <1>3
    <3> QED  BY <3>1, <3>2, <3>3
  <2> QED  BY <2>1, <2>2
<1> QED  BY <1>7, <1>8, <1>9 DEF Output

(* The numbers that count the queues.                                        *)
LEMMA Sizes ==
  ASSUME Types, Lanes
  PROVE  /\ Len(lines) \in Nat /\ Len(zq.items) \in Nat /\ Len(zq.items) <= Len(lines)
         /\ Len(meta.items) \in Nat /\ Len(meta.items) <= Len(lines) /\ Len(maskq.items) \in Nat
         /\ Len(data.items) \in Nat /\ Len(owed) \in Nat
         /\ DOMAIN lines = 1 .. Len(lines) /\ DOMAIN meta.items = 1 .. Len(meta.items)
         /\ DOMAIN data.items = 1 .. Len(data.items) /\ DOMAIN maskq.items = 1 .. Len(maskq.items)
         /\ DOMAIN zq.items = 1 .. Len(zq.items) /\ DOMAIN owed = 1 .. Len(owed)
         /\ \A i \in DOMAIN owed : owed[i] \in Answer /\ owed[i].n \in Nat
         /\ \A h \in Halves :
              /\ reader[h].tokens \in Seq(Token) /\ DOMAIN reader[h].tokens = 1 .. Len(zq.items)
              /\ reader[h].resp \in Fifos(Answer) /\ reader[h].resp.items \in Seq(Answer)
              /\ Len(reader[h].resp.items) \in Nat
              /\ DOMAIN reader[h].resp.items = 1 .. Len(reader[h].resp.items)
              /\ \A i \in DOMAIN reader[h].resp.items :
                   reader[h].resp.items[i] \in Answer /\ reader[h].resp.items[i].n \in Nat
              /\ reader[h].req \in Nat
<1>1. /\ lines \in Seq(Line \cup {MarkerLine}) /\ zq.items \in Seq(Nat) /\ meta.items \in Seq(Nat)
      /\ maskq.items \in Seq(Masked) /\ data.items \in Seq(OutLine) /\ owed \in Seq(Answer)
  BY DEF Types, Fifos
<1>2. /\ Len(lines) \in Nat /\ Len(zq.items) \in Nat /\ Len(meta.items) \in Nat /\ Len(maskq.items) \in Nat
      /\ Len(data.items) \in Nat /\ Len(owed) \in Nat
      /\ DOMAIN lines = 1 .. Len(lines) /\ DOMAIN meta.items = 1 .. Len(meta.items)
      /\ DOMAIN data.items = 1 .. Len(data.items) /\ DOMAIN maskq.items = 1 .. Len(maskq.items)
      /\ DOMAIN zq.items = 1 .. Len(zq.items) /\ DOMAIN owed = 1 .. Len(owed)
  BY <1>1, Lengths
<1>3. Len(meta.items) <= Len(lines) /\ Len(maskq.items) + Len(zq.items) = Len(meta.items)  BY DEF Lanes
<1>4. Len(zq.items) <= Len(lines)
  <2> DEFINE L == Len(lines)  Q == Len(zq.items)  K == Len(maskq.items)  M == Len(meta.items)
  <2>1. L \in Nat /\ Q \in Nat /\ K \in Nat /\ M \in Nat /\ M <= L /\ K + Q = M  BY <1>2, <1>3
  <2> HIDE DEF L, Q, K, M
  <2>2. Q <= L  BY <2>1
  <2> QED  BY <2>2 DEF L, Q
<1>5. \A i \in DOMAIN owed : owed[i] \in Answer /\ owed[i].n \in Nat
  <2>1. \A i \in DOMAIN owed : owed[i] \in Answer  BY <1>1, <1>2, ElementOfSeq
  <2> QED  BY <2>1 DEF Answer
<1>6. ASSUME NEW h \in Halves
      PROVE  /\ reader[h].tokens \in Seq(Token) /\ DOMAIN reader[h].tokens = 1 .. Len(zq.items)
             /\ reader[h].resp \in Fifos(Answer) /\ reader[h].resp.items \in Seq(Answer)
             /\ Len(reader[h].resp.items) \in Nat
             /\ DOMAIN reader[h].resp.items = 1 .. Len(reader[h].resp.items)
             /\ \A i \in DOMAIN reader[h].resp.items :
                  reader[h].resp.items[i] \in Answer /\ reader[h].resp.items[i].n \in Nat
             /\ reader[h].req \in Nat
  <2>1. reader[h].tokens \in Seq(Token) /\ reader[h].resp \in Fifos(Answer) /\ reader[h].req \in Nat
    BY DEF Types, Reader
  <2>2. DOMAIN reader[h].tokens = 1 .. Len(zq.items)  BY <2>1, Lengths DEF Lanes
  <2> DEFINE s == reader[h].resp.items
  <2>3. s \in Seq(Answer)  BY <2>1 DEF Fifos
  <2> HIDE DEF s
  <2>4. Len(s) \in Nat /\ DOMAIN s = 1 .. Len(s)  BY <2>3, Lengths
  <2>5. \A i \in DOMAIN s : s[i] \in Answer  BY <2>3, <2>4, ElementOfSeq
  <2>6. \A i \in DOMAIN s : s[i].n \in Nat  BY <2>5 DEF Answer
  <2> QED  BY <2>1, <2>2, <2>3, <2>4, <2>5, <2>6 DEF s
<1> QED  BY <1>2, <1>3, <1>4, <1>5, <1>6

(* A depth that leaves a reader is the one read for the oldest line of the   *)
(* depth lane; the reads that stay are of later lines.                       *)
LEMMA OldestRead ==
  ASSUME Types, Lanes, Readers, NEW e, Clocked(e), NEW h \in Halves, Fire(e)
  PROVE  LET lo == Len(lines) - Len(zq.items) + 1
             s == reader[h].resp.items
         IN  /\ lo \in 1 .. Len(lines) /\ zq.items[1] = lo /\ OutData(zq) = lo
             /\ token(h).n = lo /\ (token(h).zero <=> h \notin lines[lo].cover)
             /\ Took(e, h) => 1 \in DOMAIN s /\ s[1].n = lo /\ OutData(reader[h].resp) = s[1]
             /\ \A i \in DOMAIN s : i > By(Took(e, h)) => s[i].n > lo
             /\ \A i \in Mine(h) : owed[i].n > lo
             /\ reader[h].req # NoNumber => reader[h].req > lo
<1> DEFINE L == Len(lines)  Q == Len(zq.items)  lo == L - Q + 1
           s == reader[h].resp.items  t == reader[h].tokens  b == By(Took(e, h))
<1>1. L \in Nat /\ Q \in Nat /\ Q >= 1 /\ Q <= L /\ lo \in 1 .. L
  <2>1. L \in Nat /\ Q \in Nat /\ Q <= L  BY Sizes
  <2>2. Q >= 1
    <3>1. By(Fire(e)) <= Q  BY LaneMoves DEF Queue
    <3> QED  BY <2>1, <3>1 DEF By
  <2> HIDE DEF L, Q
  <2> QED  BY <2>1, <2>2
<1>2. zq.items[1] = lo /\ OutData(zq) = lo
  <2>1. OutData(zq) = zq.items[1]  BY MaskMoves
  <2>2. 1 \in DOMAIN zq.items  BY <1>1, Sizes
  <2> QED  BY <2>1, <2>2 DEF Lanes, Ends
<1>3. token(h) = t[1] /\ t[1].n = lo /\ (t[1].zero <=> h \notin lines[lo].cover)
  <2>1. t \in Seq(Token) /\ DOMAIN t = 1 .. Q /\ 1 \in DOMAIN t  BY <1>1, Sizes
  <2>2. t # <<>>  BY <1>1, <2>1, EmptySeq
  <2>3. Head(t) = t[1]  BY <2>1, <2>2, HeadTailProperties
  <2>4. t[1].n = L - Q + 1 /\ (t[1].zero <=> h \notin lines[t[1].n].cover)  BY <2>1 DEF Lanes
  <2> QED  BY <2>3, <2>4 DEF token
<1>4. /\ \A n : Reads(h, n) => n \in Nat /\ n >= lo /\ (n = lo => h \in lines[lo].cover)
      /\ h \in lines[lo].cover => Reads(h, lo)
  <2>1. Len(t) = Q  BY DEF Lanes
  <2>2. \A n : Reads(h, n) <=> n \in lo .. L /\ h \in lines[n].cover  BY <2>1 DEF Reads
  <2> HIDE DEF L, Q, lo, t
  <2> QED  BY <1>1, <2>2
<1>5. /\ \A i \in DOMAIN s : Reads(h, s[i].n) /\ s[i].n \in Nat
      /\ \A i \in Mine(h) : Reads(h, owed[i].n) /\ owed[i].n \in Nat
      /\ reader[h].req # NoNumber => Reads(h, reader[h].req)
      /\ reader[h].req \in Nat
      /\ DOMAIN s = 1 .. Len(s) /\ Len(s) \in Nat
  BY Sizes DEF Readers, ReadsAreTokens, Mine
<1>6. /\ \A i, j \in DOMAIN s : i < j => s[i].n < s[j].n
      /\ \A i \in DOMAIN s, j \in Mine(h) : s[i].n < owed[j].n
      /\ reader[h].req # NoNumber => \A i \in DOMAIN s : s[i].n < reader[h].req
  BY DEF Readers, InOrder
<1>7. Took(e, h) <=> ~token(h).zero  BY DEF Took
<1>8. Took(e, h) => 1 \in DOMAIN s /\ OutData(reader[h].resp) = s[1]
  <2>1. Queue(Answer, s, reader'[h].resp.items, b, Answered(h, e.answered))  BY AnswerMoves
  <2>2. b <= Len(s) /\ (b = 1 => Head(s) = s[1])  BY <2>1 DEF Queue
  <2>3. Took(e, h) => b = 1  BY DEF By
  <2> HIDE DEF b, s
  <2>4. Took(e, h) => 1 \in DOMAIN s  BY <1>5, <2>2, <2>3
  <2>5. OutData(reader[h].resp) = Head(s)  BY DEF OutData, s
  <2> QED  BY <2>2, <2>3, <2>4, <2>5
<1> HIDE DEF L, Q, lo, s, t
<1>9. CASE token(h).zero
  <2>1. ~Took(e, h) /\ h \notin lines[lo].cover  BY <1>3, <1>7, <1>9
  <2>2. \A n : Reads(h, n) => n > lo  BY <1>1, <1>4, <2>1
  <2>3. /\ \A i \in DOMAIN s : s[i].n > lo
        /\ \A i \in Mine(h) : owed[i].n > lo
        /\ reader[h].req # NoNumber => reader[h].req > lo
    BY <1>5, <2>2
  <2> QED  BY <1>1, <1>2, <1>3, <2>1, <2>3 DEF lo, L, Q, s
<1>10. CASE ~token(h).zero
  <2>1. Took(e, h) /\ h \in lines[lo].cover /\ 1 \in DOMAIN s /\ b = 1
    BY <1>3, <1>7, <1>8, <1>10 DEF By
  <2>2. Reads(h, lo) /\ lo \in 1 .. L /\ lo \in Nat  BY <1>1, <1>4, <2>1
  <2>3. s[1].n >= lo /\ s[1].n \in Nat  BY <1>4, <1>5, <2>1
  <2>4. \/ \E i \in DOMAIN s : s[i].n = lo
        \/ \E i \in Mine(h) : owed[i].n = lo
        \/ reader[h].req = lo
    BY <2>2 DEF Readers, TokensAreRead, s, L
  <2>5. s[1].n = lo
    <3>1. CASE \E i \in DOMAIN s : s[i].n = lo
      <4>1. PICK i \in DOMAIN s : s[i].n = lo  BY <3>1
      <4>2. i \in Nat /\ i >= 1  BY <1>5
      <4>3. i > 1 => s[1].n < lo  BY <1>6, <2>1, <4>1
      <4>4. i = 1  BY <2>2, <2>3, <4>2, <4>3
      <4> QED  BY <4>1, <4>4
    <3>2. CASE \E i \in Mine(h) : owed[i].n = lo
      <4>1. s[1].n < lo  BY <1>6, <2>1, <3>2
      <4> QED  BY <2>2, <2>3, <4>1
    <3>3. CASE reader[h].req = lo
      <4>1. reader[h].req # NoNumber  BY <2>2, <3>3 DEF NoNumber
      <4>2. s[1].n < lo  BY <1>6, <2>1, <3>3, <4>1
      <4> QED  BY <2>2, <2>3, <4>2
    <3> QED  BY <2>4, <3>1, <3>2, <3>3
  <2>6. \A i \in DOMAIN s : i > 1 => s[i].n > lo
    <3> SUFFICES ASSUME NEW i \in DOMAIN s, i > 1 PROVE s[i].n > lo
      OBVIOUS
    <3>1. s[1].n < s[i].n  BY <1>5, <1>6, <2>1
    <3> QED  BY <1>5, <2>2, <2>5, <3>1
  <2>7. \A i \in Mine(h) : owed[i].n > lo
    <3> SUFFICES ASSUME NEW i \in Mine(h) PROVE owed[i].n > lo
      OBVIOUS
    <3>1. s[1].n < owed[i].n  BY <1>6, <2>1
    <3> QED  BY <1>5, <2>2, <2>5, <3>1
  <2>8. reader[h].req # NoNumber => reader[h].req > lo
    <3> SUFFICES ASSUME reader[h].req # NoNumber PROVE reader[h].req > lo
      OBVIOUS
    <3>1. s[1].n < reader[h].req  BY <1>6, <2>1
    <3> QED  BY <1>5, <2>2, <2>5, <3>1
  <2> QED  BY <1>1, <1>2, <1>3, <1>8, <2>1, <2>5, <2>6, <2>7, <2>8 DEF lo, L, Q, s
<1> QED  BY <1>9, <1>10

(* The answers owed to a port: where each comes from and goes to.            *)
LEMMA OwedFlow ==
  ASSUME Types, Lanes, Output, Readers, NEW e, Clocked(e), NEW q \in Ports
  PROVE  LET W == Len(owed)  a == By(e.answered)
         IN  /\ W \in Nat /\ a \in {0, 1} /\ a <= W
             /\ \A j \in Mine(q)' :
                  /\ j \in Nat
                  /\ \/ j <= W - a /\ j + a \in Mine(q) /\ owed'[j] = owed[j + a]
                     \/ j = W - a + 1 /\ Port(e) = q /\ owed'[j] = NewAnswer(q)
             /\ \A j \in Mine(q) : j > a => j - a \in Mine(q)' /\ owed'[j - a] = owed[j]
             /\ Port(e) = q => W - a + 1 \in Mine(q)' /\ owed'[W - a + 1] = NewAnswer(q)
<1> DEFINE W == Len(owed)  a == By(e.answered)  put == OwedPut(e)  p == Len(put)
<1>1. /\ W \in Nat /\ a \in {0, 1} /\ a <= W /\ DOMAIN owed = 1 .. W /\ DOMAIN owed' = 1 .. W - a + p
      /\ \A i \in 1 .. W - a : owed'[i] = owed[i + a]
      /\ p = 1 => owed'[W - a + 1] = put[1]
      /\ p \in {0, 1}
  BY OwedMoves DEF Queue
<1>2. /\ p = 1 => Port(e) # Nobody /\ put[1] = NewAnswer(Port(e)) /\ put[1].to = Port(e)
      /\ Port(e) = q => p = 1
  <2>1. CASE Port(e) = Nobody
    <3>1. p = 0 /\ q # Nobody  BY <2>1, OwedMoves, PortFacts
    <3> QED  BY <2>1, <3>1
  <2>2. CASE Port(e) # Nobody
    <3>1. p = 1 /\ put[1] = NewAnswer(Port(e))  BY <2>2, OwedMoves
    <3>2. NewAnswer(Port(e)).to = Port(e)  BY <2>2, NewAnswers
    <3> QED  BY <2>2, <3>1, <3>2
  <2> QED  BY <2>1, <2>2
<1>3. /\ \A j : j \in Mine(q)' <=> j \in DOMAIN owed' /\ owed'[j].to = q
      /\ \A j : j \in Mine(q) <=> j \in DOMAIN owed /\ owed[j].to = q
  BY DEF Mine
<1> HIDE DEF W, a, put, p
<1>4. ASSUME NEW j \in Mine(q)'
      PROVE  /\ j \in Nat
             /\ \/ j <= W - a /\ j + a \in Mine(q) /\ owed'[j] = owed[j + a]
                \/ j = W - a + 1 /\ Port(e) = q /\ owed'[j] = NewAnswer(q)
  <2>1. j \in 1 .. W - a + p /\ owed'[j].to = q  BY <1>1, <1>3
  <2>2. CASE j <= W - a
    <3>1. j \in 1 .. W - a /\ j + a \in 1 .. W  BY <1>1, <2>1, <2>2
    <3>2. owed'[j] = owed[j + a]  BY <1>1, <3>1
    <3>3. j + a \in Mine(q)  BY <1>1, <1>3, <2>1, <3>1, <3>2
    <3> QED  BY <2>2, <3>1, <3>2, <3>3
  <2>3. CASE ~(j <= W - a)
    <3>1. p = 1 /\ j = W - a + 1 /\ j \in Nat  BY <1>1, <2>1, <2>3
    <3>2. owed'[j] = NewAnswer(Port(e)) /\ owed'[j].to = Port(e)  BY <1>1, <1>2, <3>1
    <3> QED  BY <2>1, <3>1, <3>2
  <2> QED  BY <2>2, <2>3
<1>5. ASSUME NEW j \in Mine(q), j > a PROVE j - a \in Mine(q)' /\ owed'[j - a] = owed[j]
  <2>1. j \in 1 .. W /\ owed[j].to = q  BY <1>1, <1>3
  <2>2. j - a \in 1 .. W - a /\ (j - a) + a = j /\ j - a \in 1 .. W - a + p  BY <1>1, <1>5, <2>1
  <2>3. owed'[j - a] = owed[j]  BY <1>1, <2>2
  <2> QED  BY <1>1, <1>3, <2>1, <2>2, <2>3
<1>6. Port(e) = q => W - a + 1 \in Mine(q)' /\ owed'[W - a + 1] = NewAnswer(q)
  <2> SUFFICES ASSUME Port(e) = q PROVE W - a + 1 \in Mine(q)' /\ owed'[W - a + 1] = NewAnswer(q)
    OBVIOUS
  <2>1. p = 1 /\ owed'[W - a + 1] = NewAnswer(q) /\ owed'[W - a + 1].to = q  BY <1>1, <1>2
  <2>2. W - a + 1 \in 1 .. W - a + p  BY <1>1, <2>1
  <2> QED  BY <1>1, <1>3, <2>1, <2>2
<1> QED  BY <1>1, <1>4, <1>5, <1>6 DEF W, a

(* The same for the answers a reader holds.                                  *)
LEMMA AnswerFlow ==
  ASSUME Types, Lanes, NEW e, Clocked(e), NEW h \in Halves
  PROVE  LET s == reader[h].resp.items  r == reader'[h].resp.items
             S == Len(s)  b == By(Took(e, h))  moves == e.answered /\ 1 \in Mine(h)
         IN  /\ S \in Nat /\ b \in {0, 1} /\ b <= S
             /\ \A i \in DOMAIN r :
                  /\ i \in Nat
                  /\ \/ i <= S - b /\ i + b \in DOMAIN s /\ r[i] = s[i + b]
                     \/ i = S - b + 1 /\ moves /\ r[i] = owed[1]
             /\ \A i \in DOMAIN s : i > b => i - b \in DOMAIN r /\ r[i - b] = s[i]
             /\ moves => S - b + 1 \in DOMAIN r /\ r[S - b + 1] = owed[1]
<1> DEFINE s == reader[h].resp.items  r == reader'[h].resp.items
           S == Len(s)  b == By(Took(e, h))  put == Answered(h, e.answered)  p == Len(put)
           moves == e.answered /\ 1 \in Mine(h)
<1>1. moves <=> e.answered /\ owed[1].to = h
  <2>1. e.answered => 1 \in DOMAIN owed  BY AnswerMoves
  <2> QED  BY <2>1 DEF Mine
<1>2. p \in {0, 1} /\ (p = 1 <=> moves) /\ (p = 1 => put[1] = owed[1])
  <2>1. CASE moves
    <3>1. put = <<owed[1]>>  BY <1>1, <2>1, AnswerMoves
    <3> HIDE DEF moves, put
    <3>2. Len(put) = 1 /\ put[1] = owed[1]  BY <3>1
    <3> QED  BY <2>1, <3>2
  <2>2. CASE ~moves
    <3>1. put = <<>>  BY <1>1, <2>2, AnswerMoves
    <3>2. p = 0  BY <3>1, EmptySeq
    <3> QED  BY <2>2, <3>2
  <2> QED  BY <2>1, <2>2
<1>3. /\ S \in Nat /\ b \in {0, 1} /\ b <= S /\ DOMAIN s = 1 .. S /\ DOMAIN r = 1 .. S - b + p
      /\ \A i \in 1 .. S - b : r[i] = s[i + b]
      /\ p = 1 => r[S - b + 1] = put[1]
  <2>1. Queue(Answer, s, r, b, put)  BY AnswerMoves
  <2> QED  BY <2>1 DEF Queue
<1> HIDE DEF s, r, S, b, put, p, moves
<1>4. ASSUME NEW i \in DOMAIN r
      PROVE  /\ i \in Nat
             /\ \/ i <= S - b /\ i + b \in DOMAIN s /\ r[i] = s[i + b]
                \/ i = S - b + 1 /\ moves /\ r[i] = owed[1]
  <2>1. CASE i <= S - b
    <3>1. i \in 1 .. S - b /\ i + b \in 1 .. S  BY <1>2, <1>3, <2>1
    <3> QED  BY <1>3, <2>1, <3>1
  <2>2. CASE ~(i <= S - b)
    <3>1. p = 1 /\ i = S - b + 1 /\ i \in Nat  BY <1>2, <1>3, <2>2
    <3> QED  BY <1>2, <1>3, <3>1
  <2> QED  BY <2>1, <2>2
<1>5. ASSUME NEW i \in DOMAIN s, i > b PROVE i - b \in DOMAIN r /\ r[i - b] = s[i]
  <2>1. i \in 1 .. S /\ S \in Nat /\ b \in {0, 1} /\ p \in {0, 1}  BY <1>2, <1>3
  <2>2. i - b \in 1 .. S - b /\ (i - b) + b = i  BY <1>5, <2>1
  <2>3. i - b \in 1 .. S - b + p  BY <2>1, <2>2
  <2> QED  BY <1>3, <2>2, <2>3
<1>6. moves => S - b + 1 \in DOMAIN r /\ r[S - b + 1] = owed[1]
  <2>1. p = 1 => S - b + 1 \in 1 .. S - b + p  BY <1>2, <1>3
  <2> QED  BY <1>2, <1>3, <2>1
<1> QED  BY <1>3, <1>4, <1>5, <1>6 DEF s, r, S, b, moves

(* The reads of an edge: the oldest line goes, the line accepted comes.      *)
ReadsAfter(h, n) ==
  n \in Len(lines') - Len(reader'[h].tokens) + 1 .. Len(lines') /\ h \in lines'[n].cover

(* The lines a reader counts after the edge.                                 *)
LEMMA ReadsMove ==
  ASSUME Types, Lanes, NEW e, Clocked(e), NEW h \in Halves, NEW n
  PROVE  LET lo == Len(lines) - Len(zq.items) + By(Fire(e)) + 1
         IN  ReadsAfter(h, n) <=> \/ n = Len(lines) + 1 /\ Covers(e, h)
                                  \/ Reads(h, n) /\ n >= lo
<1> DEFINE L == Len(lines)  Q == Len(zq.items)  f == By(Fire(e))  k == Len(e.in)
<1>1. /\ L \in Nat /\ k \in {0, 1} /\ Len(lines') = L + k /\ (e.in # <<>> <=> k = 1)
      /\ \A i \in 1 .. L : lines'[i] = lines[i]
      /\ k = 1 => lines'[L + 1] = e.in[1]
  BY Accepted
<1>2. Q \in Nat /\ Q <= L /\ f \in {0, 1} /\ f <= Q
  <2>1. f \in {0, 1} /\ f <= Q  BY LaneMoves DEF Queue
  <2> QED  BY <2>1, Sizes
<1>3. Len(reader'[h].tokens) = Q - f + k
  <2>1. Lanes'  BY LanesKeep
  <2>2. Len(reader'[h].tokens) = Len(zq'.items)  BY <2>1 DEF Lanes
  <2>3. Len(zq'.items) = Q - f + k  BY LaneMoves, Accepted DEF Queue
  <2> QED  BY <2>2, <2>3
<1>4. Reads(h, n) <=> n \in L - Q + 1 .. L /\ h \in lines[n].cover  BY DEF Reads, Lanes
<1>5. ReadsAfter(h, n) <=> n \in (L + k) - (Q - f + k) + 1 .. L + k /\ h \in lines'[n].cover
  BY <1>1, <1>3 DEF ReadsAfter
<1>6. Covers(e, h) <=> k = 1 /\ h \in lines'[L + 1].cover  BY <1>1 DEF Covers
<1> HIDE DEF L, Q, f, k
<1>7. n \in (L + k) - (Q - f + k) + 1 .. L + k <=> \/ n = L + 1 /\ k = 1
                                                   \/ n \in L - Q + 1 .. L /\ n >= L - Q + f + 1
  BY <1>1, <1>2
<1>8. n \in L - Q + 1 .. L => lines'[n] = lines[n] /\ n # L + 1
  BY <1>1, <1>2
<1>9. ReadsAfter(h, n) <=> \/ n = L + 1 /\ Covers(e, h)
                           \/ Reads(h, n) /\ n >= L - Q + f + 1
  <2>1. CASE n = L + 1
    <3>1. n \notin L - Q + 1 .. L  BY <1>1, <1>2, <2>1
    <3>2. n \in (L + k) - (Q - f + k) + 1 .. L + k <=> k = 1  BY <1>1, <1>2, <2>1
    <3>3. ReadsAfter(h, n) <=> k = 1 /\ h \in lines'[n].cover  BY <1>5, <3>2
    <3>4. h \in lines'[n].cover <=> h \in lines'[L + 1].cover  BY <2>1
    <3>5. ~Reads(h, n)  BY <1>4, <3>1
    <3>6. ReadsAfter(h, n) <=> Covers(e, h)  BY <1>6, <3>3, <3>4
    <3> QED  BY <2>1, <3>5, <3>6
  <2>2. CASE n # L + 1
    <3>1. ReadsAfter(h, n) <=> n \in L - Q + 1 .. L /\ n >= L - Q + f + 1 /\ h \in lines'[n].cover
      BY <1>5, <1>7, <2>2
    <3>2. n \in L - Q + 1 .. L => lines'[n] = lines[n]  BY <1>8
    <3> QED  BY <1>4, <2>2, <3>1, <3>2
  <2> QED  BY <2>1, <2>2
<1> QED  BY <1>9 DEF L, Q, f

(* A reader takes a line with a read only when its request register is free. *)
LEMMA RequestFree ==
  ASSUME Types, NEW e, Clocked(e), NEW h \in Halves, Covers(e, h), reader[h].req # NoNumber
  PROVE  Port(e) = h
<1>1. worker_ready(e.in[1], Port(e), e.colored)  BY Updates DEF Covers
<1>2. reader_ready(h, h \notin e.in[1].cover, Port(e) = h)  BY <1>1 DEF worker_ready
<1>3. h \in e.in[1].cover  BY DEF Covers
<1> QED  BY <1>2, <1>3 DEF reader_ready

(* A read that is not delivered stays the read of a token.                   *)
LEMMA StillRead ==
  ASSUME Types, Lanes, Output, Readers, NEW e, Clocked(e), NEW h \in Halves
  PROVE  LET s == reader[h].resp.items
             lo == Len(lines) - Len(zq.items) + By(Fire(e)) + 1
         IN  /\ \A i \in DOMAIN s : s[i].n <= Len(lines)
             /\ \A i \in DOMAIN s : i > By(Took(e, h)) => s[i].n >= lo /\ ReadsAfter(h, s[i].n)
             /\ \A i \in DOMAIN s : ~(i > By(Took(e, h))) => s[i].n < lo
             /\ \A i \in Mine(h) : owed[i].n >= lo /\ owed[i].n <= Len(lines) /\ ReadsAfter(h, owed[i].n)
             /\ reader[h].req # NoNumber =>
                  reader[h].req >= lo /\ reader[h].req <= Len(lines) /\ ReadsAfter(h, reader[h].req)
<1> DEFINE L == Len(lines)  Q == Len(zq.items)  f == By(Fire(e))  lo == L - Q + f + 1
           s == reader[h].resp.items  b == By(Took(e, h))  req == reader[h].req
<1>1. /\ L \in Nat /\ Q \in Nat /\ DOMAIN s = 1 .. Len(s) /\ Len(s) \in Nat
      /\ \A i \in DOMAIN s : s[i].n \in Nat
      /\ req \in Nat
  BY Sizes
<1>2. f \in {0, 1} /\ b \in {0, 1} /\ (f = 1 <=> Fire(e)) /\ (b = 1 <=> Took(e, h)) /\ (Took(e, h) => Fire(e))
  <2>1. Fire(e) \in BOOLEAN /\ Took(e, h) \in BOOLEAN  BY Handshakes
  <2> QED  BY <2>1 DEF By, Took
<1>3. /\ \A i \in DOMAIN s : Reads(h, s[i].n)
      /\ \A i \in Mine(h) : Reads(h, owed[i].n)
      /\ req # NoNumber => Reads(h, req)
  BY DEF Readers, ReadsAreTokens
<1>4. \A i \in Mine(h) : owed[i].n \in Nat  BY Sizes DEF Mine
<1>5. \A n : Reads(h, n) => n \in 1 .. L /\ L - Q + 1 <= n  BY ReadsInRange
<1>6. Fire(e) => /\ \A i \in DOMAIN s : i > b => s[i].n > L - Q + 1
                 /\ \A i \in Mine(h) : owed[i].n > L - Q + 1
                 /\ req # NoNumber => req > L - Q + 1
                 /\ Took(e, h) => s[1].n = L - Q + 1
  BY OldestRead
<1>7. \A n : Reads(h, n) /\ n >= lo => ReadsAfter(h, n)  BY ReadsMove
<1> HIDE DEF L, Q, f, s, b, req
<1>8. ASSUME NEW i \in DOMAIN s PROVE /\ s[i].n <= L
                                      /\ i > b => s[i].n >= lo
                                      /\ ~(i > b) => s[i].n < lo
  <2>1. s[i].n \in 1 .. L /\ L - Q + 1 <= s[i].n  BY <1>3, <1>5
  <2>2. i > b => s[i].n >= lo
    <3>1. CASE Fire(e)  BY <1>1, <1>2, <1>6, <3>1
    <3>2. CASE ~Fire(e)  BY <1>1, <1>2, <2>1, <3>2
    <3> QED  BY <3>1, <3>2
  <2>3. ~(i > b) => s[i].n < lo
    <3> SUFFICES ASSUME ~(i > b) PROVE s[i].n < lo
      OBVIOUS
    <3>1. i = 1 /\ b = 1  BY <1>1, <1>2
    <3>2. s[i].n = L - Q + 1 /\ f = 1  BY <1>2, <1>6, <3>1
    <3> QED  BY <1>1, <3>2
  <2> QED  BY <2>1, <2>2, <2>3
<1>9. ASSUME NEW i \in Mine(h) PROVE owed[i].n >= lo /\ owed[i].n <= L
  <2>1. owed[i].n \in 1 .. L /\ L - Q + 1 <= owed[i].n  BY <1>3, <1>5
  <2>2. CASE Fire(e)  BY <1>1, <1>2, <1>4, <1>6, <2>1, <2>2
  <2>3. CASE ~Fire(e)  BY <1>1, <1>2, <2>1, <2>3
  <2> QED  BY <2>2, <2>3
<1>10. ASSUME req # NoNumber PROVE req >= lo /\ req <= L
  <2>1. req \in 1 .. L /\ L - Q + 1 <= req  BY <1>3, <1>5, <1>10
  <2>2. CASE Fire(e)  BY <1>1, <1>2, <1>6, <1>10, <2>1, <2>2
  <2>3. CASE ~Fire(e)  BY <1>1, <1>2, <2>1, <2>3
  <2> QED  BY <2>2, <2>3
<1>11. /\ \A i \in DOMAIN s : i > b => ReadsAfter(h, s[i].n)
       /\ \A i \in Mine(h) : ReadsAfter(h, owed[i].n)
       /\ req # NoNumber => ReadsAfter(h, req)
  BY <1>3, <1>7, <1>8, <1>9, <1>10
<1> QED  BY <1>8, <1>9, <1>10, <1>11 DEF L, Q, f, s, b, req

(* An edge keeps the reads of a reader those of its tokens, in order.        *)
LEMMA ReaderKeep ==
  ASSUME Types, Lanes, Output, Readers, NEW e, Clocked(e), NEW h \in Halves
  PROVE  ReadsAreTokens(h)' /\ TokensAreRead(h)' /\ InOrder(h)' /\ Room(h)'
<1> DEFINE L == Len(lines)  f == By(Fire(e))  lo == L - Len(zq.items) + f + 1
           s == reader[h].resp.items  S == Len(s)  b == By(Took(e, h))
           r == reader'[h].resp.items  moves == e.answered /\ 1 \in Mine(h)
           W == Len(owed)  a == By(e.answered)
           req == reader[h].req  asks == Covers(e, h)
<1>1. /\ \A i \in DOMAIN s : s[i].n <= L
      /\ \A i \in DOMAIN s : i > b => s[i].n >= lo /\ ReadsAfter(h, s[i].n)
      /\ \A i \in DOMAIN s : ~(i > b) => s[i].n < lo
      /\ \A i \in Mine(h) : owed[i].n >= lo /\ owed[i].n <= L /\ ReadsAfter(h, owed[i].n)
      /\ req # NoNumber => req >= lo /\ req <= L /\ ReadsAfter(h, req)
  BY StillRead
<1>2. /\ S \in Nat /\ b \in {0, 1} /\ b <= S
      /\ \A i \in DOMAIN r :
           /\ i \in Nat
           /\ \/ i <= S - b /\ i + b \in DOMAIN s /\ r[i] = s[i + b]
              \/ i = S - b + 1 /\ moves /\ r[i] = owed[1]
      /\ \A i \in DOMAIN s : i > b => i - b \in DOMAIN r /\ r[i - b] = s[i]
      /\ moves => S - b + 1 \in DOMAIN r /\ r[S - b + 1] = owed[1]
  BY AnswerFlow
<1>3. /\ W \in Nat /\ a \in {0, 1} /\ a <= W
      /\ \A j \in Mine(h)' :
           /\ j \in Nat
           /\ \/ j <= W - a /\ j + a \in Mine(h) /\ owed'[j] = owed[j + a]
              \/ j = W - a + 1 /\ Port(e) = h /\ owed'[j].n = req
      /\ \A j \in Mine(h) : j > a => j - a \in Mine(h)' /\ owed'[j - a] = owed[j]
      /\ Port(e) = h => W - a + 1 \in Mine(h)' /\ owed'[W - a + 1].n = req
  <2>1. h \in Ports  BY DEF Ports
  <2>2. Port(e) = h => NewAnswer(h).n = req
    <3>1. Port(e) = h => Port(e) # Nobody  BY <2>1, PortFacts
    <3> QED  BY <3>1, NewAnswers
  <2> QED  BY <2>1, <2>2, OwedFlow
<1>4. /\ reader'[h].req = IF asks THEN L + 1 ELSE IF Port(e) = h THEN NoNumber ELSE req
      /\ asks /\ req # NoNumber => Port(e) = h
      /\ Port(e) = h => req # NoNumber
  BY ReaderUpdate, RequestFree, PortFacts
<1>5. \A n : ReadsAfter(h, n) <=> (n = L + 1 /\ asks) \/ (Reads(h, n) /\ n >= lo)
  <2> SUFFICES ASSUME NEW n PROVE ReadsAfter(h, n) <=> (n = L + 1 /\ asks) \/ (Reads(h, n) /\ n >= lo)
    OBVIOUS
  <2> QED  BY ReadsMove
<1>6. /\ \A i, j \in DOMAIN s : i < j => s[i].n < s[j].n
      /\ \A i, j \in Mine(h) : i < j => owed[i].n < owed[j].n
      /\ \A i \in DOMAIN s, j \in Mine(h) : s[i].n < owed[j].n
      /\ req # NoNumber => /\ \A i \in DOMAIN s : s[i].n < req
                           /\ \A j \in Mine(h) : owed[j].n < req
  BY DEF Readers, InOrder
<1>7. \A n \in 1 .. L : Reads(h, n) => \/ \E i \in DOMAIN s : s[i].n = n
                                       \/ \E i \in Mine(h) : owed[i].n = n
                                       \/ req = n
  BY DEF Readers, TokensAreRead
<1>8. /\ L \in Nat /\ req \in Nat /\ \A i \in DOMAIN s : i \in Nat /\ i >= 1 /\ s[i].n \in Nat
      /\ \A j \in Mine(h) : j \in Nat /\ j >= 1 /\ owed[j].n \in Nat
      /\ lo \in Int /\ (a = 1 => e.answered) /\ (e.answered => a = 1)
  <2>1. \A j \in Mine(h) : j \in 1 .. W /\ owed[j].n \in Nat  BY Sizes DEF Mine
  <2>2. \A i \in DOMAIN s : i \in 1 .. S /\ s[i].n \in Nat  BY Sizes
  <2>3. L \in Nat /\ req \in Nat /\ Len(zq.items) \in Nat  BY Sizes
  <2>4. f \in {0, 1} /\ (e.answered <=> a = 1)
    <3>1. e.answered \in BOOLEAN /\ Fire(e) \in BOOLEAN  BY Updates, Handshakes
    <3> QED  BY <3>1 DEF By
  <2> HIDE DEF L, f, s, S, W, a, req
  <2> QED  BY <1>2, <1>3, <2>1, <2>2, <2>3, <2>4
<1>9. asks => ReadsAfter(h, L + 1)  BY <1>5
<1>10. \A n : Reads(h, n) => n \in 1 .. L  BY ReadsInRange
<1> HIDE DEF L, f, lo, s, S, b, r, moves, W, a, req, asks
<1>11. ReadsAreTokens(h)'
  <2>1. ASSUME NEW i \in DOMAIN r PROVE ReadsAfter(h, r[i].n)
    <3>1. CASE i <= S - b /\ i + b \in DOMAIN s /\ r[i] = s[i + b]
      <4>1. i \in Nat /\ i # 0
        <5>1. i \in Nat  BY <1>2
        <5>2. DOMAIN r = 1 .. Len(r)
          <6>1. Queue(Answer, s, r, b, Answered(h, e.answered))  BY AnswerMoves DEF s, r, b
          <6> QED  BY <6>1, Lengths DEF Queue
        <5> QED  BY <5>1, <5>2
      <4>2. i + b > b  BY <1>2, <4>1
      <4> QED  BY <1>1, <3>1, <4>2
    <3>2. CASE i = S - b + 1 /\ moves /\ r[i] = owed[1]
      <4>1. 1 \in Mine(h)  BY <3>2 DEF moves
      <4> QED  BY <1>1, <3>2, <4>1
    <3> QED  BY <1>2, <3>1, <3>2
  <2>2. ASSUME NEW j \in Mine(h)' PROVE ReadsAfter(h, owed'[j].n)
    <3>1. CASE j + a \in Mine(h) /\ owed'[j] = owed[j + a]  BY <1>1, <3>1
    <3>2. CASE Port(e) = h /\ owed'[j].n = req  BY <1>1, <1>4, <3>2
    <3> QED  BY <1>3, <3>1, <3>2
  <2>3. reader'[h].req # NoNumber => ReadsAfter(h, reader'[h].req)
    <3>1. CASE asks  BY <1>4, <1>9, <3>1
    <3>2. CASE ~asks  BY <1>1, <1>4, <3>2
    <3> QED  BY <3>1, <3>2
  <2> QED  BY <2>1, <2>2, <2>3 DEF ReadsAreTokens, Reads, ReadsAfter, r
<1>12. TokensAreRead(h)'
  <2> SUFFICES ASSUME NEW n, ReadsAfter(h, n)
               PROVE  \/ \E i \in DOMAIN r : r[i].n = n
                      \/ \E j \in Mine(h)' : owed'[j].n = n
                      \/ reader'[h].req = n
    BY DEF TokensAreRead, Reads, ReadsAfter, r
  <2>1. CASE n = L + 1 /\ asks  BY <1>4, <2>1
  <2>2. CASE Reads(h, n) /\ n >= lo
    <3>1. n \in 1 .. L  BY <1>10, <2>2
    <3>2. CASE \E i \in DOMAIN s : s[i].n = n
      <4>1. PICK i \in DOMAIN s : s[i].n = n  BY <3>2
      <4>2. i > b
        <5>1. ~(i > b) => n < lo  BY <1>1, <4>1
        <5> QED  BY <1>8, <2>2, <3>1, <5>1
      <4>3. i - b \in DOMAIN r /\ r[i - b] = s[i]  BY <1>2, <4>2
      <4> QED  BY <4>1, <4>3
    <3>3. CASE \E j \in Mine(h) : owed[j].n = n
      <4>1. PICK j \in Mine(h) : owed[j].n = n  BY <3>3
      <4>2. CASE j > a
        <5>1. j - a \in Mine(h)' /\ owed'[j - a] = owed[j]  BY <1>3, <4>2
        <5> QED  BY <4>1, <5>1
      <4>3. CASE ~(j > a)
        <5>1. j = 1 /\ a = 1  BY <1>3, <1>8, <4>3
        <5>2. moves  BY <1>8, <5>1 DEF moves
        <5>3. S - b + 1 \in DOMAIN r /\ r[S - b + 1] = owed[1]  BY <1>2, <5>2
        <5> QED  BY <4>1, <5>1, <5>3
      <4> QED  BY <4>2, <4>3
    <3>4. CASE req = n
      <4>1. req # NoNumber  BY <3>1, <3>4 DEF NoNumber
      <4>2. CASE Port(e) = h
        <5>1. W - a + 1 \in Mine(h)' /\ owed'[W - a + 1].n = req  BY <1>3, <4>2
        <5> QED  BY <3>4, <5>1
      <4>3. CASE Port(e) # h  BY <1>4, <3>4, <4>1, <4>3
      <4> QED  BY <4>2, <4>3
    <3> QED  BY <1>7, <2>2, <3>1, <3>2, <3>3, <3>4
  <2> QED  BY <1>5, <2>1, <2>2
<1>13. \A i, j \in DOMAIN r : i < j => r[i].n < r[j].n
  <2> SUFFICES ASSUME NEW i \in DOMAIN r, NEW j \in DOMAIN r, i < j PROVE r[i].n < r[j].n
    OBVIOUS
  <2>1. i \in Nat /\ j \in Nat  BY <1>2
  <2>2. i + b \in DOMAIN s /\ r[i] = s[i + b]  BY <1>2, <2>1
  <2>3. CASE j + b \in DOMAIN s /\ r[j] = s[j + b]
    <3>1. i + b < j + b  BY <1>2, <2>1
    <3> QED  BY <1>6, <2>2, <2>3, <3>1
  <2>4. CASE moves /\ r[j] = owed[1]
    <3>1. 1 \in Mine(h)  BY <2>4 DEF moves
    <3> QED  BY <1>6, <2>2, <2>4, <3>1
  <2> QED  BY <1>2, <2>3, <2>4
<1>14. \A i, j \in Mine(h)' : i < j => owed'[i].n < owed'[j].n
  <2> SUFFICES ASSUME NEW i \in Mine(h)', NEW j \in Mine(h)', i < j PROVE owed'[i].n < owed'[j].n
    OBVIOUS
  <2>1. i \in Nat /\ j \in Nat  BY <1>3
  <2>2. i + a \in Mine(h) /\ owed'[i] = owed[i + a]  BY <1>3, <2>1
  <2>3. CASE j + a \in Mine(h) /\ owed'[j] = owed[j + a]
    <3>1. i + a < j + a  BY <1>3, <2>1
    <3> QED  BY <1>6, <2>2, <2>3, <3>1
  <2>4. CASE Port(e) = h /\ owed'[j].n = req
    <3>1. req # NoNumber  BY <1>4, <2>4
    <3> QED  BY <1>6, <2>2, <2>4, <3>1
  <2> QED  BY <1>3, <2>3, <2>4
<1>15. \A i \in DOMAIN r, j \in Mine(h)' : r[i].n < owed'[j].n
  <2> SUFFICES ASSUME NEW i \in DOMAIN r, NEW j \in Mine(h)' PROVE r[i].n < owed'[j].n
    OBVIOUS
  <2>1. CASE i + b \in DOMAIN s /\ r[i] = s[i + b]
    <3>1. CASE j + a \in Mine(h) /\ owed'[j] = owed[j + a]  BY <1>6, <2>1, <3>1
    <3>2. CASE Port(e) = h /\ owed'[j].n = req  BY <1>4, <1>6, <2>1, <3>2
    <3> QED  BY <1>3, <3>1, <3>2
  <2>2. CASE moves /\ r[i] = owed[1]
    <3>1. 1 \in Mine(h) /\ a = 1  BY <1>8, <2>2 DEF moves
    <3>2. CASE j + a \in Mine(h) /\ owed'[j] = owed[j + a]
      <4>1. j \in Nat /\ j # 0
        <5>1. j \in Nat  BY <1>3
        <5>2. DOMAIN owed' = 1 .. Len(owed')
          <6>1. Queue(Answer, owed, owed', By(e.answered), OwedPut(e))  BY OwedMoves
          <6> QED  BY <6>1, Lengths DEF Queue
        <5>3. j \in DOMAIN owed'  BY DEF Mine
        <5> QED  BY <5>1, <5>2, <5>3
      <4>2. 1 < j + a  BY <3>1, <4>1
      <4> QED  BY <1>6, <2>2, <3>1, <3>2, <4>2
    <3>3. CASE Port(e) = h /\ owed'[j].n = req  BY <1>4, <1>6, <2>2, <3>1, <3>3
    <3> QED  BY <1>3, <3>2, <3>3
  <2> QED  BY <1>2, <2>1, <2>2
<1>16. reader'[h].req # NoNumber => /\ \A i \in DOMAIN r : r[i].n < reader'[h].req
                                    /\ \A j \in Mine(h)' : owed'[j].n < reader'[h].req
  <2> SUFFICES ASSUME reader'[h].req # NoNumber
               PROVE  /\ \A i \in DOMAIN r : r[i].n < reader'[h].req
                      /\ \A j \in Mine(h)' : owed'[j].n < reader'[h].req
    OBVIOUS
  <2>1. CASE asks
    <3>1. reader'[h].req = L + 1  BY <1>4, <2>1
    <3>2. ASSUME NEW i \in DOMAIN r PROVE r[i].n \in Nat /\ r[i].n <= L
      <4>1. CASE i + b \in DOMAIN s /\ r[i] = s[i + b]  BY <1>1, <1>8, <4>1
      <4>2. CASE moves /\ r[i] = owed[1]
        <5>1. 1 \in Mine(h)  BY <4>2 DEF moves
        <5> QED  BY <1>1, <1>8, <4>2, <5>1
      <4> QED  BY <1>2, <4>1, <4>2
    <3>3. ASSUME NEW j \in Mine(h)' PROVE owed'[j].n \in Nat /\ owed'[j].n <= L
      <4>1. CASE j + a \in Mine(h) /\ owed'[j] = owed[j + a]  BY <1>1, <1>8, <4>1
      <4>2. CASE Port(e) = h /\ owed'[j].n = req  BY <1>1, <1>4, <1>8, <4>2
      <4> QED  BY <1>3, <4>1, <4>2
    <3>4. \A x \in Nat : x <= L => x < L + 1  BY <1>8
    <3> QED  BY <3>1, <3>2, <3>3, <3>4
  <2>2. CASE ~asks
    <3>1. Port(e) # h /\ reader'[h].req = req /\ req # NoNumber  BY <1>4, <2>2
    <3>2. ASSUME NEW i \in DOMAIN r PROVE r[i].n < req
      <4>1. CASE i + b \in DOMAIN s /\ r[i] = s[i + b]  BY <1>6, <3>1, <4>1
      <4>2. CASE moves /\ r[i] = owed[1]
        <5>1. 1 \in Mine(h)  BY <4>2 DEF moves
        <5> QED  BY <1>6, <3>1, <4>2, <5>1
      <4> QED  BY <1>2, <4>1, <4>2
    <3>3. ASSUME NEW j \in Mine(h)' PROVE owed'[j].n < req
      <4>1. j + a \in Mine(h) /\ owed'[j] = owed[j + a]  BY <1>3, <3>1
      <4> QED  BY <1>6, <3>1, <4>1
    <3> QED  BY <3>1, <3>2, <3>3
  <2> QED  BY <2>1, <2>2
<1>17. InOrder(h)'  BY <1>13, <1>14, <1>15, <1>16 DEF InOrder, r
<1>18. Room(h)'
  <2> DEFINE Q == Len(zq.items)  k == Len(e.in)
  <2>1. Len(reader'[h].tokens) = Q - f + k /\ k \in {0, 1} /\ Q \in Nat /\ f \in {0, 1} /\ f <= Q
    <3>1. Lanes'  BY LanesKeep
    <3>2. Len(reader'[h].tokens) = Len(zq'.items)  BY <3>1 DEF Lanes
    <3>3. Len(zq'.items) = Q - f + k /\ f \in {0, 1} /\ f <= Q  BY LaneMoves, Accepted DEF Queue, f
    <3>4. k \in {0, 1} /\ Q \in Nat  BY Accepted, Sizes
    <3> QED  BY <3>2, <3>3, <3>4
  <2>2. Q <= ReadDepth /\ ReadDepth \in Nat
    <3>1. Len(reader[h].tokens) = Q /\ Room(h)  BY DEF Lanes, Readers
    <3> QED  BY <3>1, DepthsAssumption DEF Room
  <2>3. k = 1 => Q < ReadDepth
    <3> SUFFICES ASSUME k = 1 PROVE Q < ReadDepth
      OBVIOUS
    <3>1. e.in # <<>>  BY Accepted
    <3>2. worker_ready(e.in[1], Port(e), e.colored)  BY <3>1, Updates
    <3>3. request_count_q(h) < ReadDepth  BY <3>2 DEF worker_ready, reader_ready
    <3>4. request_count_q(h) = Q  BY DEF request_count_q, Lanes
    <3> QED  BY <3>3, <3>4
  <2> HIDE DEF Q, k
  <2>4. Q - f + k <= ReadDepth  BY <2>1, <2>2, <2>3
  <2> QED  BY <2>1, <2>4 DEF Room
<1> QED  BY <1>11, <1>12, <1>17, <1>18

(* Numbers moved along are as many as before.                                *)
LEMMA Slid ==
  ASSUME NEW A \in SUBSET Nat, NEW C \in SUBSET Nat, NEW a \in Nat, IsFiniteSet(A),
         \A j \in A : j - a \in C, \A i \in C : i + a \in A
  PROVE  IsFiniteSet(C) /\ Cardinality(C) = Cardinality(A)
<1> DEFINE f == [j \in A |-> j - a]
<1>1. f \in [A -> C]  OBVIOUS
<1>2. \A i, j \in A : f[i] = f[j] => i = j
  <2> SUFFICES ASSUME NEW i \in A, NEW j \in A, f[i] = f[j] PROVE i = j
    OBVIOUS
  <2>1. i \in Nat /\ j \in Nat /\ i - a = j - a  OBVIOUS
  <2> QED  BY <2>1
<1>3. \A i \in C : \E j \in A : f[j] = i
  <2> SUFFICES ASSUME NEW i \in C PROVE \E j \in A : f[j] = i
    OBVIOUS
  <2>1. i + a \in A /\ i \in Nat /\ (i + a) - a = i  OBVIOUS
  <2>2. f[i + a] = i  BY <2>1
  <2> QED  BY <2>1, <2>2
<1> HIDE DEF f
<1>4. f \in Bijection(A, C)  BY <1>1, <1>2, <1>3, Fun_IsBij
<1>5. ExistsBijection(A, C)  BY <1>4 DEF ExistsBijection
<1> QED  BY <1>5, FS_Bijection

(* The answers owed to a port, counted.                                      *)
LEMMA OwedCount ==
  ASSUME Types, Lanes, Output, Readers, NEW e, Clocked(e), NEW q \in Ports
  PROVE  /\ IsFiniteSet(Mine(q)) /\ Cardinality(Mine(q)) \in Nat
         /\ Cardinality(Mine(q)') =
              Cardinality(Mine(q)) - (IF e.answered /\ 1 \in Mine(q) THEN 1 ELSE 0)
                                   + (IF Port(e) = q THEN 1 ELSE 0)
<1> DEFINE W == Len(owed)  a == By(e.answered)  A == Mine(q)  B == Mine(q)'
           A0 == {j \in A : j > a}  C == {j \in B : j <= W - a}
<1>1. /\ W \in Nat /\ a \in {0, 1} /\ a <= W
      /\ \A j \in B :
           /\ j \in Nat
           /\ \/ j <= W - a /\ j + a \in A
              \/ j = W - a + 1 /\ Port(e) = q
      /\ \A j \in A : j > a => j - a \in B
      /\ Port(e) = q => W - a + 1 \in B
  BY OwedFlow
<1>2. A \subseteq 1 .. W /\ A \in SUBSET Nat /\ (e.answered <=> a = 1)
  <2>1. A \subseteq 1 .. W  BY Sizes DEF Mine
  <2>2. e.answered <=> a = 1
    <3>1. e.answered \in BOOLEAN  BY Updates
    <3> QED  BY <3>1 DEF By
  <2> HIDE DEF A
  <2> QED  BY <1>1, <2>1, <2>2
<1>3. \A j \in B : j >= 1
  <2>1. Queue(Answer, owed, owed', By(e.answered), OwedPut(e))  BY OwedMoves
  <2>2. DOMAIN owed' = 1 .. Len(owed')  BY <2>1, Lengths DEF Queue
  <2>3. Len(owed') \in Nat  BY <2>1, Lengths DEF Queue
  <2> QED  BY <2>2, <2>3 DEF Mine
<1> HIDE DEF W, a, A, B
<1>4. IsFiniteSet(A) /\ Cardinality(A) \in Nat
  <2>1. IsFiniteSet(1 .. W)  BY <1>1, FS_Interval
  <2> QED  BY <1>2, <2>1, FS_Subset, FS_CardinalityType
<1>5. IsFiniteSet(A0) /\ Cardinality(A0) = Cardinality(A) - (IF e.answered /\ 1 \in A THEN 1 ELSE 0)
  <2>1. CASE e.answered
    <3>1. a = 1 /\ \A j \in A : j > 1 <=> j # 1  BY <1>1, <1>2, <2>1
    <3>2. A0 = A \ {1}  BY <3>1
    <3> HIDE DEF A0
    <3> QED  BY <1>4, <2>1, <3>2, FS_RemoveElement
  <2>2. CASE ~e.answered
    <3>1. a = 0 /\ \A j \in A : j > 0  BY <1>1, <1>2, <2>2
    <3>2. A0 = A  BY <3>1
    <3> QED  BY <1>4, <2>2, <3>2
  <2> QED  BY <2>1, <2>2
<1>6. IsFiniteSet(C) /\ Cardinality(C) = Cardinality(A0)
  <2>1. A0 \in SUBSET Nat /\ C \in SUBSET Nat /\ a \in Nat
    <3>1. A0 \in SUBSET Nat  BY <1>2
    <3>2. \A j \in B : j \in Nat  BY <1>1
    <3> QED  BY <1>1, <3>1, <3>2
  <2>2. \A j \in A0 : j - a \in C
    <3> SUFFICES ASSUME NEW j \in A0 PROVE j - a \in C
      OBVIOUS
    <3>1. j - a \in B /\ j \in 1 .. W  BY <1>1, <1>2
    <3> QED  BY <1>1, <3>1
  <2>3. \A i \in C : i + a \in A0
    <3> SUFFICES ASSUME NEW i \in C PROVE i + a \in A0
      OBVIOUS
    <3>1. i \in Nat /\ i <= W - a /\ i >= 1  BY <1>1, <1>3
    <3>2. i + a \in A  BY <1>1, <3>1
    <3> QED  BY <1>1, <3>1, <3>2
  <2> HIDE DEF A0, C
  <2> QED  BY <1>5, <2>1, <2>2, <2>3, Slid
<1>7. Cardinality(B) = Cardinality(C) + (IF Port(e) = q THEN 1 ELSE 0)
  <2>1. CASE Port(e) = q
    <3>1. B = C \cup {W - a + 1} /\ W - a + 1 \notin C  BY <1>1, <2>1
    <3> HIDE DEF C
    <3> QED  BY <1>6, <2>1, <3>1, FS_AddElement
  <2>2. CASE Port(e) # q
    <3>1. B = C  BY <1>1, <2>2
    <3> HIDE DEF C
    <3>2. Cardinality(C) \in Nat  BY <1>6, FS_CardinalityType
    <3> QED  BY <2>2, <3>1, <3>2
  <2> QED  BY <2>1, <2>2
<1>8. /\ IsFiniteSet(A) /\ Cardinality(A) \in Nat
      /\ Cardinality(B) = Cardinality(A) - (IF e.answered /\ 1 \in A THEN 1 ELSE 0)
                                         + (IF Port(e) = q THEN 1 ELSE 0)
  BY <1>4, <1>5, <1>6, <1>7
<1> QED  BY <1>8 DEF A, B

(* An edge keeps what the status says of the writes.                         *)
LEMMA StatusKeep ==
  ASSUME Types, Lanes, Output, Readers, Status, NEW e, Clocked(e)
  PROVE  Status' /\ writer'.outstanding \in Nat
<1>1. claimed' = IF completion_marker THEN out_line.color ELSE claimed  BY DEF Clocked, BackClock, History
<1>2. status'.set = (status.pending /\ ~busy)  BY DEF Clocked, BackClock, RasterizerStatus
<1>3. /\ Left \in Nat /\ Left' = Left + By(Gone) /\ By(Gone) \in {0, 1}
      /\ completion_marker \/ to_writer => Left' = Left + 1 /\ out_line.n = Left + 1 /\ out_line.color = Left + 1
      /\ ~(completion_marker /\ to_writer)
  <2>1. By(Gone) \in {0, 1} /\ (Gone => By(Gone) = 1)  BY DEF By
  <2>2. completion_marker \/ to_writer => Gone  BY Leaving
  <2> QED  BY <2>1, <2>2, Leaving
<1>4. claimed \in 0 .. Left  BY DEF Status
<1>5. claimed' \in 0 .. Left'
  <2>1. CASE completion_marker  BY <1>1, <1>3, <2>1
  <2>2. CASE ~completion_marker
    <3>1. claimed' = claimed  BY <1>1, <2>2
    <3> QED  BY <1>3, <1>4, <3>1
  <2> QED  BY <2>1, <2>2
<1>6. writer'.outstanding = Cardinality(Mine("writer")') /\ writer'.outstanding \in Nat
  <2> DEFINE W == "writer"  A == Cardinality(Mine("writer"))  B == Cardinality(Mine("writer")')
             acks == e.answered /\ 1 \in Mine("writer")  grants == Port(e) = "writer"
  <2>1. /\ A \in Nat
        /\ B = A - (IF acks THEN 1 ELSE 0) + (IF grants THEN 1 ELSE 0)
    <3>1. "writer" \in Ports  BY DEF Ports
    <3> QED  BY <3>1, OwedCount
  <2>2. (e.answered /\ Head(owed).to = "writer") <=> acks
    <3>1. e.answered => 1 \in DOMAIN owed /\ Head(owed) = owed[1]
      <4>1. "lo" \in Halves  BY DEF Halves
      <4> QED  BY <4>1, AnswerMoves
    <3> QED  BY <3>1 DEF Mine
  <2>3. writer'.outstanding = writer.outstanding + (IF grants /\ ~acks THEN 1 ELSE 0)
                                                 - (IF acks /\ ~grants THEN 1 ELSE 0)
    BY <2>2, WriterUpdate
  <2>4. writer.outstanding = A  BY DEF Status
  <2>5. acks => A >= 1
    <3> SUFFICES ASSUME acks PROVE A >= 1
      OBVIOUS
    <3>1. "writer" \in Ports  BY DEF Ports
    <3>2. IsFiniteSet(Mine("writer")) /\ Mine("writer") # {}  BY <3>1, OwedCount
    <3>3. A # 0  BY <3>2, FS_EmptySet
    <3> QED  BY <2>1, <3>3
  <2> HIDE DEF A, B, acks, grants
  <2>6. writer'.outstanding = B /\ B \in Nat  BY <2>1, <2>3, <2>4, <2>5
  <2> QED  BY <2>6 DEF B
<1>7. status'.set => /\ writer'.state # "IDLE" => writer'.line.n > claimed'
                     /\ \A i \in Mine("writer")' : owed'[i].n > claimed'
  <2> SUFFICES ASSUME status'.set
               PROVE  /\ writer'.state # "IDLE" => writer'.line.n > claimed'
                      /\ \A i \in Mine("writer")' : owed'[i].n > claimed'
    OBVIOUS
  <2>1. writer.state = "IDLE" /\ writer.outstanding = 0  BY <1>2 DEF busy
  <2>2. Mine("writer") = {} /\ Port(e) # "writer"
    <3>1. "writer" \in Ports  BY DEF Ports
    <3>2. IsFiniteSet(Mine("writer")) /\ Cardinality(Mine("writer")) = 0  BY <2>1, <3>1, OwedCount DEF Status
    <3> QED  BY <2>1, <3>2, FS_EmptySet, PortFacts
  <2>3. Mine("writer")' = {}
    <3>1. "writer" \in Ports  BY DEF Ports
    <3>2. \A j \in Mine("writer")' : \/ j + By(e.answered) \in Mine("writer")
                                     \/ Port(e) = "writer"
      BY <3>1, OwedFlow
    <3> QED  BY <2>2, <3>2
  <2>4. writer'.state # "IDLE" => writer'.line.n > claimed'
    <3> SUFFICES ASSUME writer'.state # "IDLE" PROVE writer'.line.n > claimed'
      OBVIOUS
    <3>1. to_writer /\ writer'.line = out_line  BY <2>1, WriterUpdate
    <3>2. claimed' = claimed /\ out_line.n = Left + 1  BY <1>1, <1>3, <3>1
    <3> QED  BY <1>3, <1>4, <3>1, <3>2
  <2> QED  BY <2>3, <2>4
<1> QED  BY <1>5, <1>6, <1>7 DEF Status

(* What a write of the writer puts where.                                    *)
Stores(p, h, port) ==
  /\ lines[writer.line.n].place = p /\ h \in writer.line.mask
  /\ (port = "DEPTH1" /\ h = "lo") \/ (port = "DEPTH2" /\ h = "hi")
Paints(p, h, c) ==
  lines[writer.line.n].place = p /\ h \in writer.line.mask /\ writer.state = c

(* A write changes the half or the plane it is about and nothing else.       *)
LEMMA WrittenFacts ==
  ASSUME Types, Lanes, Output, writer.state # "IDLE"
  PROVE  /\ Written(mem) \in Surfaces
         /\ \A p \in Place, h \in Halves :
              /\ Written(mem)[p].depth[h] = IF Stores(p, h, writer.state) THEN lines[writer.line.z].z
                                            ELSE mem[p].depth[h]
              /\ \A c \in Colors : Written(mem)[p].color[c][h] = IF Paints(p, h, c) THEN writer.line.color
                                                                 ELSE mem[p].color[c][h]
<1> DEFINE w == writer.line  q == lines[w.n].place  s == writer.state  m == Written(mem)
<1>1. /\ w.n \in 1 .. Len(lines) /\ w.z = w.n /\ w.color \in Nat
      /\ lines[w.n] \in Line \cup {MarkerLine}
  <2>1. w.n \in 1 .. Left /\ w.z = w.n /\ w \in OutLine  BY DEF Output, Types
  <2> DEFINE L == Len(lines)  M == Len(meta.items)  D == Len(data.items)
  <2>2. L \in Nat /\ M \in Nat /\ D \in Nat /\ Left = L - M - D  BY Sizes DEF Left
  <2> HIDE DEF L, M, D
  <2>3. w.n \in 1 .. L  BY <2>1, <2>2
  <2>4. lines \in Seq(Line \cup {MarkerLine})  BY DEF Types
  <2>5. lines[w.n] \in Line \cup {MarkerLine}  BY <2>3, <2>4, ElementOfSeq DEF L
  <2> QED  BY <2>1, <2>3, <2>5 DEF OutLine, L
<1>2. q \in Place /\ lines[w.z].z \in Nat  BY <1>1, LineTypes
<1>3. mem \in Surfaces /\ s \in WriterStates  BY DEF Types
<1> HIDE DEF q, w
<1>4. CASE s \in Colors
  <2>1. m = [mem EXCEPT ![q].color[s] = [h \in Halves |-> IF h \in w.mask THEN w.color ELSE @[h]]]
    BY <1>4 DEF Written, q, w
  <2>2. m \in Surfaces
    <3>1. [h \in Halves |-> IF h \in w.mask THEN w.color ELSE mem[q].color[s][h]] \in [Halves -> Nat]
      BY <1>1, <1>2, <1>3, <1>4 DEF Surfaces
    <3>2. [mem[q].color EXCEPT ![s] = [h \in Halves |-> IF h \in w.mask THEN w.color ELSE @[h]]]
            \in [Colors -> [Halves -> Nat]]
      BY <1>1, <1>2, <1>3, <1>4, <3>1 DEF Surfaces
    <3> DEFINE colors == [mem[q].color EXCEPT ![s] = [h \in Halves |-> IF h \in w.mask THEN w.color ELSE @[h]]]
    <3>3. m = [mem EXCEPT ![q].color = colors]  BY <2>1
    <3> HIDE DEF colors
    <3> QED  BY <1>2, <1>3, <3>2, <3>3 DEF Surfaces, colors
  <2>3. ASSUME NEW p \in Place, NEW h \in Halves
        PROVE  /\ m[p].depth[h] = mem[p].depth[h]
               /\ \A c \in Colors : m[p].color[c][h] = IF q = p /\ h \in w.mask /\ s = c THEN w.color
                                                       ELSE mem[p].color[c][h]
    BY <1>2, <1>3, <1>4, <2>1 DEF Surfaces
  <2>4. s # "DEPTH1" /\ s # "DEPTH2"  BY <1>4 DEF Colors
  <2> QED  BY <2>2, <2>3, <2>4 DEF Stores, Paints, q, w
<1>5. CASE s \notin Colors
  <2> DEFINE g == IF s = "DEPTH1" THEN "lo" ELSE "hi"
  <2>1. m = IF g \in w.mask THEN [mem EXCEPT ![q].depth[g] = lines[w.z].z] ELSE mem
    BY <1>5 DEF Written, q, w
  <2>2. g \in Halves /\ s \in {"DEPTH1", "DEPTH2"} /\ (g = "lo" <=> s = "DEPTH1")
    BY <1>3, <1>5 DEF Halves, WriterStates
  <2> HIDE DEF g
  <2>3. m \in Surfaces
    <3>1. [mem[q].depth EXCEPT ![g] = lines[w.z].z] \in [Halves -> Nat]  BY <1>2, <1>3, <2>2 DEF Surfaces
    <3>2. [mem EXCEPT ![q].depth[g] = lines[w.z].z] \in Surfaces  BY <1>2, <1>3, <3>1 DEF Surfaces
    <3> QED  BY <1>3, <2>1, <3>2
  <2>4. ASSUME NEW p \in Place, NEW h \in Halves
        PROVE  /\ m[p].depth[h] = IF q = p /\ h \in w.mask /\ h = g THEN lines[w.z].z ELSE mem[p].depth[h]
               /\ \A c \in Colors : m[p].color[c][h] = mem[p].color[c][h]
    BY <1>2, <1>3, <2>1, <2>2 DEF Surfaces
  <2>5. ASSUME NEW h \in Halves PROVE h = g <=> (s = "DEPTH1" /\ h = "lo") \/ (s = "DEPTH2" /\ h = "hi")
    <3>1. CASE s = "DEPTH1"  BY <2>2, <3>1 DEF Halves
    <3>2. CASE s = "DEPTH2"  BY <2>2, <3>2 DEF Halves
    <3> QED  BY <2>2, <3>1, <3>2
  <2> QED  BY <1>5, <2>3, <2>4, <2>5 DEF Stores, Paints, q, w
<1> QED  BY <1>4, <1>5

(* An edge keeps the types.                                                  *)
LEMMA TypesKeep ==
  ASSUME Types, Lanes, Output, Readers, Status, NEW e, Clocked(e)
  PROVE  Types'
<1>1. /\ lines' \in Seq(Line \cup {MarkerLine})
      /\ zq' \in Fifos(Nat) /\ meta' \in Fifos(Nat) /\ maskq' \in Fifos(Masked) /\ data' \in Fifos(OutLine)
  BY Accepted, LaneMoves, MaskMoves, LineMoves
<1>2. color' \in Seq(Nat) /\ owed' \in Seq(Answer)  BY LaneMoves, OwedMoves DEF Queue
<1>3. reader' \in [Halves -> Reader(Fifos(Answer))]
  <2>1. ASSUME NEW h \in Halves PROVE reader'[h] \in Reader(Fifos(Answer))
    <3>1. reader'[h] = [req |-> reader'[h].req, tokens |-> reader'[h].tokens, resp |-> reader'[h].resp]
      BY ReaderUpdate
    <3>2. reader'[h].tokens \in Seq(Token)  BY TokenMoves DEF Queue
    <3>3. reader'[h].resp \in Fifos(Answer)  BY AnswerMoves
    <3>4. reader'[h].req \in Nat
      <4>1. reader[h].req \in Nat /\ Len(lines) \in Nat  BY Sizes
      <4>2. reader'[h].req = IF Covers(e, h) THEN Len(lines) + 1
                             ELSE IF Port(e) = h THEN NoNumber ELSE reader[h].req
        BY ReaderUpdate
      <4> QED  BY <4>1, <4>2 DEF NoNumber
    <3> QED  BY <3>1, <3>2, <3>3, <3>4 DEF Reader
  <2>2. "lo" \in Halves  BY DEF Halves
  <2>3. reader' = [g \in Halves |-> reader'[g]]  BY <2>2, ReaderUpdate
  <2> QED  BY <2>1, <2>3
<1>4. status' \in [pending: BOOLEAN, set: BOOLEAN, valid: BOOLEAN]
  <2>1. status \in [pending: BOOLEAN, set: BOOLEAN, valid: BOOLEAN]  BY DEF Types
  <2>2. status' = [pending |-> completion_marker \/ (status.pending /\ busy),
                   set     |-> status.pending /\ ~busy,
                   valid   |-> (status.valid \/ status.set) /\ ~Starts(e)]
    BY DEF Clocked, BackClock, RasterizerStatus, Starts
  <2> QED  BY <2>1, <2>2
<1>5. writer' \in [state: WriterStates, line: OutLine, outstanding: Nat]
  <2>1. writer'.state \in WriterStates  BY WriterUpdate
  <2>2. writer'.outstanding \in Nat  BY StatusKeep
  <2>3. writer'.line \in OutLine
    <3>1. CASE to_writer
      <4>1. out_line \in OutLine /\ writer'.line = out_line  BY <3>1, Leaving, WriterUpdate
      <4> QED  BY <4>1
    <3>2. CASE ~to_writer
      <4>1. writer.line \in OutLine /\ writer'.line = writer.line  BY <3>2, WriterUpdate DEF Types
      <4> QED  BY <4>1
    <3> QED  BY <3>1, <3>2
  <2>4. writer' = [line |-> writer'.line, state |-> writer'.state, outstanding |-> writer'.outstanding]
    BY WriterUpdate
  <2> QED  BY <2>1, <2>2, <2>3, <2>4
<1>6. mem' \in Surfaces
  <2>1. mem' = IF Starts(e) THEN Cleared ELSE IF Port(e) = "writer" THEN Written(mem) ELSE mem
    BY DEF Clocked, BackClock, Memory, Starts, Port
  <2>2. Cleared \in Surfaces  BY DEF Cleared, Surfaces, NoNumber
  <2>3. Port(e) = "writer" => Written(mem) \in Surfaces  BY PortFacts, WrittenFacts
  <2>4. mem \in Surfaces  BY DEF Types
  <2> QED  BY <2>1, <2>2, <2>3, <2>4
<1> QED  BY <1>1, <1>2, <1>3, <1>4, <1>5, <1>6 DEF Types

-------------------------------------------------------------------------------

(* The invariant holds at first.                                             *)
LEMMA LinesInitially ==
  ASSUME BackInit
  PROVE  IInv
<1> USE DEF BackInit
<1>1. <<>> \in Seq(Nat) /\ <<>> \in Seq(Masked) /\ <<>> \in Seq(OutLine) /\ <<>> \in Seq(Answer)
      /\ <<>> \in Seq(Token) /\ <<>> \in Seq(Line \cup {MarkerLine}) /\ Len(<<>>) = 0
  BY EmptySeq
<1>2. DOMAIN <<>> = {}  OBVIOUS
<1>3. EmptyFifo.items = <<>> /\ EmptyFifo.valid_q = FALSE  BY DEF EmptyFifo
<1>4. ASSUME NEW S, <<>> \in Seq(S) PROVE EmptyFifo \in Fifos(S)
  <2>1. EmptyFifo \in [items: Seq(S), valid_q: BOOLEAN]  BY <1>4 DEF EmptyFifo
  <2> QED  BY <1>3, <2>1 DEF Fifos
<1>5. \A h \in Halves : reader[h] = [req |-> 0, tokens |-> <<>>, resp |-> EmptyFifo]  BY DEF NoNumber
<1>6. Types
  <2>1. reader \in [Halves -> Reader(Fifos(Answer))]
    <3>1. [req |-> 0, tokens |-> <<>>, resp |-> EmptyFifo] \in Reader(Fifos(Answer))
      BY <1>1, <1>4 DEF Reader
    <3> QED  BY <3>1 DEF NoNumber
  <2>2. writer \in [state: WriterStates, line: OutLine, outstanding: Nat]
    BY DEF WriterStates, OutLine, NoLine, NoNumber
  <2>3. mem \in Surfaces  BY DEF Cleared, Surfaces, NoNumber
  <2>4. zq \in Fifos(Nat) /\ meta \in Fifos(Nat) /\ maskq \in Fifos(Masked) /\ data \in Fifos(OutLine)
    BY <1>1, <1>4
  <2> QED  BY <1>1, <2>1, <2>2, <2>3, <2>4 DEF Types
<1>7. Lanes  BY <1>1, <1>2, <1>3, <1>5 DEF Lanes, Ends
<1>8. Left = 0
  <2>1. Len(lines) = 0 /\ Len(meta.items) = 0 /\ Len(data.items) = 0  BY <1>1, <1>3
  <2> QED  BY <2>1 DEF Left
<1>9. Output  BY <1>2, <1>3, <1>8 DEF Output
<1>10. \A q \in Ports : Mine(q) = {}  BY <1>2 DEF Mine
<1>11. Readers
  <2> SUFFICES ASSUME NEW h \in Halves
               PROVE  ReadsAreTokens(h) /\ TokensAreRead(h) /\ InOrder(h) /\ Room(h)
    BY DEF Readers
  <2>1. Mine(h) = {}  BY <1>10 DEF Ports
  <2>2. ReadsAreTokens(h) /\ InOrder(h)  BY <1>2, <1>3, <1>5, <2>1 DEF ReadsAreTokens, InOrder, NoNumber
  <2>3. TokensAreRead(h)  BY <1>1 DEF TokensAreRead
  <2>4. Room(h)  BY <1>1, <1>5, DepthsAssumption DEF Room
  <2> QED  BY <2>2, <2>3, <2>4
<1>12. Status
  <2>1. Mine("writer") = {} /\ Cardinality({}) = 0  BY <1>10, FS_EmptySet DEF Ports
  <2>2. writer.outstanding = 0 /\ ~status.set /\ claimed = 0  BY DEF NoNumber
  <2>3. claimed \in 0 .. Left  BY <1>8, <2>2
  <2>4. writer.outstanding = Cardinality(Mine("writer"))  BY <2>1, <2>2
  <2> HIDE DEF BackInit
  <2> QED  BY <2>2, <2>3, <2>4 DEF Status
<1> QED  BY <1>6, <1>7, <1>9, <1>11, <1>12 DEF IInv

(* Every step keeps it.                                                      *)
LEMMA LinesStep ==
  ASSUME IInv, [BackNext]_backVars
  PROVE  IInv'
<1>1. CASE BackNext
  <2>1. PICK e : Clocked(e)  BY <1>1, EveryStep
  <2>2. Types /\ Lanes /\ Output /\ Readers /\ Status  BY DEF IInv
  <2>3. Lanes' /\ Output' /\ Status' /\ Types'  BY <2>1, <2>2, LanesKeep, OutputKeep, StatusKeep, TypesKeep
  <2>4. Readers'
    <3>1. ASSUME NEW h \in Halves PROVE ReadsAreTokens(h)' /\ TokensAreRead(h)' /\ InOrder(h)' /\ Room(h)'
      BY <2>1, <2>2, ReaderKeep
    <3> QED  BY <3>1 DEF Readers
  <2> QED  BY <2>3, <2>4 DEF IInv
<1>2. CASE UNCHANGED backVars
  <2>1. Types' = Types /\ Lanes' = Lanes /\ Output' = Output
    BY <1>2 DEF backVars, Types, Lanes, Ends, Output, Left
  <2>2. Readers' = Readers
    BY <1>2 DEF backVars, Readers, ReadsAreTokens, TokensAreRead, InOrder, Room, Reads, Mine
  <2>3. Status' = Status  BY <1>2 DEF backVars, Status, Left, Mine
  <2> QED  BY <2>1, <2>2, <2>3 DEF IInv
<1> QED  BY <1>1, <1>2

(***************************************************************************)
(* The invariant of the lanes, the readers and the status.                 *)
(***************************************************************************)
THEOREM LinesInvariant == BackSpec => []IInv
<1> QED  BY LinesInitially, LinesStep, PTL DEF BackSpec

(* The reads a reader has made are those its tokens stand for.               *)
LEMMA ReadsAreThoseOfTokens ==
  ASSUME IInv
  PROVE  ReadsMatchTokens
<1> SUFFICES ASSUME NEW h \in Halves
             PROVE  LET answers == Numbered(reader[h].resp.items)
                        mine == {i \in DOMAIN owed : owed[i].to = h}
                        waiting == {owed[i].n : i \in mine}
                        presented == {reader[h].req} \ {NoNumber}
                    IN  /\ Image(answers) \cup waiting \cup presented
                             = {t.n : t \in {x \in Image(reader[h].tokens) : ~x.zero}}
                        /\ Increasing(Numbered(reader[h].tokens)) /\ Increasing(answers)
                        /\ \A i, j \in mine : i < j => owed[i].n < owed[j].n
                        /\ \A a \in Image(answers), w \in waiting : a < w
                        /\ \A a \in Image(answers) \cup waiting, r \in presented : a < r
  BY DEF ReadsMatchTokens
<1> DEFINE s == reader[h].resp.items  t == reader[h].tokens  req == reader[h].req
           L == Len(lines)  Q == Len(zq.items)
           waiting == {owed[i].n : i \in Mine(h)}  presented == {req} \ {NoNumber}
           answers == Numbered(s)  tokens == {x.n : x \in {y \in Image(t) : ~y.zero}}
<1>1. Types /\ Lanes /\ Readers  BY DEF IInv
<1>2. /\ L \in Nat /\ Q \in Nat /\ Q <= L /\ DOMAIN t = 1 .. Q /\ DOMAIN s = 1 .. Len(s)
      /\ Len(s) \in Nat
  BY <1>1, Sizes
<1>3. /\ \A i \in DOMAIN s : Reads(h, s[i].n)
      /\ \A i \in Mine(h) : Reads(h, owed[i].n)
      /\ req # NoNumber => Reads(h, req)
  BY <1>1 DEF Readers, ReadsAreTokens
<1>4. \A n \in 1 .. L : Reads(h, n) => \/ \E i \in DOMAIN s : s[i].n = n
                                       \/ \E i \in Mine(h) : owed[i].n = n
                                       \/ req = n
  BY <1>1 DEF Readers, TokensAreRead
<1>5. /\ \A i, j \in DOMAIN s : i < j => s[i].n < s[j].n
      /\ \A i, j \in Mine(h) : i < j => owed[i].n < owed[j].n
      /\ \A i \in DOMAIN s, j \in Mine(h) : s[i].n < owed[j].n
      /\ req # NoNumber => /\ \A i \in DOMAIN s : s[i].n < req
                           /\ \A j \in Mine(h) : owed[j].n < req
  BY <1>1 DEF Readers, InOrder
<1>6. \A i \in DOMAIN t : t[i].n = L - Q + i /\ (t[i].zero <=> h \notin lines[t[i].n].cover)
  BY <1>1 DEF Lanes
<1>7. \A n : Reads(h, n) <=> n \in L - Q + 1 .. L /\ h \in lines[n].cover  BY <1>1 DEF Reads, Lanes
<1>8. \A n : Reads(h, n) => n \in 1 .. L /\ n # NoNumber
  <2>1. \A n : Reads(h, n) => n \in 1 .. L  BY <1>1, ReadsInRange
  <2> QED  BY <2>1 DEF NoNumber
<1>9. DOMAIN answers = DOMAIN s /\ \A i \in DOMAIN s : answers[i] = s[i].n  BY DEF Numbered
<1>10. DOMAIN Numbered(t) = DOMAIN t /\ \A i \in DOMAIN t : Numbered(t)[i] = t[i].n  BY DEF Numbered
<1>11. Image(answers) = {s[i].n : i \in DOMAIN s}  BY <1>9 DEF Image
<1> HIDE DEF s, t, req, L, Q, answers
<1>12. \A n : n \in tokens <=> Reads(h, n)
  <2> SUFFICES ASSUME NEW n PROVE n \in tokens <=> Reads(h, n)
    OBVIOUS
  <2>1. ASSUME n \in tokens PROVE Reads(h, n)
    <3>1. PICK i \in DOMAIN t : n = t[i].n /\ ~t[i].zero  BY <2>1 DEF Image
    <3>2. h \in lines[n].cover /\ n = L - Q + i /\ i \in 1 .. Q  BY <1>2, <1>6, <3>1
    <3>3. n \in L - Q + 1 .. L  BY <1>2, <3>2
    <3> QED  BY <1>7, <3>2, <3>3
  <2>2. ASSUME Reads(h, n) PROVE n \in tokens
    <3>1. n \in L - Q + 1 .. L /\ h \in lines[n].cover  BY <1>7, <2>2
    <3>2. n - (L - Q) \in DOMAIN t /\ L - Q + (n - (L - Q)) = n  BY <1>2, <3>1
    <3>3. t[n - (L - Q)].n = n /\ ~t[n - (L - Q)].zero  BY <1>6, <3>1, <3>2
    <3> QED  BY <3>2, <3>3 DEF Image
  <2> QED  BY <2>1, <2>2
<1>13. \A n : n \in Image(answers) \cup waiting \cup presented <=> Reads(h, n)
  <2> SUFFICES ASSUME NEW n PROVE n \in Image(answers) \cup waiting \cup presented <=> Reads(h, n)
    OBVIOUS
  <2>1. n \in Image(answers) => Reads(h, n)  BY <1>3, <1>11
  <2>2. n \in waiting \cup presented => Reads(h, n)  BY <1>3
  <2>3. Reads(h, n) => n \in Image(answers) \cup waiting \cup presented  BY <1>4, <1>8, <1>11
  <2> QED  BY <2>1, <2>2, <2>3
<1>14. Increasing(Numbered(t))
  <2> SUFFICES ASSUME NEW i \in DOMAIN t, NEW j \in DOMAIN t, i < j PROVE t[i].n < t[j].n
    BY <1>10 DEF Increasing
  <2>1. i \in 1 .. Q /\ j \in 1 .. Q /\ t[i].n = L - Q + i /\ t[j].n = L - Q + j  BY <1>2, <1>6
  <2> QED  BY <1>2, <2>1
<1>15. Increasing(answers)  BY <1>5, <1>9 DEF Increasing
<1>16. /\ \A a \in Image(answers), w \in waiting : a < w
       /\ \A a \in Image(answers) \cup waiting, r \in presented : a < r
  BY <1>5, <1>11
<1>17. Image(answers) \cup waiting \cup presented = tokens  BY <1>12, <1>13
<1> QED  BY <1>5, <1>14, <1>15, <1>16, <1>17 DEF Mine, s, t, req, answers

(* The lanes agree.                                                          *)
LEMMA LanesAgreeAlways ==
  ASSUME IInv
  PROVE  LanesAgree
<1> DEFINE L == Len(lines)  Q == Len(zq.items)  M == Len(meta.items)  K == Len(maskq.items)
           z == zq.items  m == meta.items
           masks == [i \in DOMAIN maskq.items |-> maskq.items[i].z]
<1>1. Types /\ Lanes /\ Output  BY DEF IInv
<1>2. /\ L \in Nat /\ Q \in Nat /\ M \in Nat /\ K \in Nat /\ K + Q = M
      /\ DOMAIN z = 1 .. Q /\ DOMAIN m = 1 .. M /\ DOMAIN maskq.items = 1 .. K
  BY <1>1, Sizes DEF Lanes
<1>3. z \in Seq(Nat) /\ m \in Seq(Nat) /\ color \in Seq(Nat) /\ maskq.items \in Seq(Masked)
  BY <1>1 DEF Types, Fifos
<1>4. /\ \A i \in 1 .. Q : z[i] = L - Q + i
      /\ \A i \in 1 .. M : m[i] = L - M + i
      /\ \A i \in 1 .. K : maskq.items[i].z = L - M + i
      /\ DOMAIN color = 1 .. M /\ \A i \in 1 .. M : color[i] = L - M + i
  <2>1. DOMAIN color = 1 .. M  BY <1>1, <1>3, Lengths DEF Lanes
  <2> QED  BY <1>1, <1>2, <2>1 DEF Lanes, Ends
<1>5. \A h \in Halves : Numbered(reader[h].tokens) = z
  <2> SUFFICES ASSUME NEW h \in Halves PROVE Numbered(reader[h].tokens) = z
    OBVIOUS
  <2> DEFINE t == reader[h].tokens
  <2>1. DOMAIN t = 1 .. Q  BY <1>1, Sizes
  <2>2. \A i \in 1 .. Q : t[i].n = L - Q + i  BY <1>1, <2>1 DEF Lanes
  <2> HIDE DEF t, Q, L
  <2>3. Numbered(t) = [i \in 1 .. Q |-> L - Q + i]  BY <2>1, <2>2 DEF Numbered
  <2>4. z = [i \in DOMAIN z |-> z[i]]  BY <1>3
  <2>5. z = [i \in 1 .. Q |-> L - Q + i]  BY <1>2, <1>4, <2>4
  <2> QED  BY <2>3, <2>5 DEF t
<1>6. color = m
  <2>1. color = [i \in DOMAIN color |-> color[i]] /\ m = [i \in DOMAIN m |-> m[i]]  BY <1>3
  <2> HIDE DEF M, L, m
  <2>2. color = [i \in 1 .. M |-> L - M + i]  BY <1>4, <2>1
  <2>3. m = [i \in 1 .. M |-> L - M + i]  BY <1>2, <1>4, <2>1
  <2> QED  BY <2>2, <2>3
<1>7. masks \o z = m
  <2>1. masks \in Seq(Nat) /\ Len(masks) = K
    <3>1. \A i \in 1 .. K : maskq.items[i] \in Masked  BY <1>2, <1>3, ElementOfSeq
    <3>2. \A i \in 1 .. K : maskq.items[i].z \in Nat  BY <3>1 DEF Masked
    <3>3. masks \in [1 .. K -> Nat]  BY <1>2, <3>2
    <3> HIDE DEF masks, K
    <3> QED  BY <1>2, <3>3, SeqDef, LenProperties
  <2>2. \A i \in 1 .. K : masks[i] = L - M + i  BY <1>2, <1>4
  <2> HIDE DEF masks
  <2>3. /\ masks \o z \in Seq(Nat) /\ Len(masks \o z) = K + Q
        /\ \A i \in 1 .. K + Q : (masks \o z)[i] = IF i <= K THEN masks[i] ELSE z[i - K]
    <3>1. Len(z) = Q  OBVIOUS
    <3> HIDE DEF z, Q, K, L
    <3>2. /\ masks \o z \in Seq(Nat) /\ Len(masks \o z) = Len(masks) + Len(z)
          /\ \A i \in 1 .. Len(masks) + Len(z) :
               (masks \o z)[i] = IF i <= Len(masks) THEN masks[i] ELSE z[i - Len(masks)]
      BY <1>3, <2>1, ConcatProperties
    <3> QED  BY <2>1, <3>1, <3>2
  <2> HIDE DEF L, Q, M, K, z, m
  <2>4. ASSUME NEW i \in 1 .. M PROVE (masks \o z)[i] = m[i]
    <3>1. CASE i <= K  BY <1>2, <1>4, <2>2, <2>3, <3>1
    <3>2. CASE ~(i <= K)
      <4>1. i - K \in 1 .. Q /\ L - Q + (i - K) = L - M + i  BY <1>2, <3>2
      <4>2. (masks \o z)[i] = z[i - K]  BY <1>2, <2>3, <3>2
      <4>3. z[i - K] = L - Q + (i - K) /\ m[i] = L - M + i  BY <1>4, <4>1
      <4> QED  BY <4>1, <4>2, <4>3
    <3> QED  BY <3>1, <3>2
  <2>5. Len(masks \o z) = Len(m) /\ m \in Seq(Nat)  BY <1>2, <1>3, <2>3 DEF M, m
  <2> QED  BY <1>2, <2>3, <2>4, <2>5, SeqEqual
<1>8. \A d \in Image(data.items) : d.color = d.n /\ d.z = d.n  BY <1>1 DEF Image, Output
<1> QED  BY <1>5, <1>6, <1>7, <1>8 DEF LanesAgree

(***************************************************************************)
(* Numbers that grow from step to step grow at least as fast as the steps; *)
(* a least counterexample would have to follow one that is none.           *)
(***************************************************************************)
Below == {p \in Nat \X Nat : p[1] < p[2]}

(* A set of numbers with a member has a least one.                           *)
LEMMA LeastExists ==
  ASSUME NEW S \in SUBSET Nat, S # {}
  PROVE  \E x \in S : \A y \in S : x <= y
<1>1. Below = OpToRel(<, Nat)  BY Zenon DEF Below, OpToRel
<1>2. IsWellFoundedOn(Below, Nat)  BY <1>1, NatLessThanWellFounded
<1>3. PICK x \in S : \A y \in S : <<y, x>> \notin Below  BY <1>2, WFMin
<1>4. ASSUME NEW y \in S PROVE x <= y
  <2>1. <<y, x>> \in Nat \X Nat /\ <<y, x>>[1] = y /\ <<y, x>>[2] = x  OBVIOUS
  <2>2. ~(y < x)  BY <1>3, <2>1 DEF Below
  <2> QED  BY <2>2
<1> QED  BY <1>4

(* The numbers of an increasing sequence leave room for those before them.   *)
LEMMA Climb ==
  ASSUME NEW N \in Nat, NEW low \in Int, NEW g,
         \A i \in 1 .. N : g[i] \in Int /\ g[i] >= low,
         \A i, j \in 1 .. N : i < j => g[i] < g[j]
  PROVE  \A i \in 1 .. N : g[i] >= low + i - 1
<1> DEFINE Bad == {i \in 1 .. N : ~(g[i] >= low + i - 1)}
<1>1. ASSUME Bad # {} PROVE FALSE
  <2>1. Bad \in SUBSET Nat  OBVIOUS
  <2>2. PICK i \in Bad : \A j \in Bad : i <= j  BY <1>1, <2>1, LeastExists
  <2>3. i \in 1 .. N /\ ~(g[i] >= low + i - 1) /\ g[i] \in Int  OBVIOUS
  <2>4. i > 1  BY <2>3
  <2>5. i - 1 \in 1 .. N /\ i - 1 \notin Bad /\ i - 1 < i  BY <2>2, <2>3, <2>4
  <2>6. g[i - 1] >= low + (i - 1) - 1 /\ g[i - 1] < g[i] /\ g[i - 1] \in Int  BY <2>3, <2>5
  <2> QED  BY <2>3, <2>6
<1> QED  BY <1>1

(***************************************************************************)
(* The answers a reader holds and the one on its way to it belong to lines *)
(* its tokens count, one line each; and of those there are not more than   *)
(* its FIFO has places.                                                    *)
(***************************************************************************)
LEMMA RoomForAnswers ==
  ASSUME IInv
  PROVE  AnswersFindRoom
<1> SUFFICES ASSUME owed # <<>>, NEW colored \in BOOLEAN PROVE d_ready(colored)
  BY DEF AnswersFindRoom
<1>1. Types /\ Lanes /\ Readers  BY DEF IInv
<1>2. /\ owed \in Seq(Answer) /\ Head(owed) = owed[1] /\ 1 \in DOMAIN owed /\ owed[1] \in Answer
  <2>1. owed \in Seq(Answer)  BY <1>1 DEF Types
  <2>2. Len(owed) >= 1 /\ Len(owed) \in Nat /\ DOMAIN owed = 1 .. Len(owed)  BY <2>1, Lengths
  <2> QED  BY <2>1, <2>2, HeadTailProperties
<1>3. CASE owed[1].to = "writer"  BY <1>2, <1>3 DEF d_ready
<1>4. CASE owed[1].to # "writer"
  <2> DEFINE h == owed[1].to  s == reader[h].resp.items  N == Len(s)
             L == Len(lines)  Q == Len(zq.items)  g == [i \in DOMAIN s |-> s[i].n]
  <2>1. h \in Halves /\ 1 \in Mine(h)  BY <1>2, <1>4 DEF Answer, Ports, Mine
  <2>2. /\ N \in Nat /\ DOMAIN s = 1 .. N /\ L \in Nat /\ Q \in Nat /\ Q <= L
        /\ \A i \in 1 .. N : s[i].n \in Nat
    BY <1>1, <2>1, Sizes
  <2>3. /\ \A i \in 1 .. N : Reads(h, s[i].n) /\ s[i].n < owed[1].n
        /\ \A i, j \in 1 .. N : i < j => s[i].n < s[j].n
        /\ Reads(h, owed[1].n)
    BY <1>1, <2>1, <2>2 DEF Readers, ReadsAreTokens, InOrder
  <2>4. \A n : Reads(h, n) => n \in 1 .. L /\ L - Q + 1 <= n  BY <1>1, <2>1, ReadsInRange
  <2>5. Q <= ReadDepth /\ ReadDepth \in Nat
    <3>1. Room(h) /\ Len(reader[h].tokens) = Q  BY <1>1, <2>1 DEF Readers, Lanes
    <3> QED  BY <3>1, DepthsAssumption DEF Room
  <2> HIDE DEF h, s, N, L, Q
  <2>6. /\ \A i \in 1 .. N : g[i] \in Int /\ g[i] >= L - Q + 1
        /\ \A i, j \in 1 .. N : i < j => g[i] < g[j]
        /\ \A i \in 1 .. N : g[i] < owed[1].n
    <3>1. ASSUME NEW i \in 1 .. N PROVE g[i] = s[i].n  BY <2>2
    <3>2. ASSUME NEW i \in 1 .. N PROVE g[i] \in Int /\ g[i] >= L - Q + 1 /\ g[i] < owed[1].n
      <4>1. g[i] \in 1 .. L /\ L - Q + 1 <= g[i] /\ g[i] < owed[1].n  BY <2>3, <2>4, <3>1, <3>2
      <4> QED  BY <2>2, <4>1
    <3>3. \A i, j \in 1 .. N : i < j => g[i] < g[j]  BY <2>3, <3>1
    <3> QED  BY <3>2, <3>3
  <2>7. L - Q + 1 \in Int /\ owed[1].n \in 1 .. L /\ L - Q + 1 <= owed[1].n  BY <2>2, <2>3, <2>4
  <2> HIDE DEF g
  <2>8. \A i \in 1 .. N : g[i] >= L - Q + 1 + i - 1  BY <2>2, <2>6, <2>7, Climb
  <2>9. N < Q
    <3>1. CASE N = 0  BY <2>2, <2>7, <3>1
    <3>2. CASE N # 0
      <4>1. N \in 1 .. N  BY <2>2, <3>2
      <4>2. g[N] >= L - Q + 1 + N - 1 /\ g[N] < owed[1].n /\ g[N] \in Int  BY <2>6, <2>8, <4>1
      <4> QED  BY <2>2, <2>7, <4>2
    <3> QED  BY <3>1, <3>2
  <2>10. N < ReadDepth  BY <2>2, <2>5, <2>9
  <2> QED  BY <1>2, <1>4, <2>10 DEF d_ready, InReady, N, s, h
<1> QED  BY <1>3, <1>4

(* What is still in the pipeline when the status is set comes after the line claimed. *)
LEMMA CompletionFromInvariant ==
  ASSUME IInv
  PROVE  CompletionMeansWritten
<1> SUFFICES ASSUME status.set
             PROVE  /\ \A n \in Image(meta.items) \cup {d.n : d \in Image(data.items)} : n > claimed
                    /\ writer.state # "IDLE" => writer.line.n > claimed
                    /\ \A i \in DOMAIN owed : owed[i].to = "writer" => owed[i].n > claimed
  BY DEF CompletionMeansWritten
<1> DEFINE L == Len(lines)  M == Len(meta.items)  D == Len(data.items)
<1>1. Types /\ Lanes /\ Output /\ Status  BY DEF IInv
<1>2. /\ L \in Nat /\ M \in Nat /\ D \in Nat /\ DOMAIN meta.items = 1 .. M /\ DOMAIN data.items = 1 .. D
      /\ Left = L - M - D /\ Left \in Nat
  <2>1. /\ L \in Nat /\ M \in Nat /\ D \in Nat /\ DOMAIN meta.items = 1 .. M /\ DOMAIN data.items = 1 .. D
    BY <1>1, Sizes
  <2>2. Left = L - M - D /\ Left >= 0  BY <1>1 DEF Left, Output
  <2> HIDE DEF L, M, D
  <2> QED  BY <2>1, <2>2
<1>3. claimed \in 0 .. Left  BY <1>1 DEF Status
<1>4. \A i \in 1 .. M : meta.items[i] = L - M + i  BY <1>1, <1>2 DEF Lanes, Ends
<1>5. \A i \in 1 .. D : data.items[i].n = Left + i  BY <1>1, <1>2 DEF Output
<1> HIDE DEF L, M, D
<1>6. \A i \in 1 .. M : meta.items[i] > claimed  BY <1>2, <1>3, <1>4
<1>7. \A i \in 1 .. D : data.items[i].n > claimed  BY <1>2, <1>3, <1>5
<1>8. \A n \in Image(meta.items) \cup {d.n : d \in Image(data.items)} : n > claimed
  BY <1>2, <1>6, <1>7 DEF Image
<1> QED  BY <1>1, <1>8 DEF Status, Mine

(***************************************************************************)
(* The lanes of the worker keep step with one another and with what they   *)
(* have asked of the memory, whatever the depths of their FIFOs and the    *)
(* order in which the memory, the colour lane and the front end move.      *)
(***************************************************************************)
THEOREM LanesAlwaysInStep == BackSpec => []LanesInStep
<1>1. IInv => LanesInStep
  BY ReadsAreThoseOfTokens, LanesAgreeAlways, RoomForAnswers DEF LanesInStep
<1> QED  BY <1>1, LinesInvariant, PTL

(***************************************************************************)
(* The status bit is set only when every line up to the completion line it *)
(* answers for is in the memory and acknowledged.                          *)
(***************************************************************************)
THEOREM CompletionAlwaysMeansWritten == BackSpec => []CompletionMeansWritten
<1>1. IInv => CompletionMeansWritten  BY CompletionFromInvariant
<1> QED  BY <1>1, LinesInvariant, PTL

-------------------------------------------------------------------------------
(* What an edge does to the frame and to the ghosts that record it.          *)
LEMMA GhostUpdate ==
  ASSUME NEW e, Clocked(e)
  PROVE  /\ first' = IF Starts(e) THEN Len(lines) + 1 ELSE first
         /\ markers' = IF Starts(e) THEN 0
                       ELSE IF e.in # <<>> /\ e.in[1].marker THEN markers + 1 ELSE markers
         /\ claimed' = IF completion_marker THEN out_line.color ELSE claimed
         /\ pictures' = pictures \o
              (IF e.in = <<>> THEN <<>> ELSE <<Drawn(Reference, e.in[1], Len(lines) + 1)>>)
         /\ mem' = IF Starts(e) THEN Cleared ELSE IF Port(e) = "writer" THEN Written(mem) ELSE mem
         /\ status'.pending = (completion_marker \/ (status.pending /\ busy))
         /\ status'.set = (status.pending /\ ~busy)
         /\ status'.valid = ((status.valid \/ status.set) /\ ~Starts(e))
<1>1. BackClock(e.in, e.grant, e.answered, e.colored, e.step)  BY DEF Clocked
<1>2. /\ first' = IF Starts(e) THEN Len(lines) + 1 ELSE first
      /\ markers' = IF Starts(e) THEN 0
                    ELSE IF e.in # <<>> /\ e.in[1].marker THEN markers + 1 ELSE markers
  BY <1>1 DEF BackClock, Software, Starts
<1>3. /\ claimed' = IF completion_marker THEN out_line.color ELSE claimed
      /\ pictures' = pictures \o
           (IF e.in = <<>> THEN <<>> ELSE <<Drawn(Reference, e.in[1], Len(lines) + 1)>>)
  BY <1>1 DEF BackClock, History
<1>4. mem' = IF Starts(e) THEN Cleared ELSE IF Port(e) = "writer" THEN Written(mem) ELSE mem
  BY <1>1 DEF BackClock, Memory, Starts, Port
<1>5. /\ status'.pending = (completion_marker \/ (status.pending /\ busy))
      /\ status'.set = (status.pending /\ ~busy)
      /\ status'.valid = ((status.valid \/ status.set) /\ ~Starts(e))
  <2>1. status' = [pending |-> completion_marker \/ (status.pending /\ busy),
                   set     |-> status.pending /\ ~busy,
                   valid   |-> (status.valid \/ status.set) /\ ~Starts(e)]
    BY <1>1 DEF BackClock, RasterizerStatus, Starts
  <2> QED  BY <2>1, Zenon
<1> QED  BY <1>2, <1>3, <1>4, <1>5

(* A read makes its half early if an earlier line may still write it, and    *)
(* nothing is forgotten before the next frame.                               *)
LEMMA EarlyUpdate ==
  ASSUME NEW e, Clocked(e), ~Starts(e), NEW p, NEW h \in Halves
  PROVE  /\ <<p, h>> \notin early' => <<p, h>> \notin early
         /\ <<p, h>> \notin early' /\ Port(e) = h /\ lines[reader[h].req].place = p
              => \A j \in MayWrite(p, h) : ~(j < reader[h].req)
<1> DEFINE port == Port(e)  n == reader[port].req  q == lines[n].place
<1>1. BackClock(e.in, e.grant, e.answered, e.colored, e.step)  BY DEF Clocked
<1>2. early' = IF port \in Halves
               THEN IF \E j \in MayWrite(q, port) : j < n THEN early \cup {<<q, port>>} ELSE early
               ELSE early
  BY <1>1 DEF BackClock, History, Starts, Port
<1> HIDE DEF port
<1>3. early \subseteq early'  BY <1>2
<1>4. ASSUME <<p, h>> \notin early', port = h, lines[reader[h].req].place = p
      PROVE  \A j \in MayWrite(p, h) : ~(j < reader[h].req)
  <2>1. q = p /\ n = reader[h].req  BY <1>4
  <2>2. ~(\E j \in MayWrite(p, h) : j < reader[h].req)  BY <1>2, <1>4, <2>1
  <2> QED  BY <2>2
<1> QED  BY <1>3, <1>4 DEF port

(* What the front end may send depends on what it has sent.                  *)
LEMMA OfferedFacts ==
  ASSUME NEW e, Clocked(e), markers \in Nat
  PROVE  /\ e.in # <<>> /\ ~e.in[1].marker => markers = 0
         /\ markers = MarkerLines => e.in = <<>>
<1>1. e.in # <<>> => e.in[1] \in Offered  BY Updates
<1>2. MarkerLine.marker /\ MarkerLines \in Nat \ {0}  BY LinesAssumption, MarkerAssumption
<1>3. ASSUME e.in # <<>>, ~e.in[1].marker PROVE markers = 0
  BY <1>1, <1>2, <1>3 DEF Offered
<1>4. ASSUME markers = MarkerLines, e.in # <<>> PROVE FALSE
  BY <1>1, <1>2, <1>4 DEF Offered
<1> QED  BY <1>3, <1>4

(***************************************************************************)
(* When the software clears the surfaces the pipeline is empty: the lines  *)
(* of the completion triangle have gone through and the writer has stopped *)
(* behind them.                                                            *)
(***************************************************************************)
LEMMA AtStart ==
  ASSUME IInv, Frame, Progress, NEW e, Clocked(e), Starts(e)
  PROVE  /\ e.in = <<>> /\ Len(e.in) = 0 /\ Left = Len(lines) /\ claimed = Len(lines)
         /\ Len(meta.items) = 0 /\ Len(zq.items) = 0 /\ Len(maskq.items) = 0 /\ Len(data.items) = 0
         /\ ~Gone /\ ~completion_marker /\ ~to_writer /\ ~Fire(e) /\ ~Out(e)
         /\ writer.state = "IDLE" /\ ~status.pending /\ ~status.set
         /\ \A h \in Halves : \A n : ~Reads(h, n)
         /\ Port(e) = Nobody
<1>1. Types /\ Lanes /\ Output /\ Readers /\ Status  BY DEF IInv
<1>2. MarkerFlushed
  BY DEF Clocked, BackClock, Starts, sw_ready
<1>3. /\ markers = MarkerLines /\ ~status.pending /\ ~status.set
      /\ meta.items = <<>> /\ data.items = <<>>
  BY <1>2 DEF MarkerFlushed
<1>4. markers \in Nat /\ markers # 0  BY <1>3, MarkerAssumption DEF Frame
<1>5. e.in = <<>> /\ Len(e.in) = 0  BY <1>3, <1>4, OfferedFacts, EmptySeq
<1>6. /\ Len(meta.items) = 0 /\ Len(data.items) = 0 /\ Len(lines) \in Nat
      /\ Len(zq.items) \in Nat /\ Len(maskq.items) \in Nat
  BY <1>1, <1>3, Sizes, EmptySeq
<1>7. Len(maskq.items) + Len(zq.items) = Len(meta.items)  BY <1>1 DEF Lanes
<1>8. Len(zq.items) = 0 /\ Len(maskq.items) = 0
  <2> DEFINE q == Len(zq.items)  k == Len(maskq.items)  m == Len(meta.items)
  <2>1. q \in Nat /\ k \in Nat /\ m = 0 /\ k + q = m  BY <1>6, <1>7
  <2> HIDE DEF q, k, m
  <2>2. q = 0 /\ k = 0  BY <2>1
  <2> QED  BY <2>2 DEF q, k
<1>9. Left = Len(lines)  BY <1>6 DEF Left
<1>10. first <= Len(lines) /\ lines[Len(lines)].marker  BY <1>4 DEF Frame
<1>11. claimed = Len(lines)  BY <1>9, <1>10 DEF Progress
<1>12. ~busy  BY <1>3, <1>9, <1>10, <1>11 DEF Progress
<1>13. writer.state = "IDLE"  BY <1>12 DEF busy
<1>14. ~data.valid_q /\ ~meta.valid_q  BY <1>1, <1>3 DEF Types, Fifos
<1>15. ~zq.valid_q
  <2>1. zq \in Fifos(Nat) /\ zq.items \in Seq(Nat)  BY <1>1 DEF Types, Fifos
  <2>2. zq.items = <<>>  BY <1>8, <2>1, EmptySeq
  <2> QED  BY <2>1, <2>2 DEF Fifos
<1>16. ~Gone /\ ~completion_marker /\ ~to_writer /\ ~Fire(e) /\ ~Out(e)
  <2>1. ~Gone /\ ~completion_marker /\ ~to_writer  BY <1>14 DEF Gone, completion_marker, to_writer
  <2>2. ~Fire(e) /\ ~Out(e)  BY <1>1, <1>14, <1>15, Handshakes
  <2> QED  BY <2>1, <2>2
<1>17. ASSUME NEW h \in Halves, NEW n, Reads(h, n) PROVE FALSE
  <2>1. n \in 1 .. Len(lines) /\ Len(lines) - Len(zq.items) + 1 <= n  BY <1>1, <1>17, ReadsInRange
  <2> QED  BY <1>6, <1>8, <2>1
<1>18. Port(e) = Nobody
  <2>1. Port(e) \notin Halves
    <3>1. ASSUME NEW h \in Halves, Port(e) = h PROVE FALSE
      <4>1. reader[h].req # NoNumber  BY <1>1, <3>1, PortFacts
      <4>2. Reads(h, reader[h].req)  BY <1>1, <4>1 DEF Readers, ReadsAreTokens
      <4> QED  BY <1>17, <4>2
    <3> QED  BY <3>1
  <2>2. Port(e) # "writer"  BY <1>1, <1>13, PortFacts
  <2>3. Port(e) \in Ports \cup {Nobody}  BY <1>1, PortFacts
  <2> QED  BY <2>1, <2>2, <2>3 DEF Ports
<1> QED  BY <1>3, <1>5, <1>6, <1>8, <1>9, <1>11, <1>13, <1>16, <1>17, <1>18

(* An edge keeps the lines of a frame draws first and markers after.         *)
LEMMA FrameKeep ==
  ASSUME IInv, Frame, Progress, NEW e, Clocked(e)
  PROVE  Frame'
<1> DEFINE L == Len(lines)  k == Len(e.in)
<1>1. /\ L \in Nat /\ k \in {0, 1} /\ Len(lines') = L + k /\ (e.in # <<>> <=> k = 1)
      /\ \A i \in 1 .. L : lines'[i] = lines[i] /\ lines[i] \in Line \cup {MarkerLine}
      /\ k = 1 => lines'[L + 1] = e.in[1] /\ e.in[1] \in Line \cup {MarkerLine}
  BY Accepted DEF IInv
<1>2. /\ first' = IF Starts(e) THEN L + 1 ELSE first
      /\ markers' = IF Starts(e) THEN 0
                    ELSE IF e.in # <<>> /\ e.in[1].marker THEN markers + 1 ELSE markers
  BY GhostUpdate
<1>3. /\ first \in 1 .. L + 1 /\ markers \in Nat
      /\ \A i, j \in first .. L : i < j /\ lines[i].marker => lines[j].marker
      /\ markers = 0 => \A i \in first .. L : ~lines[i].marker
      /\ markers # 0 => first <= L /\ lines[L].marker
  BY DEF Frame
<1>4. e.in # <<>> /\ ~e.in[1].marker => markers = 0  BY <1>3, OfferedFacts
<1>5. Starts(e) => k = 0  BY AtStart
<1> HIDE DEF L, k
<1>6. first' \in 1 .. L + k + 1 /\ markers' \in Nat  BY <1>1, <1>2, <1>3, <1>5
<1>7. CASE Starts(e)
  <2>1. first' = L + 1 /\ markers' = 0 /\ L + k = L  BY <1>1, <1>2, <1>5, <1>7
  <2>2. first' .. L + k = {}  BY <1>1, <2>1
  <2> QED  BY <1>1, <1>6, <2>1, <2>2 DEF Frame
<1>8. CASE ~Starts(e)
  <2>1. first' = first  BY <1>2, <1>8
  <2>2. ASSUME NEW i \in first .. L + k
        PROVE  \/ i \in first .. L /\ i \in 1 .. L /\ lines'[i] = lines[i]
               \/ i = L + 1 /\ k = 1 /\ lines'[i] = e.in[1]
    BY <1>1, <1>3
  <2>3. CASE k = 0
    <3>1. L + k = L /\ markers' = markers  BY <1>1, <1>2, <1>8, <2>3
    <3>2. \A i \in first .. L : lines'[i] = lines[i]  BY <1>1, <1>3
    <3>3. markers # 0 => L \in first .. L  BY <1>1, <1>3
    <3> QED  BY <1>1, <1>3, <1>6, <2>1, <3>1, <3>2, <3>3 DEF Frame
  <2>4. CASE k = 1 /\ e.in[1].marker
    <3>1. markers' = markers + 1 /\ markers' # 0 /\ lines'[L + k].marker /\ first <= L + k
      BY <1>1, <1>2, <1>3, <1>8, <2>4
    <3>2. ASSUME NEW i \in first .. L + k, NEW j \in first .. L + k, i < j, lines'[i].marker
          PROVE  lines'[j].marker
      <4>1. CASE j = L + 1  BY <1>1, <2>4, <4>1
      <4>2. CASE j # L + 1
        <5>1. j \in first .. L /\ i \in first .. L  BY <1>1, <1>3, <3>2, <4>2
        <5>2. lines'[i] = lines[i] /\ lines'[j] = lines[j]  BY <1>1, <1>3, <5>1
        <5> QED  BY <1>3, <3>2, <5>1, <5>2
      <4> QED  BY <4>1, <4>2
    <3> QED  BY <1>1, <1>6, <2>1, <3>1, <3>2 DEF Frame
  <2>5. CASE k = 1 /\ ~e.in[1].marker
    <3>1. markers' = markers /\ markers = 0  BY <1>1, <1>2, <1>4, <1>8, <2>5
    <3>2. \A i \in first .. L + k : ~lines'[i].marker  BY <1>3, <2>2, <2>5, <3>1
    <3> QED  BY <1>1, <1>6, <2>1, <3>1, <3>2 DEF Frame
  <2> QED  BY <1>1, <2>3, <2>4, <2>5
<1> QED  BY <1>7, <1>8

(* An edge keeps the writer, the status and the markers gone by in step.     *)
LEMMA ProgressKeep ==
  ASSUME IInv, Frame, Progress, NEW e, Clocked(e)
  PROVE  Progress'
<1> DEFINE L == Len(lines)
<1>1. Types /\ Lanes /\ Output /\ Readers /\ Status /\ Types'
  BY TypesKeep DEF IInv
<1>2. /\ Left \in Nat /\ Left' = Left + By(Gone)
      /\ (Gone <=> completion_marker \/ to_writer) /\ ~(completion_marker /\ to_writer)
      /\ Gone => /\ out_line.n = Left + 1 /\ out_line.color = Left + 1
                 /\ Left + 1 \in 1 .. L
                 /\ (completion_marker <=> lines[Left + 1].marker)
  BY <1>1, Leaving
<1>3. /\ L \in Nat /\ Len(lines') = L + Len(e.in) /\ Len(e.in) \in {0, 1}
      /\ \A i \in 1 .. L : lines'[i] = lines[i]
  BY <1>1, Accepted
<1>4. Left <= L
  <2>1. Len(meta.items) \in Nat /\ Len(data.items) \in Nat  BY <1>1, Sizes
  <2>2. Left = L - Len(meta.items) - Len(data.items)  BY DEF Left
  <2> DEFINE m == Len(meta.items)  d == Len(data.items)
  <2> HIDE DEF m, d, L
  <2>3. Left = L - m - d /\ m \in Nat /\ d \in Nat /\ L \in Nat  BY <1>3, <2>1, <2>2 DEF m, d
  <2> QED  BY <2>3
<1>5. /\ first \in 1 .. L + 1
      /\ \A i, j \in first .. L : i < j /\ lines[i].marker => lines[j].marker
  BY DEF Frame
<1>6. /\ first - 1 <= Left
      /\ writer.state # "IDLE" => writer.line.n \in first .. Left /\ ~lines[writer.line.n].marker
      /\ status.pending \/ status.set \/ status.valid => claimed >= first
      /\ status.set \/ status.valid => writer.state = "IDLE"
      /\ claimed >= first => lines[claimed].marker
      /\ first <= Left /\ lines[Left].marker => claimed = Left
      /\ busy /\ claimed = Left /\ first <= Left => status.pending
  BY DEF Progress
<1>7. claimed \in 0 .. Left  BY <1>1 DEF Status
<1>8. /\ first' = IF Starts(e) THEN L + 1 ELSE first
      /\ claimed' = IF completion_marker THEN out_line.color ELSE claimed
      /\ status'.pending = (completion_marker \/ (status.pending /\ busy))
      /\ status'.set = (status.pending /\ ~busy)
      /\ status'.valid = ((status.valid \/ status.set) /\ ~Starts(e))
  BY GhostUpdate
<1>9. /\ writer'.line = IF to_writer THEN out_line ELSE writer.line
      /\ to_writer => writer.state = "IDLE"
      /\ writer'.state # "IDLE" => to_writer \/ writer.state # "IDLE"
  BY <1>1, WriterUpdate
<1> HIDE DEF L
<1>10. CASE Starts(e)
  <2>1. /\ Left = L /\ claimed = L /\ ~Gone /\ ~completion_marker /\ ~to_writer
        /\ writer.state = "IDLE" /\ ~status.pending /\ ~status.set
    BY <1>10, AtStart DEF L
  <2>2. Left' = L  BY <1>2, <2>1 DEF By
  <2>3. /\ first' = L + 1 /\ claimed' = L /\ writer'.state = "IDLE"
        /\ ~status'.pending /\ ~status'.set /\ ~status'.valid
    BY <1>8, <1>9, <1>10, <2>1
  <2>4. first' - 1 <= Left' /\ ~(claimed' >= first') /\ ~(first' <= Left')  BY <1>3, <2>2, <2>3
  <2> QED  BY <2>3, <2>4 DEF Progress
<1>11. CASE ~Starts(e)
  <2>1. first' = first /\ first \in Nat /\ first >= 1 /\ claimed \in Nat /\ claimed <= Left
    BY <1>3, <1>5, <1>7, <1>8, <1>11
  <2>2. CASE completion_marker
    <3>1. Left' = Left + 1 /\ claimed' = Left + 1 /\ ~to_writer /\ Left + 1 <= L
      BY <1>2, <1>8, <2>2 DEF By
    <3>2. lines'[Left + 1] = lines[Left + 1] /\ lines[Left + 1].marker  BY <1>2, <1>3, <2>2
    <3>3. writer'.state # "IDLE" => writer.state # "IDLE" /\ writer'.line = writer.line  BY <1>9, <3>1
    <3>4. writer'.state # "IDLE" => writer'.line.n \in first .. Left' /\ ~lines'[writer'.line.n].marker
      <4> SUFFICES ASSUME writer'.state # "IDLE"
                   PROVE  writer'.line.n \in first .. Left' /\ ~lines'[writer'.line.n].marker
        OBVIOUS
      <4>1. writer'.line.n \in first .. Left /\ ~lines[writer'.line.n].marker  BY <1>6, <3>3
      <4>2. writer'.line.n \in 1 .. L  BY <1>2, <1>3, <1>4, <2>1, <4>1
      <4> QED  BY <1>2, <1>3, <2>1, <3>1, <4>1, <4>2
    <3>5. status'.set \/ status'.valid => writer'.state = "IDLE"  BY <1>6, <1>8, <3>3 DEF busy
    <3>6. first - 1 <= Left' /\ claimed' >= first  BY <1>2, <1>6, <2>1, <3>1
    <3>7. status'.pending  BY <1>8, <2>2
    <3> QED  BY <2>1, <3>1, <3>2, <3>4, <3>5, <3>6, <3>7 DEF Progress
  <2>3. CASE to_writer
    <3>1. Left' = Left + 1 /\ claimed' = claimed /\ ~completion_marker /\ Left + 1 <= L
      BY <1>2, <1>8, <2>3 DEF By
    <3>2. /\ lines'[Left + 1] = lines[Left + 1] /\ ~lines[Left + 1].marker /\ writer'.line.n = Left + 1
          /\ writer.state = "IDLE"
      BY <1>2, <1>3, <1>9, <2>3
    <3>3. ~(claimed >= first)
      <4> SUFFICES ASSUME claimed >= first PROVE FALSE
        OBVIOUS
      <4>1. lines[claimed].marker  BY <1>6
      <4>2. claimed \in first .. L /\ Left + 1 \in first .. L /\ claimed < Left + 1
        BY <1>2, <1>3, <1>4, <2>1, <3>1
      <4> QED  BY <1>5, <3>2, <4>1, <4>2
    <3>4. ~status'.pending /\ ~status'.set /\ ~status'.valid  BY <1>6, <1>8, <3>1, <3>3
    <3>5. writer'.line.n \in first .. Left' /\ ~lines'[writer'.line.n].marker
      BY <1>2, <1>6, <2>1, <3>1, <3>2
    <3>6. claimed' # Left' /\ first - 1 <= Left' /\ ~lines'[Left'].marker
      BY <1>2, <1>6, <2>1, <3>1, <3>2
    <3> QED  BY <2>1, <3>1, <3>3, <3>4, <3>5, <3>6 DEF Progress
  <2>4. CASE ~completion_marker /\ ~to_writer
    <3>1. Left' = Left /\ claimed' = claimed  BY <1>2, <1>8, <2>4 DEF By
    <3>2. writer'.line = writer.line /\ (writer'.state # "IDLE" => writer.state # "IDLE")
      BY <1>9, <2>4
    <3>3. \A i \in 1 .. Left : lines'[i] = lines[i]  BY <1>2, <1>3, <1>4
    <3>4. writer'.state # "IDLE" => writer'.line.n \in first .. Left' /\ ~lines'[writer'.line.n].marker
      <4> SUFFICES ASSUME writer'.state # "IDLE"
                   PROVE  writer'.line.n \in first .. Left' /\ ~lines'[writer'.line.n].marker
        OBVIOUS
      <4>1. writer'.line.n \in first .. Left /\ ~lines[writer'.line.n].marker  BY <1>6, <3>2
      <4>2. writer'.line.n \in 1 .. Left  BY <1>2, <2>1, <4>1
      <4> QED  BY <3>1, <3>3, <4>1, <4>2
    <3>5. status'.pending \/ status'.set \/ status'.valid => claimed' >= first  BY <1>6, <1>8, <2>4, <3>1
    <3>6. status'.set \/ status'.valid => writer'.state = "IDLE"  BY <1>6, <1>8, <3>2 DEF busy
    <3>7. claimed' >= first => lines'[claimed'].marker
      <4> SUFFICES ASSUME claimed >= first PROVE lines'[claimed].marker
        BY <3>1
      <4>1. claimed \in 1 .. Left  BY <1>2, <2>1
      <4> QED  BY <1>6, <3>3, <4>1
    <3>8. first <= Left' /\ lines'[Left'].marker => claimed' = Left'
      <4> SUFFICES ASSUME first <= Left, lines'[Left].marker PROVE claimed = Left
        BY <3>1
      <4>1. Left \in 1 .. Left  BY <1>2, <2>1
      <4> QED  BY <1>6, <3>3, <4>1
    <3>9. busy' => busy
      <4> SUFFICES ASSUME writer.state = "IDLE", writer.outstanding = 0, busy' PROVE FALSE
        BY DEF busy
      <4>1. writer'.state = "IDLE"  BY <3>2
      <4>2. Port(e) # "writer"  BY <1>1, PortFacts
      <4>3. writer'.outstanding = 0 - (IF e.answered /\ Head(owed).to = "writer" THEN 1 ELSE 0)
        <5>1. writer'.outstanding =
                writer.outstanding
                  + (IF Port(e) = "writer" /\ ~(e.answered /\ Head(owed).to = "writer") THEN 1 ELSE 0)
                  - (IF (e.answered /\ Head(owed).to = "writer") /\ Port(e) # "writer" THEN 1 ELSE 0)
          BY <1>1, WriterUpdate
        <5> QED  BY <4>2, <5>1
      <4>4. writer'.outstanding \in Nat  BY <1>1 DEF Types
      <4> DEFINE x == writer'.outstanding  b == IF e.answered /\ Head(owed).to = "writer" THEN 1 ELSE 0
      <4>5. b \in {0, 1}  OBVIOUS
      <4>6. x = 0 - b /\ x \in Nat  BY <4>3, <4>4
      <4> HIDE DEF x, b
      <4>7. x = 0  BY <4>5, <4>6
      <4> QED  BY <4>1, <4>7 DEF busy, x
    <3>10. busy' /\ claimed' = Left' /\ first <= Left' => status'.pending  BY <1>6, <1>8, <3>1, <3>9
    <3>11. first - 1 <= Left'  BY <1>6, <3>1
    <3> QED  BY <2>1, <3>4, <3>5, <3>6, <3>7, <3>8, <3>10, <3>11 DEF Progress
  <2> QED  BY <2>2, <2>3, <2>4
<1> QED  BY <1>10, <1>11

(* One line drawn: it hits the halves it covers where it is nearer.          *)
Strikes(m, l, p, h) == p = l.place /\ ~l.marker /\ h \in l.cover /\ l.z > m[p].depth[h]

(* A picture with a line drawn, half by half.                                *)
LEMMA DrawnFacts ==
  ASSUME NEW m \in Surfaces, NEW l \in Line \cup {MarkerLine}, NEW n \in Nat
  PROVE  /\ Drawn(m, l, n) \in Surfaces
         /\ \A p \in Place, h \in Halves :
              /\ Drawn(m, l, n)[p].depth[h] = IF Strikes(m, l, p, h) THEN l.z ELSE m[p].depth[h]
              /\ \A c \in Colors : Drawn(m, l, n)[p].color[c][h] = IF Strikes(m, l, p, h) THEN n
                                                                   ELSE m[p].color[c][h]
<1> DEFINE q == l.place  hit == {h \in l.cover : l.z > m[q].depth[h]}
           new == [color |-> [c \in Colors |-> [h \in Halves |-> IF h \in hit THEN n ELSE m[q].color[c][h]]],
                   depth |-> [h \in Halves |-> IF h \in hit THEN l.z ELSE m[q].depth[h]]]
<1>1. l.place \in Place /\ l.cover \in SUBSET Halves /\ l.z \in Nat /\ l.marker \in BOOLEAN  BY LineTypes
<1>2. CASE l.marker
  <2>1. Drawn(m, l, n) = m  BY <1>2 DEF Drawn
  <2> QED  BY <1>2, <2>1 DEF Strikes
<1>3. CASE ~l.marker
  <2>1. Drawn(m, l, n) = [m EXCEPT ![q] = new]  BY <1>3 DEF Drawn
  <2>2. new.color \in [Colors -> [Halves -> Nat]] /\ new.depth \in [Halves -> Nat]
    <3>1. \A h \in Halves : m[q].depth[h] \in Nat /\ \A c \in Colors : m[q].color[c][h] \in Nat
      BY <1>1, SurfaceTypes
    <3> DEFINE a(c, h) == IF h \in hit THEN n ELSE m[q].color[c][h]
               b(h) == IF h \in hit THEN l.z ELSE m[q].depth[h]
    <3>2. \A c \in Colors, h \in Halves : a(c, h) \in Nat  BY <3>1
    <3>3. \A h \in Halves : b(h) \in Nat  BY <1>1, <3>1
    <3>4. new.color = [c \in Colors |-> [h \in Halves |-> a(c, h)]] /\ new.depth = [h \in Halves |-> b(h)]
      OBVIOUS
    <3> HIDE DEF a, b, new
    <3> QED  BY <3>2, <3>3, <3>4
  <2>3. [m EXCEPT ![q] = new] \in Surfaces  BY <1>1, <2>2 DEF Surfaces
  <2>4. \A p \in Place : [m EXCEPT ![q] = new][p] = IF p = q THEN new ELSE m[p]
    BY <1>1 DEF Surfaces
  <2>5. /\ \A h \in Halves : new.depth[h] = IF h \in hit THEN l.z ELSE m[q].depth[h]
        /\ \A h \in Halves, c \in Colors : new.color[c][h] = IF h \in hit THEN n ELSE m[q].color[c][h]
    OBVIOUS
  <2>6. \A p \in Place, h \in Halves : Strikes(m, l, p, h) <=> p = q /\ h \in hit
    BY <1>3 DEF Strikes
  <2> HIDE DEF new, hit, q
  <2>7. ASSUME NEW p \in Place, NEW h \in Halves
        PROVE  /\ Drawn(m, l, n)[p].depth[h] = IF Strikes(m, l, p, h) THEN l.z ELSE m[p].depth[h]
               /\ \A c \in Colors : Drawn(m, l, n)[p].color[c][h] = IF Strikes(m, l, p, h) THEN n
                                                                   ELSE m[p].color[c][h]
    <3>1. CASE p = q  BY <2>1, <2>4, <2>5, <2>6, <3>1
    <3>2. CASE p # q  BY <2>1, <2>4, <2>6, <3>2
    <3> QED  BY <3>1, <3>2
  <2> QED  BY <2>1, <2>3, <2>7
<1> QED  BY <1>1, <1>2, <1>3

(* The cleared surfaces.                                                     *)
LEMMA ClearedType == Cleared \in Surfaces /\ \A p \in Place, h \in Halves :
                       Cleared[p].depth[h] = 0 /\ \A c \in Colors : Cleared[p].color[c][h] = NoNumber
BY DEF Cleared, Surfaces, NoNumber

(* The picture after a line is what the line adds to the one before it.      *)
LEMMA PictureSteps ==
  ASSUME Types, Frame, Pictures, NEW n \in Int, n <= Len(lines)
  PROVE  /\ PictureAfter(n) \in Surfaces
         /\ first <= n =>
              /\ lines[n] \in Line \cup {MarkerLine} /\ PictureAfter(n - 1) \in Surfaces
              /\ \A p \in Place, h \in Halves :
                   LET hit == Strikes(PictureAfter(n - 1), lines[n], p, h)
                   IN  /\ PictureAfter(n)[p].depth[h] = IF hit THEN lines[n].z
                                                         ELSE PictureAfter(n - 1)[p].depth[h]
                       /\ \A c \in Colors : PictureAfter(n)[p].color[c][h] =
                            IF hit THEN n ELSE PictureAfter(n - 1)[p].color[c][h]
<1>1. /\ Len(lines) \in Nat /\ DOMAIN lines = 1 .. Len(lines) /\ lines \in Seq(Line \cup {MarkerLine})
      /\ pictures \in Seq(Surfaces) /\ Len(pictures) = Len(lines) /\ first \in Nat /\ first >= 1
  <2>1. lines \in Seq(Line \cup {MarkerLine})  BY DEF Types
  <2>2. Len(lines) \in Nat /\ DOMAIN lines = 1 .. Len(lines)  BY <2>1, Lengths
  <2>3. first \in 1 .. Len(lines) + 1  BY DEF Frame
  <2> QED  BY <2>1, <2>2, <2>3 DEF Pictures
<1>2. ASSUME NEW i \in Int, i <= Len(lines) PROVE PictureAfter(i) \in Surfaces
  <2>1. CASE i < first  BY <2>1, ClearedType DEF PictureAfter
  <2>2. CASE ~(i < first)
    <3>1. i \in 1 .. Len(pictures)  BY <1>1, <1>2, <2>2
    <3>2. pictures[i] \in Surfaces  BY <1>1, <3>1, ElementOfSeq
    <3> QED  BY <2>2, <3>2 DEF PictureAfter
  <2> QED  BY <2>1, <2>2
<1>3. PictureAfter(n) \in Surfaces  BY <1>2
<1>4. ASSUME first <= n
      PROVE  /\ lines[n] \in Line \cup {MarkerLine} /\ PictureAfter(n - 1) \in Surfaces
             /\ \A p \in Place, h \in Halves :
                  LET hit == Strikes(PictureAfter(n - 1), lines[n], p, h)
                  IN  /\ PictureAfter(n)[p].depth[h] = IF hit THEN lines[n].z
                                                        ELSE PictureAfter(n - 1)[p].depth[h]
                      /\ \A c \in Colors : PictureAfter(n)[p].color[c][h] =
                           IF hit THEN n ELSE PictureAfter(n - 1)[p].color[c][h]
  <2>1. n \in first .. Len(lines) /\ n \in 1 .. Len(lines) /\ n \in Nat /\ ~(n < first)  BY <1>1, <1>4
  <2>2. lines[n] \in Line \cup {MarkerLine}  BY <1>1, <2>1, ElementOfSeq
  <2>3. n - 1 \in Int /\ n - 1 <= Len(lines)  BY <1>1, <2>1
  <2>4. PictureAfter(n - 1) \in Surfaces  BY <1>2, <2>3
  <2>5. PictureAfter(n) = pictures[n]  BY <2>1 DEF PictureAfter
  <2>6. PictureAfter(n) = Drawn(PictureAfter(n - 1), lines[n], n)  BY <2>1, <2>5 DEF Pictures
  <2> QED  BY <2>1, <2>2, <2>4, <2>6, DrawnFacts
<1> QED  BY <1>3, <1>4

(* The same picture after the edge.                                          *)
PictureNext(n) == IF n < first' THEN Cleared ELSE pictures'[n]

(* The pictures grow by that of the line accepted.                           *)
LEMMA PicturesMove ==
  ASSUME IInv, Frame, Pictures, NEW e, Clocked(e)
  PROVE  /\ pictures' \in Seq(Surfaces) /\ Len(pictures') = Len(lines')
         /\ \A n \in 1 .. Len(lines) : pictures'[n] = pictures[n]
         /\ e.in # <<>> => pictures'[Len(lines) + 1] = Drawn(Reference, e.in[1], Len(lines) + 1)
<1> DEFINE L == Len(lines)  new == Drawn(Reference, e.in[1], L + 1)
<1>1. /\ L \in Nat /\ Len(lines') = L + Len(e.in) /\ Len(e.in) \in {0, 1} /\ (e.in # <<>> <=> Len(e.in) = 1)
      /\ e.in # <<>> => e.in[1] \in Line \cup {MarkerLine}
  BY Accepted DEF IInv
<1>2. pictures' = pictures \o (IF e.in = <<>> THEN <<>> ELSE <<new>>)  BY GhostUpdate
<1>3. pictures \in Seq(Surfaces) /\ Len(pictures) = L  BY DEF Pictures
<1>4. CASE e.in = <<>>
  <2>1. pictures' = pictures  BY <1>2, <1>3, <1>4, ConcatEmptySeq
  <2>2. Len(lines') = L  BY <1>1, <1>4, EmptySeq
  <2> QED  BY <1>3, <1>4, <2>1, <2>2
<1>5. CASE e.in # <<>>
  <2>1. Reference \in Surfaces
    <3>1. L \in Int /\ L <= Len(lines)  BY <1>1
    <3> QED  BY <3>1, PictureSteps DEF Reference, IInv
  <2>2. L + 1 \in Nat  BY <1>1
  <2>3. new \in Surfaces  BY <1>1, <1>5, <2>1, <2>2, DrawnFacts
  <2> HIDE DEF new
  <2>4. <<new>> \in Seq(Surfaces) /\ Len(<<new>>) = 1 /\ <<new>>[1] = new  BY <2>3
  <2>5. pictures' = pictures \o <<new>>  BY <1>2, <1>5
  <2>6. /\ pictures' \in Seq(Surfaces) /\ Len(pictures') = L + 1
        /\ \A i \in 1 .. L + 1 : pictures'[i] = IF i <= L THEN pictures[i] ELSE <<new>>[i - L]
    BY <1>3, <2>4, <2>5, ConcatProperties
  <2>7. L + 1 \in 1 .. L + 1 /\ ~(L + 1 <= L) /\ (L + 1) - L = 1 /\ \A i \in 1 .. L : i \in 1 .. L + 1 /\ i <= L
    BY <1>1
  <2>8. pictures'[L + 1] = new  BY <2>4, <2>6, <2>7
  <2>9. \A i \in 1 .. L : pictures'[i] = pictures[i]  BY <2>6, <2>7
  <2>10. Len(lines') = L + 1  BY <1>1, <1>5
  <2> QED  BY <2>6, <2>8, <2>9, <2>10 DEF new
<1> QED  BY <1>4, <1>5

(* Within a frame the pictures of its lines stay.                            *)
LEMMA PictureStays ==
  ASSUME IInv, Frame, Pictures, NEW e, Clocked(e), ~Starts(e), NEW n \in Int, n <= Len(lines)
  PROVE  PictureNext(n) = PictureAfter(n)
<1>1. first' = first  BY GhostUpdate
<1>2. first \in Nat /\ first >= 1 /\ Len(lines) \in Nat
  <2>1. Len(lines) \in Nat  BY Accepted DEF IInv
  <2> QED  BY <2>1 DEF Frame
<1>3. CASE n < first  BY <1>1, <1>3 DEF PictureNext, PictureAfter
<1>4. CASE ~(n < first)
  <2>1. n \in 1 .. Len(lines)  BY <1>2, <1>4
  <2>2. pictures'[n] = pictures[n]  BY <2>1, PicturesMove
  <2> QED  BY <1>1, <1>4, <2>2 DEF PictureNext, PictureAfter
<1> QED  BY <1>3, <1>4

(* Each picture is the one before it with a line drawn.                      *)
LEMMA PicturesKeep ==
  ASSUME IInv, Frame, Progress, Pictures, NEW e, Clocked(e)
  PROVE  Pictures'
<1> DEFINE L == Len(lines)
<1>1. /\ pictures' \in Seq(Surfaces) /\ Len(pictures') = Len(lines')
      /\ \A n \in 1 .. L : pictures'[n] = pictures[n]
      /\ e.in # <<>> => pictures'[L + 1] = Drawn(Reference, e.in[1], L + 1)
  BY PicturesMove
<1>2. /\ L \in Nat /\ Len(lines') = L + Len(e.in) /\ Len(e.in) \in {0, 1} /\ (e.in # <<>> <=> Len(e.in) = 1)
      /\ \A i \in 1 .. L : lines'[i] = lines[i]
      /\ e.in # <<>> => lines'[L + 1] = e.in[1]
  BY Accepted DEF IInv
<1>3. first \in 1 .. L + 1  BY DEF Frame
<1>4. first' = IF Starts(e) THEN L + 1 ELSE first  BY GhostUpdate
<1>5. ASSUME NEW n \in first' .. Len(lines')
      PROVE  pictures'[n] = Drawn(PictureNext(n - 1), lines'[n], n)
  <2>1. CASE Starts(e)
    <3>1. Len(lines') = L /\ first' = L + 1  BY <1>2, <1>4, <2>1, AtStart
    <3> QED  BY <1>2, <1>5, <3>1
  <2>2. CASE ~Starts(e)
    <3>1. n - 1 \in Int /\ n - 1 <= L /\ first' = first /\ n >= 1
      <4> DEFINE k == Len(e.in)
      <4>1. first' = first /\ k \in {0, 1} /\ Len(lines') = L + k  BY <1>2, <1>4, <2>2
      <4>2. n \in first .. L + k  BY <1>5, <4>1
      <4> HIDE DEF k, L
      <4> QED  BY <1>2, <1>3, <4>1, <4>2
    <3>2. PictureNext(n - 1) = PictureAfter(n - 1)  BY <2>2, <3>1, PictureStays
    <3>3. CASE n <= L
      <4>1. n \in first .. L /\ n \in 1 .. L  BY <1>2, <1>5, <3>1, <3>3
      <4>2. pictures[n] = Drawn(PictureAfter(n - 1), lines[n], n)  BY <4>1 DEF Pictures
      <4> QED  BY <1>1, <1>2, <3>2, <4>1, <4>2
    <3>4. CASE ~(n <= L)
      <4>1. n = L + 1 /\ e.in # <<>> /\ n - 1 = L  BY <1>2, <1>5, <3>1, <3>4
      <4>2. PictureAfter(n - 1) = Reference  BY <4>1 DEF Reference
      <4> QED  BY <1>1, <1>2, <3>2, <4>1, <4>2
    <3> QED  BY <3>3, <3>4
  <2> QED  BY <2>1, <2>2
<1> QED  BY <1>1, <1>5 DEF Pictures, PictureNext, PictureAfter

(* What does not change from one number to the next does not change at all.  *)
LEMMA Constant ==
  ASSUME NEW a \in Int, NEW b \in Int, a <= b, NEW g, \A i \in a + 1 .. b : g[i] = g[i - 1]
  PROVE  g[b] = g[a]
<1> DEFINE Bad == {k \in Nat : k <= b - a /\ g[a + k] # g[a]}
<1>1. ASSUME Bad # {} PROVE FALSE
  <2>1. Bad \in SUBSET Nat  OBVIOUS
  <2>2. PICK k \in Bad : \A j \in Bad : k <= j  BY <1>1, <2>1, LeastExists
  <2>3. k \in Nat /\ k <= b - a /\ g[a + k] # g[a]  OBVIOUS
  <2>4. k # 0  BY <2>3
  <2>5. k - 1 \in Nat /\ k - 1 <= b - a /\ k - 1 \notin Bad  BY <2>2, <2>3, <2>4
  <2>6. g[a + (k - 1)] = g[a]  BY <2>5
  <2>7. a + k \in a + 1 .. b /\ a + k - 1 = a + (k - 1)  BY <2>3, <2>4
  <2>8. g[a + k] = g[a + k - 1]  BY <2>7
  <2> QED  BY <2>3, <2>6, <2>7, <2>8
<1>2. PICK k \in Nat : k = b - a  OBVIOUS
<1>3. k <= b - a /\ a + k = b  BY <1>2
<1>4. g[a + k] = g[a]  BY <1>1, <1>3
<1> QED  BY <1>3, <1>4

(* Where the lines not yet with the writer are.                              *)
LEMMA Places ==
  ASSUME IInv
  PROVE  LET L == Len(lines)  M == Len(meta.items)  D == Len(data.items)  Q == Len(zq.items)
         IN  /\ L \in Nat /\ M \in Nat /\ D \in Nat /\ Q \in Nat /\ Q <= M
             /\ Left \in Nat /\ Left = L - M - D
             /\ DOMAIN meta.items = 1 .. M /\ DOMAIN data.items = 1 .. D
             /\ \A i \in 1 .. M : meta.items[i] = L - M + i
             /\ \A i \in 1 .. D : data.items[i].n = Left + i
             /\ \A n \in 1 .. L : lines[n] \in Line \cup {MarkerLine}
<1> DEFINE L == Len(lines)  M == Len(meta.items)  D == Len(data.items)  Q == Len(zq.items)
           K == Len(maskq.items)
<1>1. Types /\ Lanes /\ Output  BY DEF IInv
<1>2. /\ L \in Nat /\ M \in Nat /\ D \in Nat /\ Q \in Nat /\ K \in Nat
      /\ DOMAIN meta.items = 1 .. M /\ DOMAIN data.items = 1 .. D /\ DOMAIN lines = 1 .. L
  BY <1>1, Sizes
<1>3. K + Q = M /\ Left = L - M - D /\ Left >= 0  BY <1>1 DEF Lanes, Left, Output
<1>4. \A i \in 1 .. M : meta.items[i] = L - M + i  BY <1>1, <1>2 DEF Lanes, Ends
<1>5. \A i \in 1 .. D : data.items[i].n = Left + i  BY <1>1, <1>2 DEF Output
<1>6. \A n \in 1 .. L : lines[n] \in Line \cup {MarkerLine}
  <2>1. lines \in Seq(Line \cup {MarkerLine})  BY <1>1 DEF Types
  <2> QED  BY <2>1, <1>2, ElementOfSeq
<1> HIDE DEF L, M, D, Q, K
<1>7. Q <= M /\ Left \in Nat  BY <1>2, <1>3
<1> QED  BY <1>2, <1>3, <1>4, <1>5, <1>6, <1>7 DEF L, M, D, Q

(* A line that can no longer write a depth has not changed it.               *)
LEMMA Harmless ==
  ASSUME IInv, Frame, Progress, Pictures, Masks, NEW p \in Place, NEW h \in Halves,
         <<p, h>> \notin early, NEW j \in Left + 1 .. Len(lines), j \notin MayWrite(p, h)
  PROVE  PictureAfter(j)[p].depth[h] = PictureAfter(j - 1)[p].depth[h]
<1> DEFINE L == Len(lines)  M == Len(meta.items)  D == Len(data.items)
<1>1. /\ L \in Nat /\ M \in Nat /\ D \in Nat /\ Left \in Nat /\ Left = L - M - D
      /\ DOMAIN meta.items = 1 .. M /\ DOMAIN data.items = 1 .. D
      /\ \A i \in 1 .. M : meta.items[i] = L - M + i
      /\ \A i \in 1 .. D : data.items[i].n = Left + i
  BY Places
<1>2. first - 1 <= Left /\ first \in 1 .. L + 1 /\ j \in Left + 1 .. L  BY DEF Progress, Frame
<1>3. j \in Int /\ j <= L /\ first <= j /\ first \in Nat
  <2> HIDE DEF L, M, D
  <2> QED  BY <1>1, <1>2
<1>4. PictureAfter(j)[p].depth[h] = IF Strikes(PictureAfter(j - 1), lines[j], p, h) THEN lines[j].z
                                    ELSE PictureAfter(j - 1)[p].depth[h]
  <2>1. Types  BY DEF IInv
  <2> QED  BY <1>3, <2>1, PictureSteps
<1> SUFFICES ASSUME Strikes(PictureAfter(j - 1), lines[j], p, h) PROVE FALSE
  BY <1>4
<1>5. lines[j].place = p /\ ~lines[j].marker /\ h \in lines[j].cover /\ Hits(j, h) /\ ~Late(j, h)
  BY DEF Strikes, Hits, Late
<1> HIDE DEF L, M, D
<1>6. CASE j <= Left + D
  <2> DEFINE i == j - Left
  <2>1. i \in 1 .. D /\ Left + i = j  BY <1>1, <1>2, <1>3, <1>6
  <2>2. data.items[i].n = j /\ data.items[i] \in Image(data.items)  BY <1>1, <2>1 DEF Image
  <2>3. h \in data.items[i].mask
    <3>1. i \in DOMAIN data.items  BY <1>1, <2>1
    <3> QED  BY <1>5, <2>2, <3>1 DEF Masks
  <2>4. j \in MayWrite(p, h)  BY <1>5, <2>2, <2>3 DEF MayWrite
  <2> QED  BY <2>4
<1>7. CASE ~(j <= Left + D)
  <2> DEFINE i == j - (L - M)
  <2>1. i \in 1 .. M /\ L - M + i = j  BY <1>1, <1>3, <1>7
  <2>2. meta.items[i] = j /\ meta.items[i] \in Image(meta.items)  BY <1>1, <2>1 DEF Image
  <2>3. j \in MayWrite(p, h)  BY <1>5, <2>2 DEF MayWrite
  <2> QED  BY <2>3
<1> QED  BY <1>6, <1>7

(***************************************************************************)
(* A read granted while no earlier line may write the half finds the depth *)
(* the lines before its own have left.                                     *)
(***************************************************************************)
LEMMA ReadFinds ==
  ASSUME IInv, FInv, NEW h \in Halves, NEW n \in Left + 1 .. Len(lines), NEW p \in Place,
         <<p, h>> \notin early, \A j \in MayWrite(p, h) : ~(j < n)
  PROVE  mem[p].depth[h] = PictureAfter(n - 1)[p].depth[h]
<1> USE DEF FInv
<1>1. Len(lines) \in Nat /\ Left \in Nat  BY Places
<1>2. writer.state # "IDLE" => writer.line.n \in 1 .. Left  BY DEF IInv, Output
<1>3. Stored(p, h)  BY DEF Memories
<1>4. mem[p].depth[h] = PictureAfter(Left)[p].depth[h]
  <2>1. CASE BeingWritten(p, h)
    <3>1. writer.line.n < n  BY <1>1, <1>2, <2>1 DEF BeingWritten
    <3>2. writer.line.n \notin MayWrite(p, h)  BY <3>1
    <3>3. Deep(h)  BY <2>1, <3>2 DEF BeingWritten, MayWrite, Deep
    <3> QED  BY <1>3, <2>1, <3>3 DEF Stored
  <2>2. CASE ~BeingWritten(p, h)  BY <1>3, <2>2 DEF Stored
  <2> QED  BY <2>1, <2>2
<1> DEFINE g == [i \in Left .. n - 1 |-> PictureAfter(i)[p].depth[h]]
<1>5. ASSUME NEW i \in Left + 1 .. n - 1 PROVE g[i] = g[i - 1]
  <2>1. i \in Left + 1 .. Len(lines) /\ i < n  BY <1>1
  <2>2. i \notin MayWrite(p, h)  BY <2>1
  <2>3. PictureAfter(i)[p].depth[h] = PictureAfter(i - 1)[p].depth[h]  BY <2>1, <2>2, Harmless
  <2>4. i \in Left .. n - 1 /\ i - 1 \in Left .. n - 1  BY <1>1
  <2> QED  BY <2>3, <2>4
<1>6. Left \in Int /\ n - 1 \in Int /\ Left <= n - 1  BY <1>1
<1>7. Left \in Left .. n - 1 /\ n - 1 \in Left .. n - 1  BY <1>6
<1>8. g[Left] = PictureAfter(Left)[p].depth[h] /\ g[n - 1] = PictureAfter(n - 1)[p].depth[h]  BY <1>7
<1> HIDE DEF g
<1>9. g[n - 1] = g[Left]  BY <1>5, <1>6, Constant
<1> QED  BY <1>4, <1>8, <1>9

(* An edge keeps the answers those of the picture before their line.         *)
LEMMA DepthsKeep ==
  ASSUME IInv, FInv, NEW e, Clocked(e)
  PROVE  Depths'
<1> USE DEF FInv
<1> DEFINE L == Len(lines)
           found(a, h) == <<lines'[a.n].place, h>> \notin early' =>
                            a.depth = PictureNext(a.n - 1)[lines'[a.n].place].depth[h]
<1>1. Types /\ Lanes /\ Output /\ Readers  BY DEF IInv
<1>2. /\ L \in Nat /\ Left \in Nat /\ Len(zq.items) \in Nat /\ Len(zq.items) <= Len(meta.items)
      /\ Left = L - Len(meta.items) - Len(data.items) /\ Len(meta.items) \in Nat /\ Len(data.items) \in Nat
      /\ \A n \in 1 .. L : lines[n] \in Line \cup {MarkerLine}
  BY Places
<1>3. \A i \in 1 .. L : lines'[i] = lines[i]  BY <1>1, Accepted
<1>4. ASSUME NEW h \in Halves
      PROVE  /\ \A i \in DOMAIN reader'[h].resp.items : found(reader'[h].resp.items[i], h)
             /\ \A i \in Mine(h)' : found(owed'[i], h)
  <2> DEFINE s == reader[h].resp.items  r == reader'[h].resp.items
  <2>1. /\ \A i \in DOMAIN s : Reads(h, s[i].n)
        /\ \A i \in Mine(h) : Reads(h, owed[i].n)
        /\ reader[h].req # NoNumber => Reads(h, reader[h].req)
    BY <1>1 DEF Readers, ReadsAreTokens
  <2>2. \A i \in DOMAIN r : \/ \E j \in DOMAIN s : r[i] = s[j]
                            \/ e.answered /\ 1 \in Mine(h) /\ r[i] = owed[1]
    <3>1. \A i \in DOMAIN r : \/ i + By(Took(e, h)) \in DOMAIN s /\ r[i] = s[i + By(Took(e, h))]
                              \/ e.answered /\ 1 \in Mine(h) /\ r[i] = owed[1]
      BY <1>1, AnswerFlow
    <3> QED  BY <3>1
  <2>3. \A i \in Mine(h)' : \/ \E j \in Mine(h) : owed'[i] = owed[j]
                            \/ Port(e) = h /\ owed'[i] = NewAnswer(h)
    <3>1. h \in Ports  BY DEF Ports
    <3>2. \A i \in Mine(h)' : \/ i + By(e.answered) \in Mine(h) /\ owed'[i] = owed[i + By(e.answered)]
                              \/ Port(e) = h /\ owed'[i] = NewAnswer(h)
      BY <1>1, <3>1, OwedFlow
    <3> QED  BY <3>2
  <2>4. CASE Starts(e)
    <3>1. (\A n : ~Reads(h, n)) /\ Port(e) = Nobody  BY <2>4, AtStart
    <3>2. Port(e) # h  BY <1>1, <3>1, PortFacts DEF Ports
    <3> QED  BY <2>1, <2>2, <2>3, <3>1, <3>2
  <2>5. CASE ~Starts(e)
    <3>1. \A p : <<p, h>> \notin early' => <<p, h>> \notin early  BY <2>5, EarlyUpdate
    <3>2. ASSUME NEW n, Reads(h, n)
          PROVE  /\ n \in 1 .. L /\ lines'[n] = lines[n] /\ lines[n].place \in Place
                 /\ n - 1 \in Int /\ n - 1 <= L /\ L - Len(zq.items) + 1 <= n
                 /\ PictureNext(n - 1) = PictureAfter(n - 1)
      <4>1. n \in 1 .. L /\ lines[n] \in Line \cup {MarkerLine} /\ L - Len(zq.items) + 1 <= n
        BY <1>1, <3>2, ReadsInRange
      <4>2. n - 1 \in Int /\ n - 1 <= L  BY <1>2, <4>1
      <4>3. PictureNext(n - 1) = PictureAfter(n - 1)  BY <2>5, <4>2, PictureStays
      <4>4. lines[n].place \in Place  BY <4>1, LineTypes
      <4> QED  BY <1>3, <4>1, <4>2, <4>3, <4>4
    <3>3. /\ \A i \in DOMAIN s : found(s[i], h)
          /\ \A i \in Mine(h) : found(owed[i], h)
      <4>1. /\ \A i \in DOMAIN s : ~Late(s[i].n, h) =>
                 s[i].depth = PictureAfter(s[i].n - 1)[lines[s[i].n].place].depth[h]
            /\ \A i \in Mine(h) : ~Late(owed[i].n, h) =>
                 owed[i].depth = PictureAfter(owed[i].n - 1)[lines[owed[i].n].place].depth[h]
        BY DEF Depths
      <4> QED  BY <2>1, <3>1, <3>2, <4>1 DEF Late
    <3>4. Port(e) = h => found(NewAnswer(h), h)
      <4> DEFINE n == reader[h].req  p == lines[n].place
      <4> SUFFICES ASSUME Port(e) = h, <<lines'[NewAnswer(h).n].place, h>> \notin early'
                   PROVE  NewAnswer(h).depth = PictureNext(NewAnswer(h).n - 1)[lines'[NewAnswer(h).n].place].depth[h]
        OBVIOUS
      <4>1. h # "writer"  BY <1>1, PortFacts
      <4>2. NewAnswer(h).n = n /\ NewAnswer(h).depth = mem[p].depth[h]  BY <4>1 DEF NewAnswer
      <4>3. Reads(h, n)  BY <1>1, <2>1, PortFacts
      <4>4. n \in 1 .. L /\ lines'[n] = lines[n] /\ p \in Place /\ PictureNext(n - 1) = PictureAfter(n - 1)
            /\ L - Len(zq.items) + 1 <= n
        BY <3>2, <4>3
      <4>5. <<p, h>> \notin early'  BY <4>2, <4>4
      <4>6. <<p, h>> \notin early /\ \A j \in MayWrite(p, h) : ~(j < n)  BY <2>5, <4>5, EarlyUpdate
      <4>7. n \in Left + 1 .. Len(lines)
        <5> DEFINE M == Len(meta.items)  D == Len(data.items)  Q == Len(zq.items)
        <5>1. /\ L \in Nat /\ M \in Nat /\ D \in Nat /\ Q \in Nat /\ Left \in Nat
              /\ Q <= M /\ Left = L - M - D /\ n \in 1 .. L /\ L - Q + 1 <= n
          BY <1>2, <4>4
        <5> HIDE DEF L, M, D, Q, n
        <5>2. n \in Left + 1 .. L  BY <5>1
        <5> QED  BY <5>2 DEF L
      <4>8. mem[p].depth[h] = PictureAfter(n - 1)[p].depth[h]  BY <4>4, <4>6, <4>7, ReadFinds
      <4> QED  BY <4>2, <4>4, <4>8
    <3> HIDE DEF found
    <3> QED  BY <2>2, <2>3, <3>3, <3>4
  <2> QED  BY <2>4, <2>5
<1> QED  BY <1>4 DEF Depths, Late, PictureNext, PictureAfter

(* An edge keeps the masks those the picture before a line gives it.         *)
LEMMA MasksKeep ==
  ASSUME IInv, FInv, NEW e, Clocked(e)
  PROVE  Masks'
<1> USE DEF FInv
<1> DEFINE L == Len(lines)  M == Len(meta.items)
           HitsNext(n, h) == /\ h \in lines'[n].cover
                             /\ lines'[n].z > PictureNext(n - 1)[lines'[n].place].depth[h]
           masked(m, h) == h \in lines'[m.z].cover /\ <<lines'[m.z].place, h>> \notin early'
                             => (h \in m.pass <=> HitsNext(m.z, h))
           carried(d, h) == <<lines'[d.n].place, h>> \notin early' => (h \in d.mask <=> HitsNext(d.n, h))
<1>1. Types /\ Lanes /\ Output /\ Readers  BY DEF IInv
<1>2. /\ L \in Nat /\ M \in Nat /\ Left \in Nat /\ Len(data.items) \in Nat /\ Len(maskq.items) \in Nat
      /\ Left = L - M - Len(data.items) /\ M <= L
      /\ DOMAIN data.items = 1 .. Len(data.items) /\ DOMAIN maskq.items = 1 .. Len(maskq.items)
      /\ Len(maskq.items) + Len(zq.items) = M /\ Len(zq.items) \in Nat /\ DOMAIN meta.items = 1 .. M
  BY <1>1, Places, Sizes DEF Lanes
<1>3. /\ \A i \in 1 .. L : lines'[i] = lines[i]
      /\ \A i \in 1 .. L : lines[i] \in Line \cup {MarkerLine}
  BY <1>1, Accepted
<1>4. /\ By(Out(e)) \in {0, 1} /\ (By(Out(e)) = 1 <=> Out(e)) /\ By(Fire(e)) \in {0, 1} /\ (By(Fire(e)) = 1 <=> Fire(e))
      /\ By(Gone) \in {0, 1} /\ (By(Gone) = 1 <=> Gone)
  BY DEF By
<1>5. /\ DOMAIN maskq'.items = 1 .. Len(maskq.items) - By(Out(e)) + By(Fire(e))
      /\ \A i \in 1 .. Len(maskq.items) - By(Out(e)) : maskq'.items[i] = maskq.items[i + By(Out(e))]
      /\ Fire(e) => maskq'.items[Len(maskq.items) - By(Out(e)) + 1] = [z |-> OutData(zq), pass |-> pass_mask]
      /\ By(Out(e)) <= Len(maskq.items)
  <2>1. /\ Queue(Masked, maskq.items, maskq'.items, By(Out(e)), MaskPut(e))
        /\ Len(MaskPut(e)) = By(Fire(e))
        /\ Fire(e) => MaskPut(e)[1] = [z |-> OutData(zq), pass |-> pass_mask]
    BY <1>1, MaskMoves
  <2> QED  BY <1>4, <2>1 DEF Queue
<1>6. /\ DOMAIN data'.items = 1 .. Len(data.items) - By(Gone) + By(Out(e))
      /\ \A i \in 1 .. Len(data.items) - By(Gone) : data'.items[i] = data.items[i + By(Gone)]
      /\ Out(e) => data'.items[Len(data.items) - By(Gone) + 1] = joined_line
      /\ By(Gone) <= Len(data.items)
  <2>1. /\ Queue(OutLine, data.items, data'.items, By(Gone), LinePut(e))
        /\ Len(LinePut(e)) = By(Out(e))
        /\ Out(e) => LinePut(e)[1] = joined_line
    BY <1>1, LineMoves
  <2> QED  BY <1>4, <2>1 DEF Queue
<1>7. ASSUME NEW h \in Halves
      PROVE  /\ \A i \in DOMAIN maskq'.items : masked(maskq'.items[i], h)
             /\ \A i \in DOMAIN data'.items : carried(data'.items[i], h)
  <2>1. CASE Starts(e)
    <3>1. Len(maskq.items) = 0 /\ Len(data.items) = 0 /\ ~Out(e) /\ ~Fire(e) /\ ~Gone  BY <2>1, AtStart
    <3>2. Len(maskq.items) - By(Out(e)) + By(Fire(e)) = 0 /\ Len(data.items) - By(Gone) + By(Out(e)) = 0
      BY <1>4, <3>1
    <3>3. DOMAIN maskq'.items = {} /\ DOMAIN data'.items = {}  BY <1>5, <1>6, <3>2
    <3> QED  BY <3>3
  <2>2. CASE ~Starts(e)
    <3>1. \A p : <<p, h>> \notin early' => <<p, h>> \notin early  BY <2>2, EarlyUpdate
    <3>2. ASSUME NEW n \in 1 .. L
          PROVE  lines'[n] = lines[n] /\ (HitsNext(n, h) <=> Hits(n, h))
      <4>1. n - 1 \in Int /\ n - 1 <= L  BY <1>2
      <4>2. PictureNext(n - 1) = PictureAfter(n - 1)  BY <2>2, <4>1, PictureStays
      <4> QED  BY <1>3, <4>2 DEF Hits
    <3>3. ASSUME NEW m, m.z \in 1 .. L,
                 h \in lines[m.z].cover /\ ~Late(m.z, h) => (h \in m.pass <=> Hits(m.z, h))
          PROVE  masked(m, h)
      BY <3>1, <3>2, <3>3 DEF Late
    <3>4. ASSUME NEW d, d.n \in 1 .. L, ~Late(d.n, h) => (h \in d.mask <=> Hits(d.n, h))
          PROVE  carried(d, h)
      BY <3>1, <3>2, <3>4 DEF Late
    <3> HIDE DEF masked, carried
    <3>5. ASSUME NEW i \in DOMAIN maskq.items PROVE masked(maskq.items[i], h)
      <4>1. maskq.items[i].z = L - M + i  BY <1>1 DEF Lanes
      <4>2. maskq.items[i].z \in 1 .. L
        <5> DEFINE K == Len(maskq.items)  Q == Len(zq.items)
        <5>1. L \in Nat /\ M \in Nat /\ K \in Nat /\ Q \in Nat /\ K + Q = M /\ M <= L /\ i \in 1 .. K
          BY <1>2
        <5> HIDE DEF L, M, K, Q
        <5> QED  BY <4>1, <5>1
      <4>3. h \in lines[maskq.items[i].z].cover /\ ~Late(maskq.items[i].z, h)
              => (h \in maskq.items[i].pass <=> Hits(maskq.items[i].z, h))
        BY DEF Masks
      <4> QED  BY <3>3, <4>2, <4>3
    <3>6. ASSUME NEW i \in DOMAIN data.items PROVE carried(data.items[i], h)
      <4>1. data.items[i].n = Left + i  BY <1>1 DEF Output
      <4>2. data.items[i].n \in 1 .. L
        <5> DEFINE D == Len(data.items)
        <5>1. L \in Nat /\ M \in Nat /\ D \in Nat /\ Left \in Nat /\ Left = L - M - D /\ i \in 1 .. D
          BY <1>2
        <5> HIDE DEF L, M, D
        <5> QED  BY <4>1, <5>1
      <4>3. ~Late(data.items[i].n, h) => (h \in data.items[i].mask <=> Hits(data.items[i].n, h))
        BY DEF Masks
      <4> QED  BY <3>4, <4>2, <4>3
    <3>7. ASSUME Fire(e) PROVE masked([z |-> OutData(zq), pass |-> pass_mask], h)
      <4> DEFINE lo == OutData(zq)  s == reader[h].resp.items
      <4>1. /\ lo \in 1 .. L /\ (token(h).zero <=> h \notin lines[lo].cover)
            /\ Took(e, h) => 1 \in DOMAIN s /\ s[1].n = lo /\ OutData(reader[h].resp) = s[1]
        BY <1>1, <3>7, OldestRead
      <4>2. ASSUME h \in lines[lo].cover, ~Late(lo, h) PROVE h \in pass_mask <=> Hits(lo, h)
        <5>1. ~token(h).zero /\ Took(e, h)  BY <3>7, <4>1, <4>2 DEF Took
        <5>2. 1 \in DOMAIN s /\ s[1].n = lo /\ out_depth(h) = s[1].depth  BY <4>1, <5>1 DEF out_depth
        <5>3. s[1].depth = PictureAfter(lo - 1)[lines[lo].place].depth[h]
          BY <4>2, <5>2 DEF Depths
        <5> QED  BY <4>2, <5>2, <5>3 DEF pass_mask, Hits
      <4> DEFINE m == [z |-> lo, pass |-> pass_mask]
      <4>3. m.z = lo /\ m.pass = pass_mask  OBVIOUS
      <4> HIDE DEF m, lo
      <4>4. masked(m, h)  BY <3>3, <4>1, <4>2, <4>3
      <4> QED  BY <4>4 DEF m, lo
    <3>8. ASSUME Out(e) PROVE carried(joined_line, h)
      <4> DEFINE n == L - M + 1
      <4>1. /\ OutData(meta) = meta.items[1] /\ OutData(maskq) = maskq.items[1]
        BY <1>1, <3>8, LineMoves
      <4>2. 1 \in 1 .. Len(maskq.items) /\ 1 \in 1 .. M /\ n \in 1 .. L
        <5> DEFINE K == Len(maskq.items)  Q == Len(zq.items)
        <5>1. L \in Nat /\ M \in Nat /\ K \in Nat /\ Q \in Nat /\ K + Q = M /\ M <= L /\ K >= 1
          BY <1>2, <1>4, <1>5, <3>8
        <5> HIDE DEF L, M, K, Q
        <5>2. 1 \in 1 .. K /\ 1 \in 1 .. M /\ L - M + 1 \in 1 .. L  BY <5>1
        <5> QED  BY <5>2 DEF K
      <4>3. meta.items[1] = n /\ maskq.items[1].z = n
        <5>1. meta.items[1] = L - M + 1  BY <1>1, <1>2, <4>2 DEF Lanes, Ends
        <5>2. maskq.items[1].z = L - M + 1  BY <1>1, <1>2, <4>2 DEF Lanes
        <5> QED  BY <5>1, <5>2
      <4>4. joined_line.n = n /\ joined_line.mask = lines[n].cover \cap maskq.items[1].pass
        BY <4>1, <4>3 DEF joined_line
      <4>5. h \in lines[n].cover /\ ~Late(n, h) => (h \in maskq.items[1].pass <=> Hits(n, h))
        BY <1>2, <4>2, <4>3 DEF Masks
      <4>6. ~Late(n, h) => (h \in joined_line.mask <=> Hits(n, h))  BY <4>4, <4>5 DEF Hits
      <4> HIDE DEF n
      <4> QED  BY <3>4, <4>2, <4>4, <4>6
    <3>9. ASSUME NEW i \in DOMAIN maskq'.items PROVE masked(maskq'.items[i], h)
      <4> DEFINE K == Len(maskq.items)  o == By(Out(e))  f == By(Fire(e))
      <4>1. i \in 1 .. K - o + f /\ K \in Nat /\ o \in {0, 1} /\ f \in {0, 1} /\ (f = 1 <=> Fire(e)) /\ o <= K
        BY <1>2, <1>4, <1>5
      <4> HIDE DEF K, o, f
      <4>2. CASE i <= K - o
        <5>1. i + o \in 1 .. K /\ i \in 1 .. K - o  BY <4>1, <4>2
        <5>2. i + o \in DOMAIN maskq.items /\ maskq'.items[i] = maskq.items[i + o]
          BY <1>2, <1>5, <5>1 DEF K, o
        <5> QED  BY <3>5, <5>2
      <4>3. CASE ~(i <= K - o)
        <5>1. i = K - o + 1 /\ Fire(e)  BY <4>1, <4>3
        <5> QED  BY <1>5, <3>7, <5>1 DEF K, o
      <4> QED  BY <4>2, <4>3
    <3>10. ASSUME NEW i \in DOMAIN data'.items PROVE carried(data'.items[i], h)
      <4> DEFINE D == Len(data.items)  o == By(Out(e))  g == By(Gone)
      <4>1. i \in 1 .. D - g + o /\ D \in Nat /\ o \in {0, 1} /\ g \in {0, 1} /\ (o = 1 <=> Out(e)) /\ g <= D
        BY <1>2, <1>4, <1>6
      <4> HIDE DEF D, o, g
      <4>2. CASE i <= D - g
        <5>1. i + g \in 1 .. D /\ i \in 1 .. D - g  BY <4>1, <4>2
        <5>2. i + g \in DOMAIN data.items /\ data'.items[i] = data.items[i + g]
          BY <1>2, <1>6, <5>1 DEF D, g
        <5> QED  BY <3>6, <5>2
      <4>3. CASE ~(i <= D - g)
        <5>1. i = D - g + 1 /\ Out(e)  BY <4>1, <4>3
        <5> QED  BY <1>6, <3>8, <5>1 DEF D, g
      <4> QED  BY <4>2, <4>3
    <3> QED  BY <3>9, <3>10
  <2> QED  BY <2>1, <2>2
<1> QED  BY <1>7 DEF Masks, Late, Hits, PictureNext, PictureAfter

(* A write of the writer, where it has a pixel and where it has none.        *)
LEMMA WriterWrites ==
  ASSUME IInv, FInv, NEW e, Clocked(e), Port(e) = "writer", ~Starts(e), NEW p \in Place, NEW h \in Halves,
         Stored(p, h)
  PROVE  LET w == writer.line.n
             q == PictureAfter(Left)
         IN  IF BeingWritten(p, h)' 
             THEN /\ q[p].depth[h] = lines[w].z /\ \A c \in Colors : q[p].color[c][h] = w
                  /\ \A c \in Colors : Done(c)' => mem'[p].color[c][h] = w
                  /\ Deep(h)' => mem'[p].depth[h] = lines[w].z
             ELSE /\ mem'[p].depth[h] = q[p].depth[h]
                  /\ \A c \in Colors : mem'[p].color[c][h] = q[p].color[c][h]
<1> USE DEF FInv
<1> DEFINE w == writer.line.n  q == PictureAfter(Left)  s == writer.state  t == writer'.state
           mask == writer.line.mask
<1>1. Types /\ Lanes /\ Output  BY DEF IInv
<1>2. s # "IDLE" /\ s \in WriterStates  BY <1>1, PortFacts DEF Types
<1>3. w \in 1 .. Len(lines) /\ writer.line.color = w /\ writer.line.z = w /\ lines'[w] = lines[w]
  <2>1. w \in 1 .. Left /\ writer.line.color = w /\ writer.line.z = w  BY <1>1, <1>2 DEF Output
  <2>2. Len(lines) \in Nat /\ Left \in Nat /\ Left <= Len(lines)
    <3> DEFINE L == Len(lines)  M == Len(meta.items)  D == Len(data.items)
    <3>1. L \in Nat /\ M \in Nat /\ D \in Nat /\ Left \in Nat /\ Left = L - M - D  BY Places
    <3> HIDE DEF L, M, D
    <3>2. Left <= L  BY <3>1
    <3> QED  BY <3>1, <3>2 DEF L
  <2>3. w \in 1 .. Len(lines)  BY <2>1, <2>2
  <2> QED  BY <1>1, <2>1, <2>3, Accepted
<1>4. ~to_writer  BY <1>2 DEF to_writer, writer_ready
<1>5. writer'.line = writer.line /\ t = WriterNext(s, mask)  BY <1>1, <1>4, WriterUpdate
<1>6. mem' = Written(mem)  BY GhostUpdate
<1>7. /\ mem'[p].depth[h] = IF Stores(p, h, s) THEN lines[w].z ELSE mem[p].depth[h]
      /\ \A c \in Colors : mem'[p].color[c][h] = IF Paints(p, h, c) THEN w ELSE mem[p].color[c][h]
  BY <1>1, <1>2, <1>3, <1>6, WrittenFacts
<1> DEFINE at == lines[w].place = p /\ h \in mask
<1>8. BeingWritten(p, h) <=> at  BY <1>2 DEF BeingWritten
<1>9. BeingWritten(p, h)' <=> t # "IDLE" /\ at  BY <1>3, <1>5 DEF BeingWritten
<1>10. CASE ~at
  <2>1. ~Stores(p, h, s) /\ \A c \in Colors : ~Paints(p, h, c)  BY <1>10 DEF Stores, Paints
  <2> QED  BY <1>7, <1>8, <1>9, <1>10, <2>1 DEF Stored
<1>11. CASE at
  <2>1. /\ q[p].depth[h] = lines[w].z /\ \A c \in Colors : q[p].color[c][h] = w
        /\ \A c \in Colors : Done(c) => mem[p].color[c][h] = w
        /\ Deep(h) => mem[p].depth[h] = lines[w].z
    BY <1>8, <1>11 DEF Stored
  <2>2. /\ Stores(p, h, s) <=> (s = "DEPTH1" /\ h = "lo") \/ (s = "DEPTH2" /\ h = "hi")
        /\ \A c \in Colors : Paints(p, h, c) <=> s = c
    BY <1>11 DEF Stores, Paints
  <2>3. \A c \in Colors : Done(c)' => mem'[p].color[c][h] = w
    <3> SUFFICES ASSUME NEW c \in Colors, Done(c)' PROVE mem'[p].color[c][h] = w
      OBVIOUS
    <3>1. Done(c) \/ s = c
      BY <1>2, <1>5 DEF Done, Colors, WriterStates, WriterNext
    <3> QED  BY <1>7, <2>1, <2>2, <3>1
  <2>4. Deep(h)' => mem'[p].depth[h] = lines[w].z
    <3> SUFFICES ASSUME Deep(h)' PROVE mem'[p].depth[h] = lines[w].z
      OBVIOUS
    <3>1. h = "lo" /\ t = "DEPTH2"  BY DEF Deep
    <3>2. s = "DEPTH1"  BY <1>2, <1>5, <1>11, <3>1 DEF WriterStates, Colors, WriterNext
    <3> QED  BY <1>7, <2>2, <3>1, <3>2
  <2>5. CASE t # "IDLE"  BY <1>9, <1>11, <2>1, <2>3, <2>4, <2>5
  <2>6. CASE t = "IDLE"
    <3>1. s = "DEPTH1" \/ s = "DEPTH2"
      BY <1>2, <1>5, <1>11, <2>6 DEF WriterStates, Colors, WriterNext, Halves
    <3>2. \A c \in Colors : Done(c)'  BY <2>6 DEF Done, Colors
    <3>3. mem'[p].depth[h] = lines[w].z
      <4>1. CASE s = "DEPTH1"
        <5>1. "hi" \notin mask  BY <1>5, <2>6, <4>1 DEF WriterNext
        <5>2. h = "lo"  BY <1>11, <5>1 DEF Halves
        <5> QED  BY <1>7, <2>2, <4>1, <5>2
      <4>2. CASE s = "DEPTH2"
        <5>1. h = "hi" \/ Deep(h)  BY <4>2 DEF Halves, Deep
        <5> QED  BY <1>7, <2>1, <2>2, <4>2, <5>1
      <4> QED  BY <3>1, <4>1, <4>2
    <3> QED  BY <1>9, <2>1, <2>3, <2>6, <3>2, <3>3
  <2> QED  BY <2>5, <2>6
<1> QED  BY <1>10, <1>11

(* The writer is only in a state its line has pixels for.                    *)
LEMMA WriterMasks ==
  ASSUME IInv, FInv, NEW e, Clocked(e)
  PROVE  /\ writer'.state = "DEPTH1" => "lo" \in writer'.line.mask
         /\ writer'.state = "DEPTH2" => "hi" \in writer'.line.mask
         /\ writer'.state = "BLUE" \/ writer'.state = "RED" \/ writer'.state = "GREEN" => writer'.line.mask # {}
<1> DEFINE s == writer.state  t == writer'.state  mask == writer.line.mask
<1>1. Types  BY DEF IInv
<1>2. /\ writer'.line = IF to_writer THEN out_line ELSE writer.line
      /\ t = IF to_writer THEN (IF out_line.mask = {} THEN "IDLE" ELSE "RED")
             ELSE IF Port(e) = "writer" THEN WriterNext(s, mask) ELSE s
  BY <1>1, WriterUpdate
<1>3. /\ s = "DEPTH1" => "lo" \in mask
      /\ s = "DEPTH2" => "hi" \in mask
      /\ s = "BLUE" \/ s = "RED" \/ s = "GREEN" => mask # {}
  BY DEF FInv, Memories
<1>4. s \in WriterStates /\ (Port(e) = "writer" => s # "IDLE")  BY <1>1, PortFacts DEF Types
<1>5. CASE to_writer  BY <1>2, <1>5
<1>6. CASE ~to_writer /\ Port(e) = "writer"
  <2>1. writer'.line = writer.line /\ t = WriterNext(s, mask)  BY <1>2, <1>6
  <2> QED  BY <1>3, <1>4, <1>6, <2>1 DEF WriterStates, Colors, WriterNext
<1>7. CASE ~to_writer /\ Port(e) # "writer"  BY <1>2, <1>3, <1>7
<1> QED  BY <1>5, <1>6, <1>7

(* An edge keeps the surfaces the picture of the lines that have left.       *)
LEMMA MemoriesKeep ==
  ASSUME IInv, FInv, NEW e, Clocked(e)
  PROVE  Memories'
<1> USE DEF FInv
<1> DEFINE L == Len(lines)  g == By(Gone)
           q == PictureAfter(Left)  qn == PictureNext(Left + g)
<1>1. Types /\ Lanes /\ Output  BY DEF IInv
<1>2. /\ Left \in Nat /\ Left' = Left + g
      /\ (Gone <=> completion_marker \/ to_writer) /\ ~(completion_marker /\ to_writer)
      /\ Gone => /\ out_line = data.items[1] /\ out_line.n = Left + 1
                 /\ Left + 1 \in 1 .. L /\ lines[Left + 1] \in Line \cup {MarkerLine}
                 /\ (completion_marker <=> lines[Left + 1].marker)
  BY <1>1, Leaving
<1>3. /\ L \in Nat /\ Left <= L /\ \A i \in 1 .. L : lines'[i] = lines[i]
      /\ g \in {0, 1} /\ (g = 1 <=> Gone) /\ DOMAIN data.items = 1 .. Len(data.items)
  <2>1. L \in Nat /\ \A i \in 1 .. L : lines'[i] = lines[i]  BY <1>1, Accepted
  <2>2. g \in {0, 1} /\ (g = 1 <=> Gone)  BY DEF By
  <2>3. Left <= L
    <3> DEFINE M == Len(meta.items)  D == Len(data.items)
    <3>1. L \in Nat /\ M \in Nat /\ D \in Nat /\ Left = L - M - D  BY Places
    <3> HIDE DEF L, M, D
    <3> QED  BY <3>1
  <2> QED  BY <2>1, <2>2, <2>3, Places
<1>4. first - 1 <= Left /\ first \in Nat
  <2>1. first \in 1 .. L + 1 /\ first - 1 <= Left  BY DEF Frame, Progress
  <2> QED  BY <1>3, <2>1
<1>5. /\ writer'.line = IF to_writer THEN out_line ELSE writer.line
      /\ writer'.state = IF to_writer THEN (IF out_line.mask = {} THEN "IDLE" ELSE "RED")
                         ELSE IF Port(e) = "writer" THEN WriterNext(writer.state, writer.line.mask)
                         ELSE writer.state
      /\ to_writer => writer.state = "IDLE"
  BY <1>1, WriterUpdate
<1>6. mem' = IF Starts(e) THEN Cleared ELSE IF Port(e) = "writer" THEN Written(mem) ELSE mem
  BY GhostUpdate
<1> DEFINE stored(p, h) ==
      IF BeingWritten(p, h)'
      THEN LET w == writer'.line.n
           IN  /\ qn[p].depth[h] = lines'[w].z /\ \A c \in Colors : qn[p].color[c][h] = w
               /\ \A c \in Colors : Done(c)' => mem'[p].color[c][h] = w
               /\ Deep(h)' => mem'[p].depth[h] = lines'[w].z
      ELSE /\ mem'[p].depth[h] = qn[p].depth[h]
           /\ \A c \in Colors : mem'[p].color[c][h] = qn[p].color[c][h]
<1>7. ASSUME NEW p \in Place, NEW h \in Halves, <<p, h>> \notin early' PROVE stored(p, h)
  <2>1. CASE Starts(e)
    <3>1. /\ Left = L /\ ~Gone /\ ~to_writer /\ writer.state = "IDLE" /\ Port(e) = Nobody
      BY <2>1, AtStart
    <3>2. mem' = Cleared /\ first' = L + 1  BY <1>6, <2>1, GhostUpdate
    <3>3. Left + g = L /\ Left + g < first'  BY <1>2, <1>3, <3>1, <3>2
    <3>4. qn = Cleared  BY <3>3 DEF PictureNext
    <3>5. writer'.state = "IDLE"
      <4>1. Port(e) # "writer"  BY <3>1, <1>1, PortFacts
      <4> QED  BY <1>5, <3>1, <4>1
    <3>6. ~BeingWritten(p, h)'  BY <3>5 DEF BeingWritten
    <3> QED  BY <3>2, <3>4, <3>6
  <2>2. CASE ~Starts(e)
    <3>1. <<p, h>> \notin early  BY <1>7, <2>2, EarlyUpdate
    <3>2. Stored(p, h)  BY <3>1 DEF Memories
    <3>3. Left + g \in Int /\ Left + g <= L  BY <1>2, <1>3
    <3>4. qn = PictureAfter(Left + g)  BY <2>2, <3>3, PictureStays
    <3>5. Gone => /\ qn[p].depth[h] = IF Strikes(q, lines[Left + 1], p, h) THEN lines[Left + 1].z ELSE q[p].depth[h]
                  /\ \A c \in Colors : qn[p].color[c][h] = IF Strikes(q, lines[Left + 1], p, h) THEN Left + 1
                                                           ELSE q[p].color[c][h]
      <4> SUFFICES ASSUME Gone
                   PROVE  /\ qn[p].depth[h] = IF Strikes(q, lines[Left + 1], p, h) THEN lines[Left + 1].z ELSE q[p].depth[h]
                          /\ \A c \in Colors : qn[p].color[c][h] = IF Strikes(q, lines[Left + 1], p, h) THEN Left + 1
                                                                   ELSE q[p].color[c][h]
        OBVIOUS
      <4> DEFINE n == Left + 1
      <4>1. n \in Int /\ n <= L /\ first <= n /\ n - 1 = Left /\ Left + g = n
        <5>1. g = 1 /\ Left + 1 \in 1 .. L  BY <1>2, <1>3
        <5> HIDE DEF L, g
        <5> QED  BY <1>2, <1>3, <1>4, <5>1
      <4>2. n <= Len(lines)  BY <4>1
      <4> HIDE DEF n
      <4>3. /\ PictureAfter(n)[p].depth[h] = IF Strikes(PictureAfter(n - 1), lines[n], p, h) THEN lines[n].z
                                             ELSE PictureAfter(n - 1)[p].depth[h]
            /\ \A c \in Colors : PictureAfter(n)[p].color[c][h] =
                 IF Strikes(PictureAfter(n - 1), lines[n], p, h) THEN n ELSE PictureAfter(n - 1)[p].color[c][h]
        BY <1>1, <4>1, <4>2, PictureSteps
      <4> QED  BY <3>4, <4>1, <4>3 DEF n
    <3>6. CASE to_writer
      <4> DEFINE n == Left + 1
      <4>1. Gone /\ writer.state = "IDLE" /\ ~lines[n].marker /\ writer'.line = out_line /\ out_line.n = n
        BY <1>2, <1>5, <3>6
      <4>2. Port(e) # "writer"  BY <1>1, <4>1, PortFacts
      <4>3. mem' = mem  BY <1>6, <2>2, <4>2
      <4>4. /\ mem[p].depth[h] = q[p].depth[h]
            /\ \A c \in Colors : mem[p].color[c][h] = q[p].color[c][h]
        BY <3>2, <4>1 DEF Stored, BeingWritten
      <4>5. lines'[n] = lines[n]  BY <1>2, <1>3, <4>1
      <4>6. lines[n].place = p => (h \in out_line.mask <=> Hits(n, h))
        <5>1. Len(data.items) >= 1
          <6>1. data.valid_q  BY <3>6 DEF to_writer
          <6>2. data \in Fifos(OutLine) /\ data.items \in Seq(OutLine)  BY <1>1 DEF Types, Fifos
          <6>3. data.items # <<>>  BY <6>1, <6>2 DEF Fifos
          <6> QED  BY <6>2, <6>3, Lengths
        <5>2. 1 \in DOMAIN data.items
          <6>1. Len(data.items) \in Nat  BY Places
          <6> QED  BY <1>3, <5>1, <6>1
        <5>3. out_line = data.items[1]  BY <1>2, <4>1
        <5> QED  BY <3>1, <4>1, <5>2, <5>3 DEF Masks, Late
      <4>7. n - 1 = Left  BY <1>2
      <4>8. Strikes(q, lines[n], p, h) <=> lines[n].place = p /\ h \in out_line.mask
        BY <4>1, <4>6, <4>7 DEF Strikes, Hits
      <4>9. writer'.state = (IF out_line.mask = {} THEN "IDLE" ELSE "RED")  BY <1>5, <3>6
      <4>10. BeingWritten(p, h)' <=> lines[n].place = p /\ h \in out_line.mask
        BY <4>1, <4>5, <4>9 DEF BeingWritten
      <4>11. CASE BeingWritten(p, h)'
        <5>1. writer'.state = "RED"  BY <4>9, <4>11 DEF BeingWritten
        <5>2. (\A c \in Colors : ~Done(c)') /\ ~Deep(h)'  BY <5>1 DEF Done, Deep, Colors
        <5>3. qn[p].depth[h] = lines[n].z /\ \A c \in Colors : qn[p].color[c][h] = n
          BY <3>5, <4>1, <4>8, <4>10, <4>11
        <5> QED  BY <4>1, <4>5, <4>11, <5>2, <5>3
      <4>12. CASE ~BeingWritten(p, h)'
        <5>1. qn[p].depth[h] = q[p].depth[h] /\ \A c \in Colors : qn[p].color[c][h] = q[p].color[c][h]
          BY <3>5, <4>1, <4>8, <4>10, <4>12
        <5> QED  BY <4>3, <4>4, <4>12, <5>1
      <4> QED  BY <4>11, <4>12
    <3>7. CASE ~to_writer
      <4>1. qn[p].depth[h] = q[p].depth[h] /\ \A c \in Colors : qn[p].color[c][h] = q[p].color[c][h]
        <5>1. CASE Gone
          <6>1. lines[Left + 1].marker  BY <1>2, <3>7, <5>1
          <6> QED  BY <3>5, <5>1, <6>1 DEF Strikes
        <5>2. CASE ~Gone
          <6>1. Left + g = Left  BY <1>2, <1>3, <5>2
          <6> QED  BY <3>4, <6>1
        <5> QED  BY <5>1, <5>2
      <4>2. writer'.line = writer.line  BY <1>5, <3>7
      <4>3. writer.state # "IDLE" => lines'[writer.line.n] = lines[writer.line.n]
        <5> SUFFICES ASSUME writer.state # "IDLE" PROVE lines'[writer.line.n] = lines[writer.line.n]
          OBVIOUS
        <5>1. writer.line.n \in 1 .. Left  BY <1>1 DEF Output
        <5>2. writer.line.n \in 1 .. L  BY <1>2, <1>3, <5>1
        <5> QED  BY <1>3, <5>2
      <4>4. BeingWritten(p, h)' => writer.state # "IDLE"
        BY <1>1, <3>7, WriterUpdate DEF BeingWritten
      <4>5. CASE Port(e) = "writer"
        <5>1. IF BeingWritten(p, h)'
              THEN /\ q[p].depth[h] = lines[writer.line.n].z /\ \A c \in Colors : q[p].color[c][h] = writer.line.n
                   /\ \A c \in Colors : Done(c)' => mem'[p].color[c][h] = writer.line.n
                   /\ Deep(h)' => mem'[p].depth[h] = lines[writer.line.n].z
              ELSE /\ mem'[p].depth[h] = q[p].depth[h]
                   /\ \A c \in Colors : mem'[p].color[c][h] = q[p].color[c][h]
          BY <2>2, <3>2, <4>5, WriterWrites
        <5> QED  BY <4>1, <4>2, <4>3, <4>4, <5>1
      <4>6. CASE Port(e) # "writer"
        <5>1. mem' = mem /\ writer'.state = writer.state  BY <1>5, <1>6, <2>2, <3>7, <4>6
        <5>2. BeingWritten(p, h)' <=> BeingWritten(p, h)  BY <4>2, <4>3, <5>1 DEF BeingWritten
        <5>3. (\A c \in Colors : Done(c)' <=> Done(c)) /\ (Deep(h)' <=> Deep(h))
          BY <5>1 DEF Done, Deep, Colors
        <5>4. CASE BeingWritten(p, h)
          <6>1. lines'[writer.line.n] = lines[writer.line.n]  BY <4>3, <5>4 DEF BeingWritten
          <6> QED  BY <3>2, <4>1, <4>2, <5>1, <5>2, <5>3, <5>4, <6>1 DEF Stored
        <5>5. CASE ~BeingWritten(p, h)
          BY <3>2, <4>1, <5>1, <5>2, <5>5 DEF Stored
        <5> QED  BY <5>4, <5>5
      <4> QED  BY <4>5, <4>6
    <3> QED  BY <3>6, <3>7
  <2> QED  BY <2>1, <2>2
<1>8. \A p \in Place, h \in Halves : <<p, h>> \notin early' => Stored(p, h)'
  <2>1. PictureNext(Left + g) = PictureNext(Left')  BY <1>2
  <2>2. ASSUME NEW p \in Place, NEW h \in Halves, stored(p, h) PROVE Stored(p, h)'
    <3>1. CASE BeingWritten(p, h)'
      BY <2>1, <2>2, <3>1 DEF Stored, PictureNext, PictureAfter
    <3>2. CASE ~BeingWritten(p, h)'
      BY <2>1, <2>2, <3>2 DEF Stored, PictureNext, PictureAfter
    <3> QED  BY <3>1, <3>2
  <2> QED  BY <1>7, <2>2
<1> QED  BY <1>8, WriterMasks DEF Memories

(* The invariant of the frame holds at first.                                *)
LEMMA FrameInitially ==
  ASSUME BackInit
  PROVE  FInv
<1> USE DEF BackInit
<1>1. Len(lines) = 0 /\ Len(meta.items) = 0 /\ Len(data.items) = 0 /\ Len(pictures) = 0
  BY EmptySeq DEF EmptyFifo
<1>2. Left = 0  BY <1>1 DEF Left
<1>3. Frame  BY <1>1 DEF Frame
<1>4. Progress  BY <1>2 DEF Progress, busy, NoNumber
<1>5. Pictures
  <2>1. pictures \in Seq(Surfaces)  BY EmptySeq
  <2>2. \A n \in first .. Len(lines) : FALSE  BY <1>1
  <2> QED  BY <1>1, <2>1, <2>2 DEF Pictures
<1>6. /\ maskq.items = <<>> /\ data.items = <<>> /\ owed = <<>>
      /\ \A h \in Halves : reader[h].resp.items = <<>>
  BY DEF EmptyFifo
<1>7. Depths /\ Masks  BY <1>6 DEF Depths, Masks, Mine
<1>8. PictureAfter(Left) = Cleared  BY <1>2 DEF PictureAfter
<1>9. \A p \in Place, h \in Halves : Stored(p, h)  BY <1>8 DEF Stored, BeingWritten
<1>10. Memories  BY <1>9 DEF Memories
<1> QED  BY <1>3, <1>4, <1>5, <1>7, <1>10 DEF FInv

(* Every step keeps it.                                                      *)
LEMMA FrameStep ==
  ASSUME IInv, FInv, [BackNext]_backVars
  PROVE  FInv'
<1>1. CASE BackNext
  <2>1. PICK e : Clocked(e)  BY <1>1, EveryStep
  <2>2. Frame /\ Progress /\ Pictures  BY DEF FInv
  <2>3. Frame' /\ Progress' /\ Pictures'  BY <2>1, <2>2, FrameKeep, ProgressKeep, PicturesKeep
  <2>4. Depths' /\ Masks' /\ Memories'  BY <2>1, DepthsKeep, MasksKeep, MemoriesKeep
  <2> QED  BY <2>3, <2>4 DEF FInv
<1>2. CASE UNCHANGED backVars
  <2>1. Frame' /\ Progress'  BY <1>2 DEF backVars, FInv, Frame, Progress, Left, busy
  <2>2. Pictures'  BY <1>2 DEF backVars, FInv, Pictures, PictureAfter
  <2>3. Depths' /\ Masks'
    <3>1. Depths'  BY <1>2 DEF backVars, FInv, Depths, Mine, Late, PictureAfter
    <3>2. Masks'  BY <1>2 DEF backVars, FInv, Masks, Late, Hits, PictureAfter
    <3> QED  BY <3>1, <3>2
  <2>4. mem' = mem /\ writer' = writer /\ lines' = lines /\ early' = early  BY <1>2 DEF backVars
  <2>5. PictureAfter(Left)' = PictureAfter(Left)  BY <1>2 DEF backVars, Left, PictureAfter
  <2>6. ASSUME NEW p \in Place, NEW h \in Halves PROVE Stored(p, h)' <=> Stored(p, h)
    <3>1. BeingWritten(p, h)' <=> BeingWritten(p, h)  BY <2>4 DEF BeingWritten
    <3>2. (\A c \in Colors : Done(c)' <=> Done(c)) /\ (Deep(h)' <=> Deep(h))  BY <2>4 DEF Done, Deep, Colors
    <3>3. CASE BeingWritten(p, h)  BY <2>4, <2>5, <3>1, <3>2, <3>3 DEF Stored
    <3>4. CASE ~BeingWritten(p, h)  BY <2>4, <2>5, <3>1, <3>4 DEF Stored
    <3> QED  BY <3>3, <3>4
  <2>7. Memories'  BY <2>4, <2>6 DEF FInv, Memories
  <2> QED  BY <2>1, <2>2, <2>3, <2>7 DEF FInv
<1> QED  BY <1>1, <1>2

(***************************************************************************)
(* The invariant of the frame: what the answers, the masks, the writer and *)
(* the surfaces hold of the pictures the lines give one after the other.   *)
(***************************************************************************)
THEOREM FrameInvariant == BackSpec => [](IInv /\ FInv)
<1>1. BackInit => IInv /\ FInv  BY LinesInitially, FrameInitially
<1>2. IInv /\ FInv /\ [BackNext]_backVars => (IInv /\ FInv)'  BY LinesStep, FrameStep
<1> QED  BY <1>1, <1>2, PTL DEF BackSpec

(* Once the status bit is set only lines of the completion triangle are left *)
(* in the pipeline, and they draw nothing.                                   *)
LEMMA NothingLeftToDraw ==
  ASSUME IInv, FInv, status.valid, NEW p \in Place, NEW h \in Halves
  PROVE  /\ PictureAfter(Len(lines))[p].depth[h] = PictureAfter(Left)[p].depth[h]
         /\ \A c \in Colors : PictureAfter(Len(lines))[p].color[c][h] = PictureAfter(Left)[p].color[c][h]
<1> USE DEF FInv
<1> DEFINE L == Len(lines)
           shown(n) == <<PictureAfter(n)[p].depth[h], [c \in Colors |-> PictureAfter(n)[p].color[c][h]]>>
           f == [n \in Left .. L |-> shown(n)]
<1>1. L \in Nat /\ Left \in Nat /\ Left <= L
  <2> DEFINE M == Len(meta.items)  D == Len(data.items)
  <2>1. L \in Nat /\ M \in Nat /\ D \in Nat /\ Left \in Nat /\ Left = L - M - D  BY Places
  <2> HIDE DEF L, M, D
  <2> QED  BY <2>1
<1>2. claimed \in first .. Left /\ lines[claimed].marker /\ first \in Nat
  <2>1. claimed \in 0 .. Left /\ first \in 1 .. L + 1  BY DEF IInv, Status, Frame
  <2>2. claimed >= first /\ lines[claimed].marker  BY DEF Progress
  <2> HIDE DEF L
  <2> QED  BY <1>1, <2>1, <2>2
<1>3. ASSUME NEW n \in Left + 1 .. L PROVE f[n] = f[n - 1]
  <2>1. n \in Int /\ n <= L /\ first <= n /\ claimed < n  BY <1>1, <1>2
  <2>2. lines[n].marker
    <3>1. claimed \in first .. L /\ n \in first .. L  BY <1>1, <1>2, <2>1
    <3> QED  BY <1>2, <2>1, <3>1 DEF Frame
  <2>3. ~Strikes(PictureAfter(n - 1), lines[n], p, h)  BY <2>2 DEF Strikes
  <2>4. Types  BY DEF IInv
  <2>5. /\ PictureAfter(n)[p].depth[h] = PictureAfter(n - 1)[p].depth[h]
        /\ \A c \in Colors : PictureAfter(n)[p].color[c][h] = PictureAfter(n - 1)[p].color[c][h]
    BY <2>1, <2>3, <2>4, PictureSteps
  <2>6. shown(n) = shown(n - 1)  BY <2>5
  <2>7. n \in Left .. L /\ n - 1 \in Left .. L  BY <1>1
  <2> HIDE DEF shown
  <2> QED  BY <2>6, <2>7
<1>4. f[Left] = shown(Left) /\ f[L] = shown(L)  BY <1>1
<1> HIDE DEF f
<1>5. f[L] = f[Left]  BY <1>1, <1>3, Constant
<1>6. shown(L) = shown(Left)  BY <1>4, <1>5
<1>7. PictureAfter(L)[p].depth[h] = PictureAfter(Left)[p].depth[h]  BY <1>6
<1>8. [c \in Colors |-> PictureAfter(L)[p].color[c][h]] = [c \in Colors |-> PictureAfter(Left)[p].color[c][h]]
  BY <1>6
<1>9. ASSUME NEW c \in Colors PROVE PictureAfter(L)[p].color[c][h] = PictureAfter(Left)[p].color[c][h]
  <2>1. [d \in Colors |-> PictureAfter(L)[p].color[d][h]][c] = [d \in Colors |-> PictureAfter(Left)[p].color[d][h]][c]
    BY <1>8
  <2> QED  BY <2>1
<1> QED  BY <1>7, <1>9

(***************************************************************************)
(* When the software sees the completion, the surfaces hold the frame that *)
(* the lines give one after the other, wherever no depth was read while an *)
(* earlier line could still write it.                                      *)
(***************************************************************************)
THEOREM FrameAlwaysMatchesUnlessEarly == BackSpec => []FrameMatchesUnlessEarly
<1>1. ASSUME IInv, FInv PROVE FrameMatchesUnlessEarly
  <2> SUFFICES ASSUME status.valid, NEW p \in Place, NEW h \in Halves, <<p, h>> \notin early
               PROVE  Shown(mem, p, h) = Shown(Reference, p, h)
    BY DEF FrameMatchesUnlessEarly
  <2>1. writer.state = "IDLE" /\ Stored(p, h)  BY <1>1 DEF FInv, Progress, Memories
  <2>2. /\ mem[p].depth[h] = PictureAfter(Left)[p].depth[h]
        /\ \A c \in Colors : mem[p].color[c][h] = PictureAfter(Left)[p].color[c][h]
    BY <2>1 DEF Stored, BeingWritten
  <2>3. /\ PictureAfter(Len(lines))[p].depth[h] = PictureAfter(Left)[p].depth[h]
        /\ \A c \in Colors : PictureAfter(Len(lines))[p].color[c][h] = PictureAfter(Left)[p].color[c][h]
    BY <1>1, NothingLeftToDraw
  <2>4. /\ mem[p].depth[h] = Reference[p].depth[h]
        /\ \A c \in Colors : mem[p].color[c][h] = Reference[p].color[c][h]
    BY <2>2, <2>3 DEF Reference
  <2>5. [c \in Colors |-> mem[p].color[c][h]] = [c \in Colors |-> Reference[p].color[c][h]]  BY <2>4
  <2> QED  BY <2>4, <2>5 DEF Shown
<1>2. IInv /\ FInv => FrameMatchesUnlessEarly  BY <1>1
<1> QED  BY <1>2, FrameInvariant, PTL
===============================================================================
