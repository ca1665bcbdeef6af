-------------------------- MODULE RasterFrontEndProofs --------------------------
(***************************************************************************)
(* The front end of the rasterizer for every frame, every set of triangles *)
(* with an area, any number of them and every depth of its FIFOs: the      *)
(* worker gets the covered pixels of the frame, in order, and nothing else.*)
(*                                                                         *)
(* The geometry: a covered pixel is a mean of the corners with the edge    *)
(* functions as weights (AreasAddUp), so it lies in the bounding box       *)
(* (LineInBox); a rejected tile has none (RejectedIsEmpty); and stepping   *)
(* the edge functions row by row gives the mask (MaskIsCovered).           *)
(*                                                                         *)
(* The flow, FrontInv: from the lines made (sent or queued in line_fifo)   *)
(* back over the walk, tile_fifo and triangle_core to triangle_param, the  *)
(* stages hold later and later tiles (TilesOk, WalkOk, MadeOk), and a line *)
(* not made yet is still in front of one of them (CompleteOk).  That each  *)
(* line pushed is stored although in_ready is not looked at is RoomFor.    *)
(* An edge is described by relations between the registers before and      *)
(* after it (ParamMoves .. MadeMoves), and the parts of the invariant are  *)
(* kept under these.                                                       *)
(***************************************************************************)
EXTENDS RasterFrontEnd, SequenceTheorems, TLAPS

Column(x) == x \in 0 .. TilesX - 1

\* an edge function of a triangle at a pixel
EdgeAt(t, i, x, y) == Setup[t].e[i] + Setup[t].dx[i] * y - Setup[t].dy[i] * x
EdgesAt(t, x, y) == [i \in Edges |-> EdgeAt(t, i, x, y)]

FrontLine == [n: Nat, tex: Nat, x: Nat, y: Nat, mask: SUBSET (0 .. TILE_WIDTH - 1)]
Tile == [n: Nat, tex: Nat, x: Nat, y: Nat, e: [Edges -> Int], reject: BOOLEAN]
Fifos(S) == {f \in [items: Seq(S), valid_q: BOOLEAN] : f.valid_q => f.items # <<>>}

FrontTypes ==
  /\ accepted \in Seq(Triangle) /\ vertex \in Offer /\ software \in Offer
  /\ param \in [state: {"E", "AREA", "ATTR"}, n: Nat, busy: BOOLEAN, valid: BOOLEAN, tex: Nat,
                tex_valid: BOOLEAN]
  /\ texture \in Nat
  /\ core \in [valid: BOOLEAN, n: Nat, tex: Nat, x: Nat, y: Nat]
  /\ tiles \in Fifos(Tile) /\ lineq \in Fifos(FrontLine) /\ sent \in Seq(FrontLine)
  /\ walk \in [writing: BOOLEAN, line: Nat, n: Nat, tex: Nat, x: Nat, y: Nat, e: [Edges -> Int]]

(* In what follows acc are the triangles accepted, p, c and w the registers  *)
(* of triangle_param, triangle_core and line_fifo, s the tiles queued and m  *)
(* the lines made.                                                           *)
InFrame(acc, a) == a.n \in 1 .. Len(acc) /\ Column(a.x) /\ a.y \in 0 .. TilesY - 1
InBox(t, a) == a.x \in bbox(t).min.x .. bbox(t).max.x /\ a.y \in bbox(t).min.y .. bbox(t).max.y

(* One triangle is in triangle_param, and the lookup is its own.             *)
ParamOk(acc, p, tex) ==
  /\ p.busy => p.n = Len(acc) /\ p.n >= 1
  /\ p.state # "E" => p.busy /\ ~p.valid
  /\ p.busy => p.state # "E" \/ p.valid
  /\ p.valid => p.busy /\ p.tex_valid
  /\ p.busy /\ p.tex_valid => p.tex = p.n
  /\ tex # None => tex = p.n /\ p.busy /\ ~p.tex_valid

(* The tile triangle_core is at.                                             *)
CoreOk(acc, p, c) ==
  c.valid => /\ InFrame(acc, c) /\ c.tex = c.n /\ InBox(acc[c.n], c)
             /\ p.busy => c.n < p.n

\* the stages from triangle_core back, and from tile_fifo back, only have
\* tiles that come after a
BeforeCore(a, c, p) == (c.valid => TileBefore(a, c)) /\ (p.busy => a.n < p.n)
BeforeTiles(a, s, c, p) == BeforeCore(a, c, p) /\ \A i \in DOMAIN s : TileBefore(a, s[i])

TileOk(acc, a) ==
  /\ InFrame(acc, a) /\ a.tex = a.n
  /\ a.e = EdgesAt(acc[a.n], a.x * TILE_WIDTH, a.y * TILE_HEIGHT)
  /\ a.reject <=> reject(Setup[acc[a.n]], a.x, a.y)

TilesOk(acc, s, c, p) ==
  /\ \A i \in DOMAIN s : TileOk(acc, s[i]) /\ BeforeCore(s[i], c, p)
  /\ \A i, j \in DOMAIN s : i < j => TileBefore(s[i], s[j])

(* The row the walk is at, and room for the rest of its tile.                *)
WalkOk(acc, w, s, c, p) ==
  w.writing => /\ InFrame(acc, TileOf(w)) /\ w.tex = w.n
               /\ w.line \in 1 .. TILE_HEIGHT - 1
               /\ w.y = Row(w.y) * TILE_HEIGHT + w.line
               /\ w.e = EdgesAt(acc[w.n], w.x * TILE_WIDTH, w.y)
               /\ BeforeTiles(TileOf(w), s, c, p)
RoomFor(n, w) == n + (IF w.writing THEN TILE_HEIGHT - w.line ELSE 0) <= LineDepth

LineOk(acc, l) ==
  /\ InFrame(acc, TileOf(l)) /\ l.y \in 0 .. FRAME_HEIGHT - 1
  /\ l = [n |-> l.n, tex |-> l.n, x |-> l.x, y |-> l.y, mask |-> LineMask(acc[l.n], l.x, l.y)]
  /\ l.mask # {}

MadeOk(acc, m, w, s, c, p) ==
  /\ \A i \in DOMAIN m :
       /\ LineOk(acc, m[i]) /\ BeforeTiles(TileOf(m[i]), s, c, p)
       /\ w.writing => LineBefore(m[i], w)
  /\ \A i, j \in DOMAIN m : i < j => LineBefore(m[i], m[j])

(* A line that is not made yet is in front of some stage.                    *)
SameTile(a, b) == a.n = b.n /\ a.x = b.x /\ a.y = b.y
Waits(l, w, s, c, p) ==
  \/ w.writing /\ SameTile(TileOf(l), TileOf(w)) /\ l.y >= w.y
  \/ \E i \in DOMAIN s : SameTile(TileOf(l), s[i])
  \/ c.valid /\ l.n = c.n /\ ~TileBefore(TileOf(l), c)
  \/ p.busy /\ l.n = p.n
CompleteOk(acc, m, w, s, c, p) ==
  \A l : LineOk(acc, l) => Waits(l, w, s, c, p) \/ \E i \in DOMAIN m : m[i] = l

made == sent \o lineq.items
FrontInv ==
  /\ FrontTypes /\ ParamOk(accepted, param, texture) /\ CoreOk(accepted, param, core)
  /\ TilesOk(accepted, tiles.items, core, param)
  /\ WalkOk(accepted, walk, tiles.items, core, param) /\ RoomFor(Len(lineq.items), walk)
  /\ MadeOk(accepted, made, walk, tiles.items, core, param)
  /\ CompleteOk(accepted, made, walk, tiles.items, core, param)

-------------------------------------------------------------------------------
(* Arithmetic. *)

(* Multiplying by a natural number keeps the order.                          *)
LEMMA TimesOrder ==
  ASSUME NEW a \in Int, NEW b \in Int, NEW s \in Nat, a <= b
  PROVE  a * s \in Int /\ b * s \in Int /\ a * s <= b * s
<1>1. b = a + (b - a) /\ b - a \in Nat  OBVIOUS
<1>2. b * s = a * s + (b - a) * s /\ (b - a) * s \in Nat  BY <1>1, SMT
<1> QED  BY <1>2, SMT

(* A number and its quotient.                                                *)
LEMMA Quotient ==
  ASSUME NEW v \in Int, NEW s \in Nat \ {0}
  PROVE  /\ v \div s \in Int /\ (v \div s) * s <= v /\ v < (v \div s) * s + s
         /\ v >= 0 => v \div s >= 0
<1>1. v = s * (v \div s) + (v % s) /\ v % s \in 0 .. s - 1 /\ v \div s \in Int  BY SMT
<1>2. s * (v \div s) = (v \div s) * s  BY <1>1, SMT
<1>3. v >= 0 => v \div s >= 0  BY SMT
<1> QED  BY <1>1, <1>2, <1>3, SMT

(* The quotient is the only number with these bounds.                        *)
LEMMA QuotientIs ==
  ASSUME NEW v \in Int, NEW s \in Nat \ {0}, NEW q \in Int, q * s <= v, v < q * s + s
  PROVE  v \div s = q
<1> DEFINE d == v \div s
<1>1. d \in Int /\ d * s <= v /\ v < d * s + s  BY Quotient
<1> HIDE DEF d
<1>2. ASSUME d < q PROVE FALSE
  <2>1. (d + 1) * s <= q * s  BY <1>1, <1>2, TimesOrder
  <2>2. (d + 1) * s = d * s + s  BY <1>1, SMT
  <2> QED  BY <1>1, <2>1, <2>2
<1>3. ASSUME q < d PROVE FALSE
  <2>1. (q + 1) * s <= d * s  BY <1>1, <1>3, TimesOrder
  <2>2. (q + 1) * s = q * s + s  BY SMT
  <2> QED  BY <1>1, <2>1, <2>2
<1>4. d = q  BY <1>1, <1>2, <1>3
<1> QED  BY <1>4 DEF d

(* A larger number has no smaller quotient.                                  *)
LEMMA QuotientOrder ==
  ASSUME NEW v \in Int, NEW w \in Int, NEW s \in Nat \ {0}, v <= w
  PROVE  v \div s <= w \div s
<1> DEFINE p == v \div s
           q == w \div s
<1>1. p \in Int /\ p * s <= v /\ q \in Int /\ w < q * s + s  BY Quotient
<1> HIDE DEF p, q
<1>2. ASSUME q < p PROVE FALSE
  <2>1. (q + 1) * s <= p * s  BY <1>1, <1>2, TimesOrder
  <2>2. (q + 1) * s = q * s + s  BY <1>1, SMT
  <2> QED  BY <1>1, <2>1, <2>2
<1>3. p <= q  BY <1>1, <1>2
<1> QED  BY <1>3 DEF p, q

-------------------------------------------------------------------------------
(* Geometry. *)

Point == [x: Int, y: Int]

\* m is the mean of a, b and c with the weights u, v and w
IsMean(m, u, v, w, a, b, c) == (u + v + w) * m = u * a + v * b + w * c
Weights(u, v, w) == u \in Nat /\ v \in Nat /\ w \in Nat /\ u + v + w > 0
Within(m, lo, hi) == m \in Int /\ lo <= m /\ m <= hi

(* A weighted mean lies between bounds of what it is the mean of.            *)
LEMMA Mean ==
  ASSUME NEW u, NEW v, NEW w, NEW a, NEW b, NEW c, NEW m \in Int, NEW lo \in Int, NEW hi \in Int,
         Weights(u, v, w), IsMean(m, u, v, w, a, b, c),
         Within(a, lo, hi), Within(b, lo, hi), Within(c, lo, hi)
  PROVE  lo <= m /\ m <= hi
<1>0. /\ u \in Nat /\ v \in Nat /\ w \in Nat /\ u + v + w > 0
      /\ a \in Int /\ b \in Int /\ c \in Int
      /\ lo <= a /\ lo <= b /\ lo <= c /\ a <= hi /\ b <= hi /\ c <= hi
  BY DEF Weights, Within
<1> DEFINE s == u + v + w
<1>1. /\ lo * u <= a * u /\ a * u <= hi * u /\ lo * v <= b * v /\ b * v <= hi * v
      /\ lo * w <= c * w /\ c * w <= hi * w
  BY <1>0, TimesOrder
<1>2. /\ u * a = a * u /\ v * b = b * v /\ w * c = c * w
      /\ lo * u + lo * v + lo * w = lo * s /\ hi * u + hi * v + hi * w = hi * s
      /\ s * m = m * s /\ s \in Nat \ {0}
  BY <1>0, SMT
<1>7. s * m = u * a + v * b + w * c  BY DEF IsMean
<1>3. /\ lo * u \in Int /\ lo * v \in Int /\ lo * w \in Int
      /\ hi * u \in Int /\ hi * v \in Int /\ hi * w \in Int
      /\ a * u \in Int /\ b * v \in Int /\ c * w \in Int
  BY <1>0, TimesOrder
<1>4. lo * s <= m * s /\ m * s <= hi * s /\ lo * s \in Int /\ hi * s \in Int /\ m * s \in Int
  <2> HIDE DEF s
  <2> QED  BY <1>1, <1>2, <1>3, <1>7
<1> HIDE DEF s
<1>5. ASSUME m < lo PROVE FALSE
  <2>1. (m + 1) * s <= lo * s  BY <1>2, <1>5, TimesOrder
  <2>2. (m + 1) * s = m * s + s  BY <1>2, SMT
  <2> QED  BY <1>2, <1>4, <2>1, <2>2
<1>6. ASSUME hi < m PROVE FALSE
  <2>1. (hi + 1) * s <= m * s  BY <1>2, <1>6, TimesOrder
  <2>2. (hi + 1) * s = hi * s + s  BY <1>2, SMT
  <2> QED  BY <1>2, <1>4, <2>1, <2>2
<1> QED  BY <1>5, <1>6

Corners(ax, ay, bx, by, cx, cy) ==
  /\ ax \in Int /\ ay \in Int /\ bx \in Int /\ by \in Int /\ cx \in Int /\ cy \in Int
\* Side, of coordinates
Cross(px, py, qx, qy, x, y) == (qx - px) * (y - py) - (qy - py) * (x - px)

(* The edge functions of three points at a fourth one add up to the area,    *)
(* and the fourth point is the mean of the three with the edge functions     *)
(* opposite to them as weights.                                              *)
LEMMA AreasAddUp ==
  ASSUME NEW ax, NEW ay, NEW bx, NEW by, NEW cx, NEW cy, NEW x \in Int, NEW y \in Int,
         Corners(ax, ay, bx, by, cx, cy)
  PROVE  LET u == Cross(bx, by, cx, cy, x, y)
             v == Cross(cx, cy, ax, ay, x, y)
             w == Cross(ax, ay, bx, by, x, y)
         IN  /\ u \in Int /\ v \in Int /\ w \in Int
             /\ u + v + w = Cross(ax, ay, bx, by, cx, cy)
             /\ IsMean(x, u, v, w, ax, bx, cx) /\ IsMean(y, u, v, w, ay, by, cy)
<1>0. ax \in Int /\ ay \in Int /\ bx \in Int /\ by \in Int /\ cx \in Int /\ cy \in Int  BY DEF Corners
<1> USE <1>0 DEF Cross
<1> DEFINE u == Cross(bx, by, cx, cy, x, y)
           v == Cross(cx, cy, ax, ay, x, y)
           w == Cross(ax, ay, bx, by, x, y)
<1>1. u \in Int /\ v \in Int /\ w \in Int  BY SMT
<1>2. u + v + w = Cross(ax, ay, bx, by, cx, cy)  BY SMT
<1>3. IsMean(x, u, v, w, ax, bx, cx)  BY SMTT(60) DEF IsMean
<1>4. IsMean(y, u, v, w, ay, by, cy)  BY SMTT(60) DEF IsMean
<1> QED  BY <1>1, <1>2, <1>3, <1>4

(* A covered pixel lies between the extreme coordinates of the triangle.     *)
LEMMA CoveredIsInside ==
  ASSUME NEW t \in Triangle, NEW x \in Int, NEW y \in Int, Covered(t, x, y)
  PROVE  \A lo, hi \in Int :
           /\ (\A v \in Xs(t) : lo <= v /\ v <= hi) => lo <= x /\ x <= hi
           /\ (\A v \in Ys(t) : lo <= v /\ v <= hi) => lo <= y /\ y <= hi
<1>1. t.a \in Point /\ t.b \in Point /\ t.c \in Point  BY TriangleAssumption DEF Point
<1> DEFINE u == Side(t.b, t.c, x, y)
           v == Side(t.c, t.a, x, y)
           w == Side(t.a, t.b, x, y)
<1>2. u >= 0 /\ v >= 0 /\ w >= 0
  <2>1. 1 \in Edges /\ 2 \in Edges /\ 3 \in Edges  BY DEF Edges
  <2>2. /\ From(t)[1] = t.a /\ From(t)[2] = t.b /\ From(t)[3] = t.c
        /\ To(t)[1] = t.b /\ To(t)[2] = t.c /\ To(t)[3] = t.a
    BY DEF From, To
  <2> QED  BY <2>1, <2>2 DEF Covered
<1>3. /\ u \in Int /\ v \in Int /\ w \in Int
      /\ u + v + w = Side(t.a, t.b, t.c.x, t.c.y)
      /\ IsMean(x, u, v, w, t.a.x, t.b.x, t.c.x)
      /\ IsMean(y, u, v, w, t.a.y, t.b.y, t.c.y)
  <2>1. Corners(t.a.x, t.a.y, t.b.x, t.b.y, t.c.x, t.c.y)  BY <1>1 DEF Point, Corners
  <2>2. /\ u = Cross(t.b.x, t.b.y, t.c.x, t.c.y, x, y)
        /\ v = Cross(t.c.x, t.c.y, t.a.x, t.a.y, x, y)
        /\ w = Cross(t.a.x, t.a.y, t.b.x, t.b.y, x, y)
        /\ Side(t.a, t.b, t.c.x, t.c.y) = Cross(t.a.x, t.a.y, t.b.x, t.b.y, t.c.x, t.c.y)
    BY DEF Side, Cross
  <2> HIDE DEF u, v, w
  <2> QED  BY <2>1, <2>2, AreasAddUp
<1>4. u + v + w # 0  BY <1>3, AreaAssumption
<1> HIDE DEF u, v, w
<1>5. Weights(u, v, w)  BY <1>2, <1>3, <1>4 DEF Weights
<1>6. /\ {t.a.x, t.b.x, t.c.x} \subseteq Int /\ {t.a.y, t.b.y, t.c.y} \subseteq Int
      /\ t.a.x \in Xs(t) /\ t.b.x \in Xs(t) /\ t.c.x \in Xs(t)
      /\ t.a.y \in Ys(t) /\ t.b.y \in Ys(t) /\ t.c.y \in Ys(t)
  BY <1>1 DEF Point, Xs, Ys, Vertices
<1> TAKE lo \in Int, hi \in Int
<1>7. ASSUME \A p \in Xs(t) : lo <= p /\ p <= hi PROVE lo <= x /\ x <= hi
  <2>1. Within(t.a.x, lo, hi) /\ Within(t.b.x, lo, hi) /\ Within(t.c.x, lo, hi)
    BY <1>6, <1>7 DEF Within
  <2> QED  BY <1>3, <1>5, <2>1, Mean
<1>8. ASSUME \A p \in Ys(t) : lo <= p /\ p <= hi PROVE lo <= y /\ y <= hi
  <2>1. Within(t.a.y, lo, hi) /\ Within(t.b.y, lo, hi) /\ Within(t.c.y, lo, hi)
    BY <1>6, <1>8 DEF Within
  <2> QED  BY <1>3, <1>5, <2>1, Mean
<1> QED  BY <1>7, <1>8

(* The least and the largest of three numbers.                               *)
LEMMA Extremes ==
  ASSUME NEW a \in Int, NEW b \in Int, NEW c \in Int
  PROVE  LET s == {a, b, c}
         IN  /\ Least(s) \in s /\ Largest(s) \in s
             /\ \A v \in s : v \in Int /\ Least(s) <= v /\ v <= Largest(s)
<1> DEFINE s == {a, b, c}
<1>1. \E v \in s : \A w \in s : v <= w  OBVIOUS
<1>2. \E v \in s : \A w \in s : v >= w  OBVIOUS
<1>3. Least(s) \in s /\ \A w \in s : Least(s) <= w  BY <1>1, Zenon DEF Least
<1>4. Largest(s) \in s /\ \A w \in s : Largest(s) >= w  BY <1>2, Zenon DEF Largest
<1>5. \A v \in s : v \in Int  OBVIOUS
<1> HIDE DEF s
<1>6. \A v \in s : v \in Int /\ Least(s) <= v /\ v <= Largest(s)  BY <1>3, <1>4, <1>5
<1> QED  BY <1>3, <1>4, <1>6 DEF s

(* The extreme coordinates of a triangle.                                    *)
LEMMA Corner ==
  ASSUME NEW t \in Triangle
  PROVE  /\ Least(Xs(t)) \in Int /\ Largest(Xs(t)) \in Int /\ Least(Ys(t)) \in Int /\ Largest(Ys(t)) \in Int
         /\ \A v \in Xs(t) : v \in Int /\ Least(Xs(t)) <= v /\ v <= Largest(Xs(t))
         /\ \A v \in Ys(t) : v \in Int /\ Least(Ys(t)) <= v /\ v <= Largest(Ys(t))
         /\ Least(Xs(t)) <= Largest(Xs(t)) /\ Least(Ys(t)) <= Largest(Ys(t))
<1>1. t.a \in Point /\ t.b \in Point /\ t.c \in Point  BY TriangleAssumption DEF Point
<1>2. Xs(t) = {t.a.x, t.b.x, t.c.x} /\ Ys(t) = {t.a.y, t.b.y, t.c.y}  BY DEF Xs, Ys, Vertices
<1>3. /\ t.a.x \in Int /\ t.b.x \in Int /\ t.c.x \in Int
      /\ t.a.y \in Int /\ t.b.y \in Int /\ t.c.y \in Int
  BY <1>1 DEF Point
<1>4. /\ Least(Xs(t)) \in Xs(t) /\ Largest(Xs(t)) \in Xs(t)
      /\ \A v \in Xs(t) : v \in Int /\ Least(Xs(t)) <= v /\ v <= Largest(Xs(t))
  <2> DEFINE s == {t.a.x, t.b.x, t.c.x}
  <2>1. Least(s) \in s /\ Largest(s) \in s /\ \A v \in s : v \in Int /\ Least(s) <= v /\ v <= Largest(s)
    BY <1>3, Extremes
  <2>2. Xs(t) = s  BY <1>2
  <2> HIDE DEF s
  <2> QED  BY <2>1, <2>2
<1>5. /\ Least(Ys(t)) \in Ys(t) /\ Largest(Ys(t)) \in Ys(t)
      /\ \A v \in Ys(t) : v \in Int /\ Least(Ys(t)) <= v /\ v <= Largest(Ys(t))
  <2> DEFINE s == {t.a.y, t.b.y, t.c.y}
  <2>1. Least(s) \in s /\ Largest(s) \in s /\ \A v \in s : v \in Int /\ Least(s) <= v /\ v <= Largest(s)
    BY <1>3, Extremes
  <2>2. Ys(t) = s  BY <1>2
  <2> HIDE DEF s
  <2> QED  BY <2>1, <2>2
<1> QED  BY <1>4, <1>5

(* The frame's parameters.                                                   *)
LEMMA FrameFacts ==
  /\ TILE_WIDTH \in Nat \ {0} /\ TILE_HEIGHT \in Nat \ {0} /\ TILE_HEIGHT >= 2
  /\ TilesX \in Nat \ {0} /\ TilesY \in Nat \ {0}
  /\ TileDepth \in Nat /\ TileDepth >= 2
  /\ LineDepth \in Nat /\ LineDepth >= TILE_HEIGHT /\ LineDepth >= 2
<1> QED  BY FrameAssumption

(* A pixel of a tile column is in the frame, and the column its quotient.    *)
LEMMA PixelColumn ==
  ASSUME NEW x, Column(x), NEW k \in 0 .. TILE_WIDTH - 1
  PROVE  LET p == x * TILE_WIDTH + k
         IN  p \in Nat /\ p < FRAME_WIDTH /\ p \div TILE_WIDTH = x
<1> DEFINE W == TILE_WIDTH
           p == x * W + k
<1>1. W \in Nat \ {0} /\ TilesX \in Nat \ {0} /\ x \in Nat /\ x + 1 <= TilesX /\ k \in Nat /\ k < W
  BY FrameFacts DEF Column
<1>2. x * W \in Nat /\ (x + 1) * W = x * W + W /\ W * TilesX = TilesX * W  BY <1>1, SMT
<1>3. (x + 1) * W <= TilesX * W  BY <1>1, TimesOrder
<1> HIDE DEF W
<1>4. p \in Nat /\ p < W * TilesX  BY <1>1, <1>2, <1>3
<1>5. p \div W = x  BY <1>1, <1>2, QuotientIs
<1> QED  BY <1>4, <1>5 DEF W, FRAME_WIDTH

(* A row of the frame lies in one of its tiles.                              *)
LEMMA RowInFrame ==
  ASSUME NEW y \in 0 .. FRAME_HEIGHT - 1
  PROVE  /\ Row(y) \in 0 .. TilesY - 1
         /\ Row(y) * TILE_HEIGHT <= y /\ y < Row(y) * TILE_HEIGHT + TILE_HEIGHT
<1> DEFINE H == TILE_HEIGHT
           q == y \div H
<1>1. H \in Nat \ {0} /\ TilesY \in Nat \ {0}  BY FrameFacts
<1>2. H * TilesY = TilesY * H /\ TilesY * H \in Nat  BY <1>1, SMT
<1>3. y \in Nat /\ y < TilesY * H  BY <1>1, <1>2 DEF FRAME_HEIGHT
<1>4. q \in Int /\ q * H <= y /\ y < q * H + H /\ q >= 0  BY <1>1, <1>3, Quotient
<1> HIDE DEF q
<1>5. ASSUME TilesY <= q PROVE FALSE
  <2>1. TilesY * H <= q * H /\ q * H \in Int  BY <1>1, <1>4, <1>5, TimesOrder
  <2> QED  BY <1>2, <1>3, <1>4, <2>1
<1>6. q \in 0 .. TilesY - 1  BY <1>1, <1>4, <1>5
<1> QED  BY <1>4, <1>6 DEF q, Row

(* A line with a pixel lies in the bounding box, and its triangle is not     *)
(* taken for one outside.                                                    *)
LEMMA LineInBox ==
  ASSUME NEW t \in Triangle, NEW x, Column(x), NEW y \in 0 .. FRAME_HEIGHT - 1,
         LineMask(t, x, y) # {}
  PROVE  /\ ~triangle_outside(t)
         /\ x \in bbox(t).min.x .. bbox(t).max.x /\ Row(y) \in bbox(t).min.y .. bbox(t).max.y
<1>1. PICK k \in 0 .. TILE_WIDTH - 1 : Covered(t, x * TILE_WIDTH + k, y)  BY DEF LineMask
<1> DEFINE p == x * TILE_WIDTH + k
           x0 == Least(Xs(t))
           x1 == Largest(Xs(t))
           y0 == Least(Ys(t))
           y1 == Largest(Ys(t))
<1>2. p \in Nat /\ p < FRAME_WIDTH /\ p \div TILE_WIDTH = x  BY PixelColumn
<1>3. Row(y) \in 0 .. TilesY - 1  BY RowInFrame
<1>4. /\ x0 \in Int /\ x1 \in Int /\ y0 \in Int /\ y1 \in Int
      /\ \A v \in Xs(t) : x0 <= v /\ v <= x1
      /\ \A v \in Ys(t) : y0 <= v /\ v <= y1
  BY Corner
<1>5. y \in Int /\ y \in Nat /\ y < FRAME_HEIGHT /\ FRAME_HEIGHT \in Nat
  <2>1. TILE_HEIGHT * TilesY \in Nat  BY FrameFacts, SMT
  <2> QED  BY <2>1 DEF FRAME_HEIGHT
<1>6. x0 <= p /\ p <= x1 /\ y0 <= y /\ y <= y1
  BY <1>1, <1>2, <1>4, <1>5, CoveredIsInside
<1>7. ~triangle_outside(t)
  <2>1. FRAME_WIDTH \in Nat
    <3>1. TILE_WIDTH * TilesX \in Nat  BY FrameFacts, SMT
    <3> QED  BY <3>1 DEF FRAME_WIDTH
  <2> HIDE DEF p, x0, x1, y0, y1
  <2>2. ~(x1 < 0) /\ ~(x0 >= FRAME_WIDTH) /\ ~(y1 < 0) /\ ~(y0 >= FRAME_HEIGHT)
    BY <1>2, <1>4, <1>5, <1>6, <2>1
  <2> QED  BY <2>2 DEF triangle_outside, x0, x1, y0, y1
<1> DEFINE W == TILE_WIDTH
           H == TILE_HEIGHT
<1>8. /\ x0 \div W <= x /\ x <= x1 \div W /\ x0 \div W \in Int /\ x1 \div W \in Int
  <2> HIDE DEF p, x0, x1
  <2>1. W \in Nat \ {0} /\ p \in Int  BY <1>2, FrameFacts
  <2>2. x0 \div W <= p \div W /\ p \div W <= x1 \div W  BY <1>4, <1>6, <2>1, QuotientOrder
  <2>3. x0 \div W \in Int /\ x1 \div W \in Int  BY <1>4, <2>1, Quotient
  <2> HIDE DEF W
  <2>4. p \div W = x  BY <1>2 DEF W
  <2> QED  BY <2>2, <2>3, <2>4
<1>9. /\ y0 \div H <= Row(y) /\ Row(y) <= y1 \div H /\ y0 \div H \in Int /\ y1 \div H \in Int
  <2> HIDE DEF y0, y1
  <2> QED  BY <1>4, <1>5, <1>6, FrameFacts, QuotientOrder, Quotient DEF Row
<1>10. x \in Clip(x0 \div W, TilesX - 1) .. Clip(x1 \div W, TilesX - 1)
  <2> DEFINE l == x0 \div W
             h == x1 \div W
  <2> HIDE DEF l, h, x0, x1
  <2>1. l \in Int /\ h \in Int /\ l <= x /\ x <= h  BY <1>8 DEF l, h
  <2>2. x \in Clip(l, TilesX - 1) .. Clip(h, TilesX - 1)  BY <2>1, FrameFacts DEF Clip, Column
  <2> QED  BY <2>2 DEF l, h
<1>11. Row(y) \in Clip(y0 \div H, TilesY - 1) .. Clip(y1 \div H, TilesY - 1)
  <2> DEFINE l == y0 \div H
             h == y1 \div H
             r == Row(y)
  <2> HIDE DEF l, h, y0, y1, r
  <2>1. l \in Int /\ h \in Int /\ l <= r /\ r <= h /\ r \in 0 .. TilesY - 1  BY <1>3, <1>9 DEF l, h, r
  <2>2. r \in Clip(l, TilesY - 1) .. Clip(h, TilesY - 1)  BY <2>1, FrameFacts DEF Clip
  <2> QED  BY <2>2 DEF l, h, r
<1>12. /\ bbox(t).min.x = Clip(x0 \div W, TilesX - 1) /\ bbox(t).max.x = Clip(x1 \div W, TilesX - 1)
       /\ bbox(t).min.y = Clip(y0 \div H, TilesY - 1) /\ bbox(t).max.y = Clip(y1 \div H, TilesY - 1)
  BY DEF bbox
<1> QED  BY <1>7, <1>10, <1>11, <1>12

(* The bounding box is in the frame.                                         *)
LEMMA BoxInFrame ==
  ASSUME NEW t \in Triangle
  PROVE  LET b == bbox(t)
         IN  /\ b.min.x \in 0 .. TilesX - 1 /\ b.max.x \in 0 .. TilesX - 1 /\ b.min.x <= b.max.x
             /\ b.min.y \in 0 .. TilesY - 1 /\ b.max.y \in 0 .. TilesY - 1 /\ b.min.y <= b.max.y
<1> DEFINE x0 == Least(Xs(t)) \div TILE_WIDTH
           x1 == Largest(Xs(t)) \div TILE_WIDTH
           y0 == Least(Ys(t)) \div TILE_HEIGHT
           y1 == Largest(Ys(t)) \div TILE_HEIGHT
<1>1. x0 \in Int /\ x1 \in Int /\ y0 \in Int /\ y1 \in Int /\ x0 <= x1 /\ y0 <= y1
  BY Corner, FrameFacts, Quotient, QuotientOrder
<1>2. /\ bbox(t).min.x = Clip(x0, TilesX - 1) /\ bbox(t).max.x = Clip(x1, TilesX - 1)
      /\ bbox(t).min.y = Clip(y0, TilesY - 1) /\ bbox(t).max.y = Clip(y1, TilesY - 1)
  BY DEF bbox
<1> HIDE DEF x0, x1, y0, y1
<1> QED  BY <1>1, <1>2, FrameFacts DEF Clip

(* The table of a triangle's parameters.                                     *)
LEMMA SetupOf ==
  ASSUME NEW t \in Triangle
  PROVE  /\ Setup[t] = ParamOf(t) /\ Setup[t].bbox = bbox(t) /\ Setup[t].outside = triangle_outside(t)
         /\ \A i \in Edges :
              /\ Setup[t].dx[i] = dx(t, i) /\ Setup[t].dy[i] = dy(t, i) /\ Setup[t].e[i] = e0(t, i)
              /\ dx(t, i) \in Int /\ dy(t, i) \in Int /\ e0(t, i) \in Int
<1>1. Setup[t] = ParamOf(t)  BY DEF Setup
<1>2. t.a \in Point /\ t.b \in Point /\ t.c \in Point  BY TriangleAssumption DEF Point
<1>3. \A i \in Edges : From(t)[i] \in Point /\ To(t)[i] \in Point  BY <1>2 DEF Edges, From, To
<1>4. \A p, q \in Point : q.x - p.x \in Int /\ q.y - p.y \in Int /\ p.x * q.y - p.y * q.x \in Int
  <2> TAKE p \in Point, q \in Point
  <2>1. p.x \in Int /\ p.y \in Int /\ q.x \in Int /\ q.y \in Int  BY DEF Point
  <2> QED  BY <2>1, SMT
<1>5. \A i \in Edges : dx(t, i) \in Int /\ dy(t, i) \in Int /\ e0(t, i) \in Int
  BY <1>3, <1>4 DEF dx, dy, e0
<1> QED  BY <1>1, <1>5 DEF ParamOf

(* The edge functions that the tables give are those of the triangle.        *)
LEMMA EdgeIsSide ==
  ASSUME NEW t \in Triangle, NEW i \in Edges, NEW x \in Int, NEW y \in Int
  PROVE  EdgeAt(t, i, x, y) = Side(From(t)[i], To(t)[i], x, y)
<1> DEFINE p == From(t)[i]
           q == To(t)[i]
<1>1. t.a \in Point /\ t.b \in Point /\ t.c \in Point  BY TriangleAssumption DEF Point
<1>2. p \in Point /\ q \in Point  BY <1>1 DEF Edges, From, To
<1>3. p.x \in Int /\ p.y \in Int /\ q.x \in Int /\ q.y \in Int  BY <1>2 DEF Point
<1>4. Setup[t].dx[i] = q.x - p.x /\ Setup[t].dy[i] = q.y - p.y /\ Setup[t].e[i] = p.x * q.y - p.y * q.x
  BY SetupOf DEF dx, dy, e0
<1> HIDE DEF p, q
<1>5. \A a, b, c, d \in Int :
        (a * d - b * c) + (c - a) * y - (d - b) * x = (c - a) * (y - b) - (d - b) * (x - a)
  BY SMTT(60)
<1>6. EdgeAt(t, i, x, y) = (p.x * q.y - p.y * q.x) + (q.x - p.x) * y - (q.y - p.y) * x
  BY <1>4 DEF EdgeAt
<1>7. Side(p, q, x, y) = (q.x - p.x) * (y - p.y) - (q.y - p.y) * (x - p.x)  BY DEF Side
<1>8. Side(p, q, x, y) = EdgeAt(t, i, x, y)
  <2> DEFINE a == p.x
             b == p.y
             c == q.x
             d == q.y
  <2>1. a \in Int /\ b \in Int /\ c \in Int /\ d \in Int  BY <1>3
  <2>2. /\ EdgeAt(t, i, x, y) = (a * d - b * c) + (c - a) * y - (d - b) * x
        /\ Side(p, q, x, y) = (c - a) * (y - b) - (d - b) * (x - a)
    BY <1>6, <1>7
  <2> HIDE DEF a, b, c, d
  <2> QED  BY <2>1, <2>2, SMTT(60)
<1> QED  BY <1>8 DEF p, q

Gain(d, r) == d * r

(* An edge function at one place and at another.                             *)
LEMMA EdgeMoves ==
  ASSUME NEW t \in Triangle, NEW i \in Edges, NEW x \in Int, NEW y \in Int, NEW v \in Int, NEW w \in Int
  PROVE  /\ EdgeAt(t, i, x, y) \in Int
         /\ EdgeAt(t, i, v, w) = EdgeAt(t, i, x, y) + Gain(Setup[t].dx[i], w - y) - Gain(Setup[t].dy[i], v - x)
         /\ Gain(Setup[t].dx[i], w - y) \in Int /\ Gain(Setup[t].dy[i], v - x) \in Int
<1> DEFINE e == Setup[t].e[i]
           d == Setup[t].dx[i]
           f == Setup[t].dy[i]
<1>1. e \in Int /\ d \in Int /\ f \in Int  BY SetupOf
<1> HIDE DEF e, d, f
<1>2. e + d * y - f * x \in Int /\ d * (w - y) \in Int /\ f * (v - x) \in Int  BY <1>1, SMT
<1>3. e + d * w - f * v = (e + d * y - f * x) + d * (w - y) - f * (v - x)  BY <1>1, SMT
<1> QED  BY <1>2, <1>3 DEF EdgeAt, Gain, e, d, f

(* The row below: what the walk adds to its edge functions.                  *)
LEMMA EdgesNextRow ==
  ASSUME NEW t \in Triangle, NEW x \in Int, NEW y \in Int
  PROVE  /\ EdgesAt(t, x, y + 1) = [i \in Edges |-> EdgesAt(t, x, y)[i] + Setup[t].dx[i]]
         /\ EdgesAt(t, x, y) \in [Edges -> Int]
<1>1. ASSUME NEW i \in Edges
      PROVE  /\ EdgeAt(t, i, x, y + 1) = EdgeAt(t, i, x, y) + Setup[t].dx[i]
             /\ EdgeAt(t, i, x, y) \in Int
  <2> DEFINE w == y + 1
  <2>1. w \in Int /\ w - y = 1 /\ x - x = 0  OBVIOUS
  <2>2. Gain(Setup[t].dx[i], 1) = Setup[t].dx[i] /\ Gain(Setup[t].dy[i], 0) = 0 /\ Setup[t].dx[i] \in Int
    BY <1>1, SetupOf DEF Gain
  <2> HIDE DEF w
  <2>3. EdgeAt(t, i, x, w) = EdgeAt(t, i, x, y) + Setup[t].dx[i] /\ EdgeAt(t, i, x, y) \in Int
    BY <2>1, <2>2, EdgeMoves
  <2> QED  BY <2>3 DEF w
<1> QED  BY <1>1 DEF EdgesAt

(* The mask of a line has the pixels the triangle covers.                    *)
LEMMA MaskIsCovered ==
  ASSUME NEW t \in Triangle, NEW x \in Int, NEW y \in Int
  PROVE  {k \in 0 .. TILE_WIDTH - 1 :
            \A i \in Edges : EdgesAt(t, x * TILE_WIDTH, y)[i] - Setup[t].dy[i] * k >= 0}
           = LineMask(t, x, y)
<1> DEFINE X == x * TILE_WIDTH
<1>1. X \in Int  BY FrameFacts, SMT
<1> HIDE DEF X
<1>2. ASSUME NEW k \in 0 .. TILE_WIDTH - 1, NEW i \in Edges
      PROVE  EdgesAt(t, X, y)[i] - Setup[t].dy[i] * k = Side(From(t)[i], To(t)[i], X + k, y)
  <2> DEFINE v == X + k
  <2>1. v \in Int /\ v - X = k /\ y - y = 0  BY <1>1
  <2>2. Gain(Setup[t].dx[i], 0) = 0 /\ Gain(Setup[t].dy[i], k) = Setup[t].dy[i] * k  BY <1>2, SetupOf DEF Gain
  <2> HIDE DEF v
  <2>3. EdgeAt(t, i, v, y) = EdgeAt(t, i, X, y) - Gain(Setup[t].dy[i], k)
    BY <1>1, <2>1, <2>2, EdgeMoves
  <2>4. EdgeAt(t, i, X + k, y) = EdgeAt(t, i, X, y) - Setup[t].dy[i] * k  BY <2>2, <2>3 DEF v
  <2>5. EdgeAt(t, i, X + k, y) = Side(From(t)[i], To(t)[i], X + k, y)
    <3>1. X + k \in Int  BY <1>1
    <3> QED  BY <3>1, EdgeIsSide
  <2> QED  BY <2>4, <2>5 DEF EdgesAt
<1> QED  BY <1>2 DEF LineMask, Covered, X

(* A product lies below its bound whatever its sign.                         *)
LEMMA ProductBound ==
  ASSUME NEW d \in Int, NEW m \in Nat, NEW r \in 0 .. m
  PROVE  /\ d * r \in Int /\ d * m \in Int
         /\ d * r <= IF d > 0 THEN d * m ELSE 0
         /\ -(d * r) <= IF d < 0 THEN -(d * m) ELSE 0
<1>1. d * r = r * d /\ d * m = m * d  BY SMT
<1>2. CASE d >= 0
  <2>1. 0 * d <= r * d /\ r * d <= m * d /\ r * d \in Int /\ m * d \in Int  BY <1>2, TimesOrder
  <2> QED  BY <1>1, <1>2, <2>1
<1>3. CASE d < 0
  <2>1. 0 * (-d) <= r * (-d) /\ r * (-d) <= m * (-d) /\ r * (-d) \in Int /\ m * (-d) \in Int
    BY <1>3, TimesOrder
  <2>2. r * (-d) = -(r * d) /\ m * (-d) = -(m * d)  BY SMT
  <2>3. r * d \in Int /\ m * d \in Int  BY SMT
  <2> QED  BY <1>1, <1>3, <2>1, <2>2, <2>3
<1> QED  BY <1>2, <1>3

(* A rejected tile has no line.                                              *)
LEMMA RejectedIsEmpty ==
  ASSUME NEW t \in Triangle, NEW x \in Nat, NEW ty \in Nat, reject(Setup[t], x, ty),
         NEW r \in 0 .. TILE_HEIGHT - 1
  PROVE  LineMask(t, x, ty * TILE_HEIGHT + r) = {}
<1> DEFINE X == x * TILE_WIDTH
           Y == ty * TILE_HEIGHT
<1>1. X \in Int /\ Y \in Int  BY FrameFacts, SMT
<1>2. PICK i \in Edges : edge_max(Setup[t], x, ty, i) < 0  BY DEF reject
<1>3. edge_at(Setup[t], x, ty)[i] = EdgeAt(t, i, X, Y)  BY DEF edge_at, EdgeAt
<1> DEFINE d == Setup[t].dx[i]
           f == Setup[t].dy[i]
<1>4. d \in Int /\ f \in Int  BY SetupOf
<1>5. edge_max(Setup[t], x, ty, i) = EdgeAt(t, i, X, Y) + (IF d > 0 THEN d * (TILE_HEIGHT - 1) ELSE 0)
                                                    - (IF f < 0 THEN f * (TILE_WIDTH - 1) ELSE 0)
  BY <1>3 DEF edge_max
<1> HIDE DEF X, Y
<1> SUFFICES ASSUME NEW k \in LineMask(t, x, Y + r) PROVE FALSE  BY DEF Y
<1>6. k \in 0 .. TILE_WIDTH - 1 /\ Covered(t, X + k, Y + r)  BY DEF LineMask, X
<1>7. k \in Int /\ r \in Int  BY <1>6, FrameFacts
<1>8. Side(From(t)[i], To(t)[i], X + k, Y + r) >= 0  BY <1>6 DEF Covered
<1>9. EdgeAt(t, i, X + k, Y + r) >= 0
  <2>1. X + k \in Int /\ Y + r \in Int  BY <1>1, <1>7
  <2> QED  BY <1>8, <2>1, EdgeIsSide
<1>10. /\ EdgeAt(t, i, X, Y) \in Int
       /\ EdgeAt(t, i, X + k, Y + r) = EdgeAt(t, i, X, Y) + d * r - f * k
  <2> DEFINE v == X + k
             w == Y + r
  <2>1. v \in Int /\ w \in Int /\ v - X = k /\ w - Y = r  BY <1>1, <1>7
  <2> HIDE DEF v, w
  <2>2. /\ EdgeAt(t, i, X, Y) \in Int
        /\ EdgeAt(t, i, v, w) = EdgeAt(t, i, X, Y) + Gain(d, r) - Gain(f, k)
    BY <1>1, <2>1, EdgeMoves
  <2> QED  BY <2>2 DEF Gain, v, w
<1>11. /\ d * r \in Int /\ d * (TILE_HEIGHT - 1) \in Int
       /\ d * r <= IF d > 0 THEN d * (TILE_HEIGHT - 1) ELSE 0
  BY <1>4, FrameFacts, ProductBound
<1>12. /\ f * k \in Int /\ f * (TILE_WIDTH - 1) \in Int
       /\ -(f * k) <= IF f < 0 THEN -(f * (TILE_WIDTH - 1)) ELSE 0
  BY <1>4, <1>6, FrameFacts, ProductBound
<1> DEFINE a == d * (TILE_HEIGHT - 1)
           b == f * (TILE_WIDTH - 1)
           s == d * r
           u == f * k
           e == EdgeAt(t, i, X, Y)
<1>13. /\ a \in Int /\ b \in Int /\ s \in Int /\ u \in Int /\ e \in Int
       /\ e + s - u >= 0 /\ (s <= IF d > 0 THEN a ELSE 0) /\ (-u <= IF f < 0 THEN -b ELSE 0)
       /\ e + (IF d > 0 THEN a ELSE 0) - (IF f < 0 THEN b ELSE 0) < 0
  BY <1>2, <1>5, <1>9, <1>10, <1>11, <1>12
<1> HIDE DEF a, b, s, u, e, d, f
<1> QED  BY <1>4, <1>13

-------------------------------------------------------------------------------
(* The order of tiles and lines. *)

Spot(a) == a.n \in Nat /\ a.x \in Nat /\ a.y \in Nat

(* The order is one.                                                         *)
LEMMA TileOrder ==
  ASSUME NEW a, NEW b, NEW c, Spot(a), Spot(b), Spot(c)
  PROVE  /\ TileBefore(a, b) /\ TileBefore(b, c) => TileBefore(a, c)
         /\ TileBefore(a, b) /\ SameTile(b, c) => TileBefore(a, c)
         /\ SameTile(a, b) /\ TileBefore(b, c) => TileBefore(a, c)
         /\ TileBefore(a, b) => ~TileBefore(b, a) /\ ~SameTile(a, b)
         /\ TileBefore(a, b) \/ TileBefore(b, a) \/ SameTile(a, b)
<1> QED  BY DEF TileBefore, SameTile, Spot

(* Lines in order, by their tiles and their rows.                            *)
LEMMA LineOrder ==
  ASSUME NEW l, NEW m
  PROVE  LineBefore(l, m) <=> \/ TileBefore(TileOf(l), TileOf(m))
                              \/ SameTile(TileOf(l), TileOf(m)) /\ l.y < m.y
<1> QED  BY DEF LineBefore, TileOf, SameTile

-------------------------------------------------------------------------------
(* The registers move. *)

(* An edge of the clock, from the registers to the next: a triangle is       *)
(* accepted and, unless it is outside, taken into triangle_param.            *)
Grows(acc, acc2) ==
  /\ acc \in Seq(Triangle) /\ acc2 \in Seq(Triangle) /\ Len(acc2) \in {Len(acc), Len(acc) + 1}
  /\ \A n \in 1 .. Len(acc) : acc2[n] = acc[n]

ParamMoves(acc, acc2, p, p2, c) ==
  /\ p.n \in Nat /\ p2.n \in Nat
  /\ \/ p.busy /\ p2.busy /\ p2.n = p.n /\ ~(p.valid /\ ~c.valid) /\ acc2 = acc
     \/ p.busy /\ ~p2.busy /\ p.valid /\ ~c.valid /\ acc2 = acc
     \/ ~p.busy /\ ~p2.busy /\ (acc2 = acc \/ (/\ Len(acc2) = Len(acc) + 1
                                               /\ triangle_outside(acc2[Len(acc) + 1])))
     \/ ~p.busy /\ p2.busy /\ p2.n = Len(acc) + 1 /\ Len(acc2) = Len(acc) + 1

\* the tile of triangle_core is pushed into tile_fifo or not
LastTile(t, c) == c.x = bbox(t).max.x /\ c.y = bbox(t).max.y
CoreMoves(acc, p, c, c2, pushed) ==
  /\ Spot(c) /\ Spot(c2) /\ (pushed => c.valid)
  /\ \/ /\ p.valid /\ ~c.valid /\ c2.valid /\ c2.n = p.n /\ c2.tex = p.tex
        /\ c2.x = bbox(acc[p.n]).min.x /\ c2.y = bbox(acc[p.n]).min.y
     \/ pushed /\ LastTile(acc[c.n], c) /\ ~c2.valid
     \/ /\ pushed /\ ~LastTile(acc[c.n], c) /\ c2.valid /\ c2.n = c.n /\ c2.tex = c.tex
        /\ IF c.x = bbox(acc[c.n]).max.x THEN c2.x = bbox(acc[c.n]).min.x /\ c2.y = c.y + 1
                                         ELSE c2.x = c.x + 1 /\ c2.y = c.y
     \/ ~pushed /\ c2 = c /\ ~(p.valid /\ ~c.valid)

(* A tile that is ahead of triangle_core stays ahead of it.                  *)
LEMMA BeforeCoreKept ==
  ASSUME NEW acc, NEW acc2, NEW p, NEW p2, NEW c, NEW c2, NEW pushed,
         Grows(acc, acc2), ParamMoves(acc, acc2, p, p2, c), CoreMoves(acc, p, c, c2, pushed),
         NEW tex, ParamOk(acc, p, tex), CoreOk(acc, p, c),
         NEW a, Spot(a), a.n <= Len(acc), BeforeCore(a, c, p)
  PROVE  BeforeCore(a, c2, p2)
<1>1. Len(acc) \in Nat  BY DEF Grows
<1>2. p2.busy => a.n < p2.n  BY <1>1 DEF ParamMoves, BeforeCore, Spot
<1>3. ASSUME c2.valid PROVE TileBefore(a, c2)
  <2>1. CASE p.valid /\ ~c.valid
    <3>1. p.busy  BY <2>1 DEF ParamOk
    <3>2. c2.n = p.n  BY <2>1 DEF CoreMoves
    <3> QED  BY <3>1, <3>2 DEF BeforeCore, TileBefore
  <2>2. CASE ~(p.valid /\ ~c.valid) /\ pushed
    <3>1. c.valid /\ c2.n = c.n /\ (c2.y = c.y + 1 \/ (c2.x = c.x + 1 /\ c2.y = c.y))
      BY <2>2, <1>3 DEF CoreMoves
    <3>2. Spot(c) /\ Spot(c2)  BY DEF CoreMoves
    <3>3. TileBefore(c, c2)  BY <3>1, <3>2 DEF TileBefore, Spot
    <3>4. TileBefore(a, c)  BY <3>1 DEF BeforeCore
    <3> QED  BY <3>2, <3>3, <3>4, TileOrder
  <2>3. CASE ~(p.valid /\ ~c.valid) /\ ~pushed
    <3>1. c2 = c  BY <2>3 DEF CoreMoves
    <3> QED  BY <1>3, <3>1 DEF BeforeCore
  <2> QED  BY <2>1, <2>2, <2>3
<1> QED  BY <1>2, <1>3 DEF BeforeCore

(* So is the tile that triangle_core pushes.                                 *)
LEMMA PushedBeforeCore ==
  ASSUME NEW acc, NEW acc2, NEW p, NEW p2, NEW c, NEW c2, NEW pushed, pushed,
         Grows(acc, acc2), ParamMoves(acc, acc2, p, p2, c), CoreMoves(acc, p, c, c2, pushed),
         NEW tex, ParamOk(acc, p, tex), CoreOk(acc, p, c),
         NEW a, Spot(a), SameTile(a, c)
  PROVE  BeforeCore(a, c2, p2)
<1>1. Len(acc) \in Nat  BY DEF Grows
<1>2. c.valid /\ c.n \in 1 .. Len(acc) /\ (p.busy => c.n < p.n)
  BY DEF CoreMoves, CoreOk, InFrame
<1>3. a.n = c.n /\ a.x = c.x /\ a.y = c.y  BY DEF SameTile
<1>4. p2.busy => a.n < p2.n  BY <1>1, <1>2, <1>3 DEF ParamMoves
<1>5. ASSUME c2.valid PROVE TileBefore(a, c2)
  <2>1. c2.n = c.n /\ (c2.y = c.y + 1 \/ (c2.x = c.x + 1 /\ c2.y = c.y))
    BY <1>2, <1>5 DEF CoreMoves
  <2>2. Spot(c) /\ Spot(c2)  BY DEF CoreMoves
  <2> QED  BY <1>3, <2>1, <2>2 DEF TileBefore, Spot
<1> QED  BY <1>4, <1>5 DEF BeforeCore

(* triangle_core stays in the bounding box of its triangle.                  *)
LEMMA CoreStep ==
  ASSUME NEW acc, NEW acc2, NEW p, NEW p2, NEW c, NEW c2, NEW pushed,
         Grows(acc, acc2), ParamMoves(acc, acc2, p, p2, c), CoreMoves(acc, p, c, c2, pushed),
         NEW tex, ParamOk(acc, p, tex), CoreOk(acc, p, c)
  PROVE  CoreOk(acc2, p2, c2)
<1> SUFFICES ASSUME c2.valid
             PROVE  /\ InFrame(acc2, c2) /\ c2.tex = c2.n /\ InBox(acc2[c2.n], c2)
                    /\ p2.busy => c2.n < p2.n
  BY DEF CoreOk
<1>1. Len(acc) \in Nat /\ Len(acc2) \in Nat /\ Len(acc) <= Len(acc2)  BY DEF Grows
<1>2. /\ c2.n \in 1 .. Len(acc) /\ c2.tex = c2.n
      /\ InBox(acc[c2.n], c2)
      /\ p2.busy => c2.n < p2.n
  <2>1. CASE p.valid /\ ~c.valid
    <3>1. p.busy /\ p.n \in 1 .. Len(acc) /\ p.tex = p.n  BY <1>1, <2>1 DEF ParamOk, ParamMoves
    <3>2. /\ c2.n = p.n /\ c2.tex = p.tex
          /\ c2.x = bbox(acc[p.n]).min.x /\ c2.y = bbox(acc[p.n]).min.y
      BY <2>1 DEF CoreMoves
    <3>3. acc[p.n] \in Triangle  BY <3>1 DEF Grows
    <3> DEFINE b == bbox(acc[p.n])
    <3>4. /\ b.min.x \in 0 .. TilesX - 1 /\ b.max.x \in 0 .. TilesX - 1 /\ b.min.x <= b.max.x
          /\ b.min.y \in 0 .. TilesY - 1 /\ b.max.y \in 0 .. TilesY - 1 /\ b.min.y <= b.max.y
      BY <3>3, BoxInFrame
    <3>5. b.min.x \in b.min.x .. b.max.x /\ b.min.y \in b.min.y .. b.max.y
      <4> HIDE DEF b
      <4> QED  BY <3>4, FrameFacts
    <3>6. ~p2.busy  BY <2>1, <3>1 DEF ParamMoves
    <3> QED  BY <3>1, <3>2, <3>5, <3>6 DEF InBox
  <2>2. CASE ~(p.valid /\ ~c.valid) /\ pushed
    <3>1. c.valid /\ c2.n = c.n /\ c2.tex = c.tex /\ ~LastTile(acc[c.n], c)
      BY <2>2 DEF CoreMoves
    <3> DEFINE b == bbox(acc[c.n])
    <3>2. IF c.x = b.max.x THEN c2.x = b.min.x /\ c2.y = c.y + 1 ELSE c2.x = c.x + 1 /\ c2.y = c.y
      BY <2>2 DEF CoreMoves
    <3>3. /\ c.n \in 1 .. Len(acc) /\ c.tex = c.n /\ (p.busy => c.n < p.n)
          /\ c.x \in b.min.x .. b.max.x /\ c.y \in b.min.y .. b.max.y
      BY <3>1 DEF CoreOk, InFrame, InBox
    <3>4. acc[c.n] \in Triangle  BY <3>3 DEF Grows
    <3>5. /\ b.min.x \in Int /\ b.max.x \in Int /\ b.min.y \in Int /\ b.max.y \in Int
          /\ b.min.x <= b.max.x /\ b.min.y <= b.max.y
      BY <3>4, BoxInFrame, FrameFacts
    <3>6. ~(c.x = b.max.x /\ c.y = b.max.y)  BY <3>1 DEF LastTile
    <3>7. c2.x \in b.min.x .. b.max.x /\ c2.y \in b.min.y .. b.max.y
      <4> HIDE DEF b
      <4> QED  BY <3>2, <3>3, <3>5, <3>6
    <3>8. p2.busy => c2.n < p2.n  BY <1>1, <3>1, <3>3 DEF ParamMoves
    <3> QED  BY <3>1, <3>3, <3>7, <3>8 DEF InBox
  <2>3. CASE ~(p.valid /\ ~c.valid) /\ ~pushed
    <3>1. c2 = c /\ c.valid  BY <2>3 DEF CoreMoves
    <3>2. c.n \in 1 .. Len(acc) /\ c.tex = c.n /\ (p.busy => c.n < p.n) /\ InBox(acc[c.n], c)
      BY <3>1 DEF CoreOk, InFrame
    <3>3. p2.busy => c2.n < p2.n  BY <1>1, <3>1, <3>2 DEF ParamMoves
    <3> QED  BY <3>1, <3>2, <3>3
  <2> QED  BY <2>1, <2>2, <2>3
<1>3. acc2[c2.n] = acc[c2.n] /\ acc[c2.n] \in Triangle /\ c2.n \in 1 .. Len(acc2)
  BY <1>1, <1>2 DEF Grows
<1>4. Column(c2.x) /\ c2.y \in 0 .. TilesY - 1
  <2> DEFINE b == bbox(acc[c2.n])
  <2>1. /\ b.min.x \in 0 .. TilesX - 1 /\ b.max.x \in 0 .. TilesX - 1
        /\ b.min.y \in 0 .. TilesY - 1 /\ b.max.y \in 0 .. TilesY - 1
    BY <1>3, BoxInFrame
  <2>2. c2.x \in b.min.x .. b.max.x /\ c2.y \in b.min.y .. b.max.y  BY <1>2 DEF InBox
  <2> HIDE DEF b
  <2> QED  BY <2>1, <2>2, FrameFacts DEF Column
<1> QED  BY <1>2, <1>3, <1>4 DEF InFrame

-------------------------------------------------------------------------------
(* A queue on an edge: the oldest item leaves or stays, an item arrives or   *)
(* none does.                                                                *)
Shifted(s, take, put) == (IF take THEN Tail(s) ELSE s) \o put
By(take) == IF take THEN 1 ELSE 0

(* A sequence: its length and its domain.                                    *)
LEMMA Lengths ==
  ASSUME NEW S, NEW s \in Seq(S)
  PROVE  Len(s) \in Nat /\ (s # <<>> <=> Len(s) >= 1) /\ DOMAIN s = 1 .. Len(s)
<1>1. Len(s) \in Nat /\ DOMAIN s = 1 .. Len(s)  BY LenProperties
<1>2. Len(<<>>) = 0  BY EmptySeq
<1>3. s # <<>> => Len(s) \in Nat \ {0}  BY EmptySeq
<1> QED  BY <1>1, <1>2, <1>3

(* The items of a queue after an edge.                                       *)
LEMMA ShiftFacts ==
  ASSUME NEW S, NEW s \in Seq(S), NEW take \in BOOLEAN, NEW put \in Seq(S),
         Len(put) <= 1, take => s # <<>>
  PROVE  /\ Shifted(s, take, put) \in Seq(S)
         /\ Len(Shifted(s, take, put)) = Len(s) - By(take) + Len(put)
         /\ \A i \in 1 .. Len(Shifted(s, take, put)) :
              Shifted(s, take, put)[i] = IF i <= Len(s) - By(take) THEN s[i + By(take)] ELSE put[1]
         /\ take => s[1] = Head(s) /\ Len(s) >= 1
<1>1. CASE take
  <2>1. /\ Tail(s) \in Seq(S) /\ Len(Tail(s)) = Len(s) - 1
        /\ \A i \in 1 .. Len(Tail(s)) : Tail(s)[i] = s[i + 1]
    BY <1>1, HeadTailProperties
  <2>2. /\ Tail(s) \o put \in Seq(S)
        /\ Len(Tail(s) \o put) = Len(Tail(s)) + Len(put)
        /\ \A i \in 1 .. Len(Tail(s)) + Len(put) :
             (Tail(s) \o put)[i] = IF i <= Len(Tail(s)) THEN Tail(s)[i] ELSE put[i - Len(Tail(s))]
    BY <2>1, ConcatProperties
  <2>3. Len(s) \in Nat /\ Len(s) >= 1 /\ Len(put) \in Nat /\ Len(put) <= 1
    BY <1>1, Lengths
  <2>4. s[1] = Head(s)
    BY <1>1
  <2> QED  BY <1>1, <2>1, <2>2, <2>3, <2>4 DEF Shifted, By
<1>2. CASE ~take
  <2>1. /\ s \o put \in Seq(S)
        /\ Len(s \o put) = Len(s) + Len(put)
        /\ \A i \in 1 .. Len(s) + Len(put) :
             (s \o put)[i] = IF i <= Len(s) THEN s[i] ELSE put[i - Len(s)]
    BY ConcatProperties
  <2>2. Len(s) \in Nat /\ Len(put) \in Nat /\ Len(put) <= 1  BY Lengths
  <2> QED  BY <1>2, <2>1, <2>2 DEF Shifted, By
<1> QED  BY <1>1, <1>2

(* A my_fifo after an edge: it says it has an item only when it has one.     *)
LEMMA FifoFacts ==
  ASSUME NEW S, NEW f \in Fifos(S), NEW take \in BOOLEAN, NEW put \in Seq(S),
         Len(put) <= 1, take => f.valid_q
  PROVE  /\ FifoEdge(f, put, take) \in Fifos(S)
         /\ FifoEdge(f, put, take).items = Shifted(f.items, take, put)
         /\ take => f.items # <<>>
<1>1. f.items \in Seq(S) /\ f.valid_q \in BOOLEAN /\ (take => f.items # <<>>)  BY DEF Fifos
<1>2. /\ Shifted(f.items, take, put) \in Seq(S)
      /\ Len(Shifted(f.items, take, put)) = Len(f.items) - By(take) + Len(put)
  BY <1>1, ShiftFacts
<1>3. FifoEdge(f, put, take).items = Shifted(f.items, take, put)  BY DEF FifoEdge, Shifted
<1>4. FifoEdge(f, put, take).valid_q = IF f.valid_q THEN ~take \/ Len(f.items) > 1 ELSE f.items # <<>>
  BY DEF FifoEdge
<1>5. FifoEdge(f, put, take).valid_q \in BOOLEAN  BY <1>1, <1>4
<1>6. FifoEdge(f, put, take).valid_q => Shifted(f.items, take, put) # <<>>
  <2>1. /\ Len(f.items) \in Nat /\ Len(put) \in Nat /\ (f.items # <<>> => Len(f.items) >= 1)
        /\ (Len(Shifted(f.items, take, put)) >= 1 => Shifted(f.items, take, put) # <<>>)
    BY <1>1, <1>2, Lengths
  <2>2. CASE ~take
    <3>1. FifoEdge(f, put, take).valid_q => f.items # <<>>  BY <1>4, <2>2 DEF Fifos
    <3> QED  BY <1>2, <2>1, <2>2, <3>1 DEF By
  <2>3. CASE take
    <3>1. FifoEdge(f, put, take).valid_q => Len(f.items) > 1  BY <1>4, <2>3
    <3>2. Len(Shifted(f.items, take, put)) = Len(f.items) - 1 + Len(put)  BY <1>2, <2>3 DEF By
    <3>3. Len(f.items) > 1 => Len(Shifted(f.items, take, put)) >= 1  BY <2>1, <3>2
    <3> QED  BY <2>1, <3>1, <3>3
  <2> QED  BY <2>2, <2>3
<1>7. FifoEdge(f, put, take) = [items |-> Shifted(f.items, take, put), valid_q |-> FifoEdge(f, put, take).valid_q]
  BY DEF FifoEdge, Shifted
<1>8. FifoEdge(f, put, take) \in [items: Seq(S), valid_q: BOOLEAN]
  BY <1>2, <1>5, <1>7
<1> QED  BY <1>1, <1>3, <1>6, <1>8 DEF Fifos

(* A queue from one edge to the next: b items leave it at one end, the items *)
(* of put, one at most, join it at the other.                                *)
Queue(S, s, r, b, put) ==
  /\ s \in Seq(S) /\ r \in Seq(S) /\ put \in Seq(S)
  /\ b \in {0, 1} /\ Len(put) \in {0, 1} /\ Len(s) \in Nat /\ b <= Len(s)
  /\ Len(r) = Len(s) - b + Len(put)
  /\ DOMAIN s = 1 .. Len(s) /\ DOMAIN r = 1 .. Len(s) - b + Len(put)
  /\ \A i \in 1 .. Len(s) - b : r[i] = s[i + b]
  /\ Len(put) = 1 => r[Len(s) - b + 1] = put[1] /\ put[1] \in S
  /\ b = 1 => Head(s) = s[1] /\ s[1] \in S

(* A register or lane that shifts is such a queue.                           *)
LEMMA QueueStep ==
  ASSUME NEW S, NEW s \in Seq(S), NEW take \in BOOLEAN, NEW put \in Seq(S),
         Len(put) <= 1, take => s # <<>>
  PROVE  Queue(S, s, Shifted(s, take, put), By(take), put)
<1> DEFINE r == Shifted(s, take, put)  b == By(take)  n == Len(s)  k == Len(put)
<1>1. /\ r \in Seq(S) /\ Len(r) = n - b + k
      /\ \A i \in 1 .. Len(r) : r[i] = IF i <= n - b THEN s[i + b] ELSE put[1]
      /\ take => s[1] = Head(s) /\ n >= 1
  BY ShiftFacts
<1>2. n \in Nat /\ k \in Nat /\ k <= 1 /\ DOMAIN s = 1 .. n /\ DOMAIN r = 1 .. Len(r)
  BY <1>1, Lengths
<1>3. b \in {0, 1} /\ (b = 1 <=> take)  BY DEF By
<1>4. k = 1 => put[1] \in S
  <2>1. k = 1 => 1 \in 1 .. Len(put)  BY <1>2
  <2> QED  BY <2>1, ElementOfSeq
<1>5. b = 1 => s[1] \in S  BY <1>1, <1>2, <1>3, ElementOfSeq
<1> HIDE DEF r, b, n, k
<1>6. k \in {0, 1} /\ b <= n  BY <1>1, <1>2, <1>3
<1>7. \A i \in 1 .. n - b : r[i] = s[i + b]  BY <1>1, <1>2, <1>3, <1>6
<1>8. k = 1 => r[n - b + 1] = put[1]  BY <1>1, <1>2, <1>3, <1>6
<1>9. DOMAIN r = 1 .. n - b + k  BY <1>1, <1>2
<1>10. b = 1 => Head(s) = s[1]  BY <1>1, <1>3
<1> QED  BY <1>1, <1>2, <1>3, <1>4, <1>5, <1>6, <1>7, <1>8, <1>9, <1>10 DEF Queue, r, b, n, k

(* And so is a my_fifo.                                                      *)
LEMMA FifoStep ==
  ASSUME NEW S, NEW f \in Fifos(S), NEW take \in BOOLEAN, NEW put \in Seq(S),
         Len(put) <= 1, take => f.valid_q
  PROVE  /\ FifoEdge(f, put, take) \in Fifos(S)
         /\ Queue(S, f.items, FifoEdge(f, put, take).items, By(take), put)
<1>1. f.items \in Seq(S)  BY DEF Fifos
<1>2. /\ FifoEdge(f, put, take) \in Fifos(S)
      /\ FifoEdge(f, put, take).items = Shifted(f.items, take, put)
      /\ take => f.items # <<>>
  BY FifoFacts
<1>3. Queue(S, f.items, Shifted(f.items, take, put), By(take), put)  BY <1>1, <1>2, QueueStep
<1> QED  BY <1>2, <1>3

-------------------------------------------------------------------------------
(* tile_fifo moves. *)

(* tile_fifo on an edge: its oldest tile leaves (b = 1) or stays, and the    *)
(* tile t of triangle_core is pushed or not.                                 *)
TilesMove(acc, s, s2, b, pushed, c, t) ==
  /\ Len(s) \in Nat /\ DOMAIN s = 1 .. Len(s) /\ b \in {0, 1} /\ b <= Len(s)
  /\ DOMAIN s2 = 1 .. Len(s) - b + (IF pushed THEN 1 ELSE 0)
  /\ \A i \in 1 .. Len(s) - b : s2[i] = s[i + b]
  /\ pushed => s2[Len(s) - b + 1] = t /\ SameTile(t, c) /\ TileOk(acc, t)

(* The tiles after it.                                                       *)
LEMMA TilesAfter ==
  ASSUME NEW acc, NEW s, NEW s2, NEW b, NEW pushed, NEW c, NEW t,
         TilesMove(acc, s, s2, b, pushed, c, t), NEW i \in DOMAIN s2
  PROVE  \/ i + b \in DOMAIN s /\ s2[i] = s[i + b]
         \/ pushed /\ i = Len(s) - b + 1 /\ s2[i] = t
<1> DEFINE n == Len(s)
<1>1. n \in Nat /\ DOMAIN s = 1 .. n /\ b \in {0, 1} /\ b <= n  BY DEF TilesMove
<1>2. i \in 1 .. n - b + (IF pushed THEN 1 ELSE 0)  BY DEF TilesMove
<1>3. \A k \in 1 .. n - b : s2[k] = s[k + b]  BY DEF TilesMove
<1>4. pushed => s2[n - b + 1] = t  BY DEF TilesMove
<1> HIDE DEF n
<1>5. CASE i \in 1 .. n - b
  <2>1. i + b \in 1 .. n  BY <1>1, <1>5
  <2> QED  BY <1>1, <1>3, <1>5, <2>1
<1>6. CASE i \notin 1 .. n - b
  <2>1. pushed  BY <1>1, <1>2, <1>6
  <2>2. i = n - b + 1  BY <1>1, <1>2, <1>6, <2>1
  <2> QED  BY <1>4, <2>1, <2>2 DEF n
<1> QED  BY <1>5, <1>6

(* A tile, or a line, of the triangles accepted so far remains one.          *)
LEMMA StillOk ==
  ASSUME NEW acc, NEW acc2, Grows(acc, acc2), NEW a
  PROVE  /\ InFrame(acc, a) => InFrame(acc2, a) /\ acc2[a.n] = acc[a.n] /\ acc[a.n] \in Triangle /\ Spot(a)
         /\ TileOk(acc, a) => TileOk(acc2, a)
         /\ LineOk(acc, a) => LineOk(acc2, a)
         /\ LineOk(acc2, a) /\ a.n <= Len(acc) => LineOk(acc, a)
<1>1. Len(acc) \in Nat /\ Len(acc2) \in Nat /\ Len(acc) <= Len(acc2)  BY DEF Grows
<1>2. \A n \in 1 .. Len(acc) : acc2[n] = acc[n] /\ acc[n] \in Triangle  BY DEF Grows
<1>3. InFrame(acc, a) => InFrame(acc2, a) /\ acc2[a.n] = acc[a.n] /\ acc[a.n] \in Triangle
  BY <1>1, <1>2 DEF InFrame
<1>4. InFrame(acc, a) => Spot(a)  BY FrameFacts DEF InFrame, Spot, Column
<1>5. InFrame(acc, TileOf(a)) => InFrame(acc2, TileOf(a)) /\ acc2[a.n] = acc[a.n]
  BY <1>1, <1>2 DEF InFrame, TileOf
<1>6. InFrame(acc2, TileOf(a)) /\ a.n <= Len(acc) => InFrame(acc, TileOf(a)) /\ acc2[a.n] = acc[a.n]
  BY <1>1, <1>2 DEF InFrame, TileOf
<1>7. TileOk(acc, a) => TileOk(acc2, a)  BY <1>3 DEF TileOk
<1>8. LineOk(acc, a) => LineOk(acc2, a)  BY <1>5 DEF LineOk
<1>9. LineOk(acc2, a) /\ a.n <= Len(acc) => LineOk(acc, a)  BY <1>6 DEF LineOk
<1> QED  BY <1>3, <1>4, <1>7, <1>8, <1>9

(* The queue stays in the order of the walk, and ahead of triangle_core.     *)
LEMMA TilesStep ==
  ASSUME NEW acc, NEW acc2, NEW p, NEW p2, NEW c, NEW c2, NEW pushed,
         Grows(acc, acc2), ParamMoves(acc, acc2, p, p2, c), CoreMoves(acc, p, c, c2, pushed),
         NEW tex, ParamOk(acc, p, tex), CoreOk(acc, p, c),
         NEW s, NEW s2, NEW b, NEW t, TilesMove(acc, s, s2, b, pushed, c, t), TilesOk(acc, s, c, p)
  PROVE  TilesOk(acc2, s2, c2, p2)
<1>1. ASSUME NEW i \in DOMAIN s2 PROVE TileOk(acc2, s2[i]) /\ BeforeCore(s2[i], c2, p2)
  <2>1. CASE i + b \in DOMAIN s /\ s2[i] = s[i + b]
    <3>1. TileOk(acc, s2[i]) /\ BeforeCore(s2[i], c, p)  BY <2>1 DEF TilesOk
    <3>2. Spot(s2[i]) /\ s2[i].n <= Len(acc) /\ TileOk(acc2, s2[i])
      BY <3>1, StillOk DEF TileOk, InFrame, Grows
    <3> QED  BY <3>1, <3>2, BeforeCoreKept
  <2>2. CASE pushed /\ s2[i] = t
    <3>1. SameTile(t, c) /\ TileOk(acc, t)  BY <2>2 DEF TilesMove
    <3>2. Spot(t) /\ TileOk(acc2, t)  BY <3>1, StillOk DEF TileOk
    <3> QED  BY <2>2, <3>1, <3>2, PushedBeforeCore
  <2> QED  BY <2>1, <2>2, TilesAfter
<1>2. ASSUME NEW i \in DOMAIN s2, NEW j \in DOMAIN s2, i < j PROVE TileBefore(s2[i], s2[j])
  <2>1. CASE j + b \in DOMAIN s /\ s2[j] = s[j + b]
    <3>1. i + b \in DOMAIN s /\ s2[i] = s[i + b] /\ i + b < j + b  BY <1>2, <2>1 DEF TilesMove
    <3> QED  BY <2>1, <3>1 DEF TilesOk
  <2>2. CASE pushed /\ j = Len(s) - b + 1 /\ s2[j] = t
    <3>1. i + b \in DOMAIN s /\ s2[i] = s[i + b]
      <4>1. ~(i = Len(s) - b + 1)  BY <1>2, <2>2 DEF TilesMove
      <4> QED  BY <4>1, TilesAfter
    <3>2. BeforeCore(s2[i], c, p) /\ TileOk(acc, s2[i])  BY <3>1 DEF TilesOk
    <3>3. TileBefore(s2[i], c)  BY <2>2, <3>2 DEF CoreMoves, BeforeCore
    <3>4. SameTile(t, c) /\ TileOk(acc, t)  BY <2>2 DEF TilesMove
    <3>5. Spot(s2[i]) /\ Spot(t) /\ Spot(c)  BY <3>2, <3>4, StillOk DEF TileOk, CoreMoves
    <3>6. SameTile(c, t)  BY <3>4 DEF SameTile
    <3> QED  BY <2>2, <3>3, <3>5, <3>6, TileOrder
  <2> QED  BY <2>1, <2>2, TilesAfter
<1> QED  BY <1>1, <1>2 DEF TilesOk

(* What is ahead of the queue stays ahead of it.                             *)
LEMMA BeforeTilesKept ==
  ASSUME NEW acc, NEW acc2, NEW p, NEW p2, NEW c, NEW c2, NEW pushed,
         Grows(acc, acc2), ParamMoves(acc, acc2, p, p2, c), CoreMoves(acc, p, c, c2, pushed),
         NEW tex, ParamOk(acc, p, tex), CoreOk(acc, p, c),
         NEW s, NEW s2, NEW b, NEW t, TilesMove(acc, s, s2, b, pushed, c, t),
         NEW a, InFrame(acc, a), BeforeTiles(a, s, c, p)
  PROVE  BeforeTiles(a, s2, c2, p2)
<1>1. Spot(a) /\ a.n <= Len(acc)  BY StillOk DEF InFrame, Grows
<1>2. BeforeCore(a, c, p)  BY DEF BeforeTiles
<1>3. BeforeCore(a, c2, p2)  BY <1>1, <1>2, BeforeCoreKept
<1>4. ASSUME NEW i \in DOMAIN s2 PROVE TileBefore(a, s2[i])
  <2>1. CASE i + b \in DOMAIN s /\ s2[i] = s[i + b]  BY <2>1 DEF BeforeTiles
  <2>2. CASE pushed /\ s2[i] = t
    <3>1. SameTile(c, t) /\ TileOk(acc, t)  BY <2>2 DEF TilesMove, SameTile
    <3>2. Spot(t) /\ Spot(c) /\ TileBefore(a, c)
      BY <1>2, <2>2, <3>1, StillOk DEF TileOk, CoreMoves, BeforeCore
    <3> QED  BY <1>1, <2>2, <3>1, <3>2, TileOrder
  <2> QED  BY <2>1, <2>2, TilesAfter
<1> QED  BY <1>3, <1>4 DEF BeforeTiles

(* The tile that leaves is ahead of the rest.                                *)
LEMMA HeadBefore ==
  ASSUME NEW acc, NEW acc2, NEW p, NEW p2, NEW c, NEW c2, NEW pushed,
         Grows(acc, acc2), ParamMoves(acc, acc2, p, p2, c), CoreMoves(acc, p, c, c2, pushed),
         NEW tex, ParamOk(acc, p, tex), CoreOk(acc, p, c),
         NEW s, NEW s2, NEW t, TilesMove(acc, s, s2, 1, pushed, c, t), TilesOk(acc, s, c, p)
  PROVE  TileOk(acc, s[1]) /\ BeforeTiles(s[1], s2, c2, p2)
<1>1. 1 \in DOMAIN s  BY DEF TilesMove
<1>2. TileOk(acc, s[1]) /\ BeforeCore(s[1], c, p)  BY <1>1 DEF TilesOk
<1>3. Spot(s[1]) /\ s[1].n <= Len(acc)  BY <1>2, StillOk DEF TileOk, InFrame, Grows
<1>4. BeforeCore(s[1], c2, p2)  BY <1>2, <1>3, BeforeCoreKept
<1>5. ASSUME NEW i \in DOMAIN s2 PROVE TileBefore(s[1], s2[i])
  <2>1. CASE i + 1 \in DOMAIN s /\ s2[i] = s[i + 1]
    <3>1. 1 < i + 1  BY DEF TilesMove
    <3> QED  BY <1>1, <2>1, <3>1 DEF TilesOk
  <2>2. CASE pushed /\ s2[i] = t
    <3>1. SameTile(c, t) /\ TileOk(acc, t)  BY <2>2 DEF TilesMove, SameTile
    <3>2. Spot(t) /\ Spot(c) /\ TileBefore(s[1], c)
      BY <1>2, <2>2, <3>1, StillOk DEF TileOk, CoreMoves, BeforeCore
    <3> QED  BY <1>3, <2>2, <3>1, <3>2, TileOrder
  <2> QED  BY <2>1, <2>2, TilesAfter
<1> QED  BY <1>2, <1>4, <1>5 DEF BeforeTiles

(* Being ahead is a matter of the tile.                                      *)
LEMMA SameBefore ==
  ASSUME NEW a, NEW d, SameTile(a, d), NEW s, NEW c, NEW p, BeforeTiles(d, s, c, p)
  PROVE  BeforeTiles(a, s, c, p)
<1>1. a.n = d.n /\ a.x = d.x /\ a.y = d.y  BY DEF SameTile
<1>2. \A e : TileBefore(d, e) => TileBefore(a, e)  BY <1>1 DEF TileBefore
<1> QED  BY <1>1, <1>2 DEF BeforeTiles, BeforeCore

-------------------------------------------------------------------------------
(* line_fifo moves. *)

(* The row r that line_fifo is at on an edge: the first of the tile it       *)
(* accepts, or the next of the one it walks.                                 *)
RowAt(w, s, b, r) ==
  \/ /\ b = 1 /\ ~s[1].reject /\ ~w.writing
     /\ r = [line |-> 0, n |-> s[1].n, tex |-> s[1].tex, x |-> s[1].x, y |-> s[1].y * TILE_HEIGHT, e |-> s[1].e]
  \/ /\ w.writing /\ (b = 1 => s[1].reject)
     /\ r = [line |-> w.line, n |-> w.n, tex |-> w.tex, x |-> w.x, y |-> w.y, e |-> w.e]

RowMask(acc, r) ==
  {k \in 0 .. TILE_WIDTH - 1 : \A i \in Edges : r.e[i] - Setup[acc[r.n]].dy[i] * k >= 0}
RowLine(acc, r) ==
  IF RowMask(acc, r) = {} THEN <<>>
  ELSE <<[n |-> r.n, tex |-> r.tex, x |-> r.x, y |-> r.y, mask |-> RowMask(acc, r)]>>

WalkMoves(acc, w, w2, s, b, r, put) ==
  \/ ~w.writing /\ (b = 1 => s[1].reject) /\ w2 = w /\ put = <<>>
  \/ /\ RowAt(w, s, b, r) /\ put = RowLine(acc, r)
     /\ IF r.line = TILE_HEIGHT - 1 THEN ~w2.writing
        ELSE /\ w2.writing /\ w2.line = r.line + 1 /\ w2.n = r.n /\ w2.tex = r.tex
             /\ w2.x = r.x /\ w2.y = r.y + 1
             /\ w2.e = [i \in Edges |-> r.e[i] + Setup[acc[r.n]].dx[i]]

(* What a row is.                                                            *)
RowOk(acc, r) ==
  /\ InFrame(acc, TileOf(r)) /\ r.tex = r.n /\ r.line \in 0 .. TILE_HEIGHT - 1
  /\ r.y = Row(r.y) * TILE_HEIGHT + r.line
  /\ r.e = EdgesAt(acc[r.n], r.x * TILE_WIDTH, r.y)
TheLine(acc, r) == [n |-> r.n, tex |-> r.n, x |-> r.x, y |-> r.y, mask |-> LineMask(acc[r.n], r.x, r.y)]

(* The rows of a tile lie in the frame.                                      *)
LEMMA RowsOfTile ==
  ASSUME NEW ty \in 0 .. TilesY - 1, NEW k \in 0 .. TILE_HEIGHT - 1
  PROVE  /\ ty * TILE_HEIGHT \in Nat /\ ty * TILE_HEIGHT + k \in 0 .. FRAME_HEIGHT - 1
         /\ Row(ty * TILE_HEIGHT + k) = ty
<1> DEFINE H == TILE_HEIGHT
           y == ty * H + k
<1>1. H \in Nat \ {0} /\ TilesY \in Nat \ {0} /\ ty \in Nat /\ ty + 1 <= TilesY /\ k \in Nat /\ k < H
  BY FrameFacts
<1>2. ty * H \in Nat /\ (ty + 1) * H = ty * H + H /\ H * TilesY = TilesY * H /\ TilesY * H \in Nat
  BY <1>1, SMT
<1>3. (ty + 1) * H <= TilesY * H  BY <1>1, TimesOrder
<1> HIDE DEF H
<1>4. y \in Nat /\ y < H * TilesY /\ H * TilesY \in Nat  BY <1>1, <1>2, <1>3
<1>5. y \div H = ty  BY <1>1, <1>2, QuotientIs
<1>6. y \in 0 .. H * TilesY - 1  BY <1>4
<1> QED  BY <1>2, <1>5, <1>6 DEF H, FRAME_HEIGHT, Row

(* The line that a row pushes.                                               *)
LEMMA RowPushes ==
  ASSUME NEW acc, NEW r, RowOk(acc, r), NEW acc2, Grows(acc, acc2)
  PROVE  /\ r.y \in 0 .. FRAME_HEIGHT - 1 /\ r.y \in Nat
         /\ RowLine(acc, r) = IF LineMask(acc[r.n], r.x, r.y) = {} THEN <<>> ELSE <<TheLine(acc, r)>>
         /\ LineMask(acc[r.n], r.x, r.y) # {} => LineOk(acc, TheLine(acc, r))
<1>1. /\ r.n \in 1 .. Len(acc) /\ Column(r.x) /\ Row(r.y) \in 0 .. TilesY - 1
      /\ acc[r.n] \in Triangle
  BY StillOk DEF RowOk, InFrame, TileOf, Grows
<1>2. r.y \in 0 .. FRAME_HEIGHT - 1 /\ r.y \in Nat
  <2>1. /\ Row(r.y) * TILE_HEIGHT + r.line \in 0 .. FRAME_HEIGHT - 1
        /\ r.y = Row(r.y) * TILE_HEIGHT + r.line
    BY <1>1, RowsOfTile DEF RowOk
  <2>2. r.y \in 0 .. FRAME_HEIGHT - 1  BY <2>1
  <2> QED  BY <2>2
<1>3. RowMask(acc, r) = LineMask(acc[r.n], r.x, r.y)
  <2>1. r.x \in Int /\ r.y \in Int  BY <1>1, <1>2, FrameFacts DEF Column
  <2>2. r.e = EdgesAt(acc[r.n], r.x * TILE_WIDTH, r.y)  BY DEF RowOk
  <2>3. {k \in 0 .. TILE_WIDTH - 1 :
            \A i \in Edges : EdgesAt(acc[r.n], r.x * TILE_WIDTH, r.y)[i] - Setup[acc[r.n]].dy[i] * k >= 0}
           = LineMask(acc[r.n], r.x, r.y)
    BY <1>1, <2>1, MaskIsCovered
  <2> QED  BY <2>2, <2>3 DEF RowMask
<1>4. RowLine(acc, r) = IF LineMask(acc[r.n], r.x, r.y) = {} THEN <<>> ELSE <<TheLine(acc, r)>>
  BY <1>3 DEF RowLine, TheLine, RowOk
<1>5. ASSUME LineMask(acc[r.n], r.x, r.y) # {} PROVE LineOk(acc, TheLine(acc, r))
  <2> DEFINE l == TheLine(acc, r)
  <2>1. l.n = r.n /\ l.tex = r.n /\ l.x = r.x /\ l.y = r.y /\ l.mask = LineMask(acc[r.n], r.x, r.y)
    BY DEF TheLine
  <2>2. InFrame(acc, TileOf(l))  BY <2>1 DEF RowOk, TileOf
  <2>3. l = [n |-> l.n, tex |-> l.n, x |-> l.x, y |-> l.y, mask |-> LineMask(acc[l.n], l.x, l.y)]
    BY <2>1 DEF TheLine
  <2> HIDE DEF l
  <2>4. LineOk(acc, l)  BY <1>2, <1>5, <2>1, <2>2, <2>3 DEF LineOk
  <2> QED  BY <2>4 DEF l
<1> QED  BY <1>2, <1>4, <1>5

\* the row r: ahead of the stages after it, and after the lines made
RowPlace(acc, r, m, s2, c2, p2) ==
  RowOk(acc, r) /\ BeforeTiles(TileOf(r), s2, c2, p2) /\ \A i \in DOMAIN m : LineBefore(m[i], r)

(* The row is in its place.                                                  *)
LEMMA RowInPlace ==
  ASSUME NEW acc, NEW acc2, NEW p, NEW p2, NEW c, NEW c2, NEW pushed,
         Grows(acc, acc2), ParamMoves(acc, acc2, p, p2, c), CoreMoves(acc, p, c, c2, pushed),
         NEW tex, ParamOk(acc, p, tex), CoreOk(acc, p, c),
         NEW s, NEW s2, NEW b, NEW t, TilesMove(acc, s, s2, b, pushed, c, t), TilesOk(acc, s, c, p),
         NEW w, NEW r, WalkOk(acc, w, s, c, p), RowAt(w, s, b, r),
         NEW m, MadeOk(acc, m, w, s, c, p)
  PROVE  RowPlace(acc, r, m, s2, c2, p2)
<1>1. CASE /\ b = 1 /\ ~w.writing
           /\ r = [line |-> 0, n |-> s[1].n, tex |-> s[1].tex, x |-> s[1].x, y |-> s[1].y * TILE_HEIGHT, e |-> s[1].e]
  <2> DEFINE a == s[1]
  <2>1. TileOk(acc, a) /\ BeforeTiles(a, s2, c2, p2)
    <3>1. TilesMove(acc, s, s2, 1, pushed, c, t)  BY <1>1
    <3> QED  BY <3>1, HeadBefore
  <2>2. r.line = 0 /\ r.n = a.n /\ r.tex = a.tex /\ r.x = a.x /\ r.y = a.y * TILE_HEIGHT /\ r.e = a.e
    BY <1>1
  <2>3. /\ InFrame(acc, a) /\ a.tex = a.n
        /\ a.e = EdgesAt(acc[a.n], a.x * TILE_WIDTH, a.y * TILE_HEIGHT)
    BY <2>1 DEF TileOk
  <2>4. \A i \in DOMAIN m : LineOk(acc, m[i]) /\ TileBefore(TileOf(m[i]), a)
    <3>1. 1 \in DOMAIN s  BY <1>1 DEF TilesMove
    <3> QED  BY <3>1 DEF MadeOk, BeforeTiles
  <2> HIDE DEF a
  <2>5. a.y \in 0 .. TilesY - 1 /\ 0 \in 0 .. TILE_HEIGHT - 1  BY <2>3, FrameFacts DEF InFrame
  <2>6. r.y \in Nat /\ Row(r.y) = a.y
    <3>1. a.y * TILE_HEIGHT \in Nat /\ Row(a.y * TILE_HEIGHT + 0) = a.y  BY <2>5, RowsOfTile
    <3>2. a.y * TILE_HEIGHT + 0 = a.y * TILE_HEIGHT  BY <3>1
    <3> QED  BY <2>2, <3>1, <3>2
  <2>7. r.y = Row(r.y) * TILE_HEIGHT + r.line
    <3>1. r.y = r.y + 0  BY <2>6
    <3> QED  BY <2>2, <2>6, <3>1
  <2>8. SameTile(TileOf(r), a) /\ SameTile(a, TileOf(r))  BY <2>2, <2>6 DEF SameTile, TileOf
  <2>9. InFrame(acc, TileOf(r))  BY <2>2, <2>3, <2>6 DEF InFrame, TileOf
  <2>10. RowOk(acc, r)  BY <2>2, <2>3, <2>5, <2>7, <2>9 DEF RowOk
  <2>11. ASSUME NEW i \in DOMAIN m PROVE LineBefore(m[i], r)
    <3>1. InFrame(acc, TileOf(m[i]))  BY <2>4 DEF LineOk
    <3>2. Spot(TileOf(m[i])) /\ Spot(a) /\ Spot(TileOf(r))  BY <2>3, <2>9, <3>1, StillOk
    <3>3. TileBefore(TileOf(m[i]), TileOf(r))  BY <2>4, <2>8, <3>2, TileOrder
    <3> QED  BY <3>3 DEF LineBefore
  <2>12. BeforeTiles(TileOf(r), s2, c2, p2)  BY <2>1, <2>8, SameBefore DEF a
  <2> QED  BY <2>10, <2>11, <2>12 DEF RowPlace
<1>2. CASE w.writing /\ r = [line |-> w.line, n |-> w.n, tex |-> w.tex, x |-> w.x, y |-> w.y, e |-> w.e]
  <2>1. r.line = w.line /\ r.n = w.n /\ r.tex = w.tex /\ r.x = w.x /\ r.y = w.y /\ r.e = w.e
    BY <1>2
  <2>2. TileOf(r) = TileOf(w)  BY <2>1 DEF TileOf
  <2>3. /\ InFrame(acc, TileOf(w)) /\ w.tex = w.n /\ w.line \in 1 .. TILE_HEIGHT - 1
        /\ w.y = Row(w.y) * TILE_HEIGHT + w.line
        /\ w.e = EdgesAt(acc[w.n], w.x * TILE_WIDTH, w.y)
        /\ BeforeTiles(TileOf(w), s, c, p)
    BY <1>2 DEF WalkOk
  <2>4. RowOk(acc, r)
    <3>1. r.line \in 0 .. TILE_HEIGHT - 1  BY <2>1, <2>3, FrameFacts
    <3> QED  BY <2>1, <2>2, <2>3, <3>1 DEF RowOk
  <2>5. BeforeTiles(TileOf(r), s2, c2, p2)  BY <2>2, <2>3, BeforeTilesKept
  <2>6. \A i \in DOMAIN m : LineBefore(m[i], r)  BY <1>2, <2>1, <2>2 DEF MadeOk, LineBefore
  <2> QED  BY <2>4, <2>5, <2>6 DEF RowPlace
<1> QED  BY <1>1, <1>2 DEF RowAt

(* The walk after an edge.                                                   *)
LEMMA WalkStep ==
  ASSUME NEW acc, NEW acc2, NEW p, NEW p2, NEW c, NEW c2, NEW pushed,
         Grows(acc, acc2), ParamMoves(acc, acc2, p, p2, c), CoreMoves(acc, p, c, c2, pushed),
         NEW tex, ParamOk(acc, p, tex), CoreOk(acc, p, c),
         NEW s, NEW s2, NEW b, NEW t, TilesMove(acc, s, s2, b, pushed, c, t), TilesOk(acc, s, c, p),
         NEW w, NEW w2, NEW r, NEW put, WalkOk(acc, w, s, c, p), WalkMoves(acc, w, w2, s, b, r, put),
         NEW m, MadeOk(acc, m, w, s, c, p)
  PROVE  /\ WalkOk(acc2, w2, s2, c2, p2)
         /\ w2.writing => SameTile(TileOf(w2), TileOf(r)) /\ w2.y = r.y + 1
<1>1. ASSUME w2.writing
      PROVE  /\ RowAt(w, s, b, r) /\ ~(r.line = TILE_HEIGHT - 1)
             /\ w2.line = r.line + 1 /\ w2.n = r.n /\ w2.tex = r.tex /\ w2.x = r.x /\ w2.y = r.y + 1
             /\ w2.e = [i \in Edges |-> r.e[i] + Setup[acc[r.n]].dx[i]]
  BY <1>1 DEF WalkMoves
<1>2. ASSUME w2.writing
      PROVE  /\ InFrame(acc2, TileOf(w2)) /\ w2.tex = w2.n /\ w2.line \in 1 .. TILE_HEIGHT - 1
             /\ w2.y = Row(w2.y) * TILE_HEIGHT + w2.line
             /\ w2.e = EdgesAt(acc2[w2.n], w2.x * TILE_WIDTH, w2.y)
             /\ BeforeTiles(TileOf(w2), s2, c2, p2)
             /\ SameTile(TileOf(w2), TileOf(r)) /\ w2.y = r.y + 1
  <2>1. RowPlace(acc, r, m, s2, c2, p2)  BY <1>1, <1>2, RowInPlace
  <2>2. RowOk(acc, r) /\ BeforeTiles(TileOf(r), s2, c2, p2)  BY <2>1 DEF RowPlace
  <2>3. /\ InFrame(acc, TileOf(r)) /\ r.tex = r.n /\ r.line \in 0 .. TILE_HEIGHT - 1
        /\ r.y = Row(r.y) * TILE_HEIGHT + r.line
        /\ r.e = EdgesAt(acc[r.n], r.x * TILE_WIDTH, r.y)
        /\ r.y \in Nat /\ Row(r.y) \in 0 .. TilesY - 1
    BY <2>2, RowPushes DEF RowOk, InFrame, TileOf
  <2>4. r.line + 1 \in 1 .. TILE_HEIGHT - 1 /\ r.line + 1 \in 0 .. TILE_HEIGHT - 1
    BY <1>1, <1>2, <2>3, FrameFacts
  <2>5. /\ Row(r.y) * TILE_HEIGHT \in Nat
        /\ Row(Row(r.y) * TILE_HEIGHT + (r.line + 1)) = Row(r.y)
    BY <2>3, <2>4, RowsOfTile
  <2>6. w2.y = Row(r.y) * TILE_HEIGHT + (r.line + 1) /\ w2.y = r.y + 1 /\ w2.line = r.line + 1
    <3> DEFINE z == Row(r.y) * TILE_HEIGHT
    <3>1. z \in Nat /\ r.y = z + r.line /\ r.line \in Nat  BY <2>3, <2>5, FrameFacts
    <3> HIDE DEF z
    <3>2. r.y + 1 = z + (r.line + 1)  BY <3>1
    <3> QED  BY <1>1, <1>2, <3>2 DEF z
  <2>7. Row(w2.y) = Row(r.y)  BY <2>5, <2>6
  <2>8. TileOf(w2) = TileOf(r)  BY <1>1, <1>2, <2>7 DEF TileOf
  <2>9. /\ InFrame(acc2, TileOf(w2)) /\ acc2[w2.n] = acc[r.n] /\ acc[r.n] \in Triangle /\ Column(r.x)
    <3>1. TileOf(r).n = r.n /\ TileOf(r).x = r.x /\ w2.n = r.n  BY <1>1, <1>2 DEF TileOf
    <3>2. InFrame(acc2, TileOf(r)) /\ acc2[r.n] = acc[r.n] /\ acc[r.n] \in Triangle
      BY <2>3, <3>1, StillOk
    <3> QED  BY <2>3, <2>8, <3>1, <3>2 DEF InFrame
  <2>10. w2.e = EdgesAt(acc2[w2.n], w2.x * TILE_WIDTH, w2.y)
    <3> DEFINE X == r.x * TILE_WIDTH
    <3>1. X \in Int /\ r.y \in Int
      <4>1. r.x \in Nat  BY <2>9, FrameFacts DEF Column
      <4> QED  BY <2>3, <4>1, FrameFacts, SMT
    <3>2. EdgesAt(acc[r.n], X, r.y + 1) = [i \in Edges |-> r.e[i] + Setup[acc[r.n]].dx[i]]
      <4> HIDE DEF X
      <4>1. EdgesAt(acc[r.n], X, r.y + 1)
              = [i \in Edges |-> EdgesAt(acc[r.n], X, r.y)[i] + Setup[acc[r.n]].dx[i]]
        BY <2>9, <3>1, EdgesNextRow
      <4>2. r.e = EdgesAt(acc[r.n], X, r.y)  BY <2>3 DEF X
      <4> QED  BY <4>1, <4>2
    <3> QED  BY <1>1, <1>2, <2>9, <3>2
  <2>11. SameTile(TileOf(w2), TileOf(r))  BY <2>8 DEF SameTile
  <2>12. w2.tex = w2.n  BY <1>1, <1>2, <2>3
  <2>13. w2.y = Row(w2.y) * TILE_HEIGHT + w2.line  BY <2>6, <2>7
  <2> QED  BY <2>2, <2>4, <2>6, <2>8, <2>9, <2>10, <2>11, <2>12, <2>13
<1> QED  BY <1>2 DEF WalkOk

(* The lines made so far, with the one pushed.                               *)
MadeMoves(m, m2, put) ==
  /\ Len(m) \in Nat /\ DOMAIN m = 1 .. Len(m) /\ Len(put) \in {0, 1}
  /\ DOMAIN m2 = 1 .. Len(m) + Len(put)
  /\ \A i \in 1 .. Len(m) : m2[i] = m[i]
  /\ Len(put) = 1 => m2[Len(m) + 1] = put[1]

(* Each is an old one or the new one.                                        *)
LEMMA MadeAfter ==
  ASSUME NEW m, NEW m2, NEW put, MadeMoves(m, m2, put), NEW i \in DOMAIN m2
  PROVE  \/ i \in DOMAIN m /\ m2[i] = m[i]
         \/ Len(put) = 1 /\ i = Len(m) + 1 /\ m2[i] = put[1]
<1> DEFINE n == Len(m)
           k == Len(put)
<1>1. n \in Nat /\ DOMAIN m = 1 .. n /\ k \in {0, 1} /\ i \in 1 .. n + k
  BY DEF MadeMoves
<1>2. \A j \in 1 .. n : m2[j] = m[j]  BY DEF MadeMoves
<1>3. k = 1 => m2[n + 1] = put[1]  BY DEF MadeMoves
<1> HIDE DEF n, k
<1>4. i \in 1 .. n \/ (k = 1 /\ i = n + 1)  BY <1>1
<1> QED  BY <1>1, <1>2, <1>3, <1>4 DEF n, k

(* A line pushed is the line of the row.                                     *)
LEMMA PushedLine ==
  ASSUME NEW acc, NEW acc2, Grows(acc, acc2),
         NEW w, NEW w2, NEW s, NEW b, NEW r, NEW put, WalkMoves(acc, w, w2, s, b, r, put),
         RowAt(w, s, b, r) => RowOk(acc, r)
  PROVE  Len(put) = 1 => /\ RowAt(w, s, b, r) /\ put[1] = TheLine(acc, r) /\ LineOk(acc, put[1])
                         /\ TileOf(put[1]) = TileOf(r) /\ put[1].y = r.y
<1>1. Len(<<>>) = 0  BY EmptySeq
<1>2. ASSUME Len(put) = 1
      PROVE  /\ RowAt(w, s, b, r) /\ put[1] = TheLine(acc, r) /\ LineOk(acc, put[1])
  <2>1. put # <<>>  BY <1>1, <1>2
  <2>2. RowAt(w, s, b, r) /\ put = RowLine(acc, r)  BY <2>1 DEF WalkMoves
  <2>3. LineMask(acc[r.n], r.x, r.y) # {} /\ put = <<TheLine(acc, r)>>  BY <2>1, <2>2, RowPushes
  <2>4. LineOk(acc, TheLine(acc, r))  BY <2>2, <2>3, RowPushes
  <2>5. put[1] = TheLine(acc, r)
    <3> HIDE DEF TheLine
    <3> QED  BY <2>3
  <2> QED  BY <2>2, <2>4, <2>5
<1>3. TheLine(acc, r).n = r.n /\ TheLine(acc, r).x = r.x /\ TheLine(acc, r).y = r.y  BY DEF TheLine
<1> QED  BY <1>2, <1>3 DEF TileOf

(* The lines made stay in the order of the walk.                             *)
LEMMA MadeStep ==
  ASSUME NEW acc, NEW acc2, NEW p, NEW p2, NEW c, NEW c2, NEW pushed,
         Grows(acc, acc2), ParamMoves(acc, acc2, p, p2, c), CoreMoves(acc, p, c, c2, pushed),
         NEW tex, ParamOk(acc, p, tex), CoreOk(acc, p, c),
         NEW s, NEW s2, NEW b, NEW t, TilesMove(acc, s, s2, b, pushed, c, t), TilesOk(acc, s, c, p),
         NEW w, NEW w2, NEW r, NEW put, WalkOk(acc, w, s, c, p), WalkMoves(acc, w, w2, s, b, r, put),
         NEW m, NEW m2, MadeOk(acc, m, w, s, c, p), MadeMoves(m, m2, put)
  PROVE  MadeOk(acc2, m2, w2, s2, c2, p2)
<1>1. RowAt(w, s, b, r) => RowPlace(acc, r, m, s2, c2, p2)  BY RowInPlace
<1>2. w2.writing => SameTile(TileOf(w2), TileOf(r)) /\ w2.y = r.y + 1  BY WalkStep
<1>3. w2.writing => RowAt(w, s, b, r)  BY DEF WalkMoves
<1>4. Len(put) = 1 => /\ RowAt(w, s, b, r) /\ LineOk(acc, put[1])
                      /\ TileOf(put[1]) = TileOf(r) /\ put[1].y = r.y
  BY <1>1, PushedLine DEF RowPlace
<1>5. RowAt(w, s, b, r) => r.y \in Nat /\ InFrame(acc, TileOf(r))
  BY <1>1, RowPushes DEF RowPlace, RowOk
<1>6. ASSUME NEW i \in DOMAIN m2
      PROVE  /\ LineOk(acc2, m2[i]) /\ BeforeTiles(TileOf(m2[i]), s2, c2, p2)
             /\ w2.writing => LineBefore(m2[i], w2)
  <2>1. CASE i \in DOMAIN m /\ m2[i] = m[i]
    <3>1. LineOk(acc, m2[i]) /\ BeforeTiles(TileOf(m2[i]), s, c, p)  BY <2>1 DEF MadeOk
    <3>2. InFrame(acc, TileOf(m2[i]))  BY <3>1 DEF LineOk
    <3>3. LineOk(acc2, m2[i]) /\ BeforeTiles(TileOf(m2[i]), s2, c2, p2)
      BY <3>1, <3>2, StillOk, BeforeTilesKept
    <3>4. ASSUME w2.writing PROVE LineBefore(m2[i], w2)
      <4>1. LineBefore(m2[i], r) /\ SameTile(TileOf(r), TileOf(w2)) /\ w2.y = r.y + 1
            /\ r.y \in Nat /\ InFrame(acc, TileOf(r))
        BY <1>1, <1>2, <1>3, <1>5, <2>1, <3>4 DEF RowPlace, SameTile
      <4>2. Spot(TileOf(m2[i])) /\ Spot(TileOf(r)) /\ Spot(TileOf(w2))
        <5>1. Spot(TileOf(m2[i])) /\ Spot(TileOf(r))  BY <3>2, <4>1, StillOk
        <5> QED  BY <4>1, <5>1 DEF Spot, SameTile
      <4>3. m2[i].y \in Nat
        <5>1. m2[i].y \in 0 .. FRAME_HEIGHT - 1  BY <3>1 DEF LineOk
        <5> QED  BY <5>1
      <4>4. CASE TileBefore(TileOf(m2[i]), TileOf(r))
        <5>1. TileBefore(TileOf(m2[i]), TileOf(w2))  BY <4>1, <4>2, <4>4, TileOrder
        <5> QED  BY <5>1, LineOrder
      <4>5. CASE SameTile(TileOf(m2[i]), TileOf(r)) /\ m2[i].y < r.y
        <5>1. SameTile(TileOf(m2[i]), TileOf(w2))  BY <4>1, <4>5 DEF SameTile
        <5>2. m2[i].y < w2.y  BY <4>1, <4>3, <4>5
        <5> QED  BY <5>1, <5>2, LineOrder
      <4> QED  BY <4>1, <4>4, <4>5, LineOrder
    <3> QED  BY <3>3, <3>4
  <2>2. CASE Len(put) = 1 /\ m2[i] = put[1]
    <3>1. /\ LineOk(acc, m2[i]) /\ TileOf(m2[i]) = TileOf(r) /\ m2[i].y = r.y
          /\ BeforeTiles(TileOf(r), s2, c2, p2) /\ r.y \in Nat
      BY <1>1, <1>4, <1>5, <2>2 DEF RowPlace
    <3>2. LineOk(acc2, m2[i])  BY <3>1, StillOk
    <3>3. ASSUME w2.writing PROVE LineBefore(m2[i], w2)
      <4>1. SameTile(TileOf(m2[i]), TileOf(w2)) /\ m2[i].y < w2.y
        BY <1>2, <3>1, <3>3 DEF SameTile
      <4> QED  BY <4>1, LineOrder
    <3> QED  BY <3>1, <3>2, <3>3
  <2> QED  BY <2>1, <2>2, MadeAfter
<1>7. ASSUME NEW i \in DOMAIN m2, NEW j \in DOMAIN m2, i < j PROVE LineBefore(m2[i], m2[j])
  <2>1. CASE j \in DOMAIN m /\ m2[j] = m[j]
    <3>1. i \in DOMAIN m /\ m2[i] = m[i]  BY <1>7, <2>1 DEF MadeMoves
    <3> QED  BY <1>7, <2>1, <3>1 DEF MadeOk
  <2>2. CASE Len(put) = 1 /\ j = Len(m) + 1 /\ m2[j] = put[1]
    <3>1. i \in DOMAIN m /\ m2[i] = m[i]  BY <1>7, <2>2 DEF MadeMoves
    <3>2. LineBefore(m2[i], r) /\ TileOf(m2[j]) = TileOf(r) /\ m2[j].y = r.y
      BY <1>1, <1>4, <2>2, <3>1 DEF RowPlace
    <3> QED  BY <3>2 DEF LineBefore
  <2> QED  BY <2>1, <2>2, MadeAfter
<1> QED  BY <1>6, <1>7 DEF MadeOk

(* There is room for the rest of the tile.                                   *)
LEMMA RoomStep ==
  ASSUME NEW acc, NEW w, NEW w2, NEW s, NEW s2, NEW b, NEW r, NEW put, NEW c, NEW p,
         WalkOk(acc, w, s, c, p), WalkMoves(acc, w, w2, s, b, r, put),
         NEW n \in Nat, NEW n2 \in Nat, n2 <= n + Len(put), Len(put) \in {0, 1},
         RoomFor(n, w), RowAt(w, s, b, r) /\ ~w.writing => n <= LineDepth - TILE_HEIGHT
  PROVE  RoomFor(n2, w2) /\ (RowAt(w, s, b, r) => n < LineDepth)
<1> DEFINE k == Len(put)
<1>1. TILE_HEIGHT \in Nat /\ LineDepth \in Nat /\ TILE_HEIGHT >= 2  BY FrameFacts
<1>2. put = <<>> => k = 0  BY EmptySeq
<1>7. k \in {0, 1} /\ n2 <= n + k  OBVIOUS
<1> HIDE DEF k
<1>3. w.writing => w.line \in 1 .. TILE_HEIGHT - 1 /\ n + (TILE_HEIGHT - w.line) <= LineDepth
  BY DEF WalkOk, RoomFor
<1>4. n <= LineDepth  BY <1>1, <1>3 DEF RoomFor
<1>5. CASE ~w.writing /\ w2 = w /\ put = <<>>
  <2>1. n2 <= LineDepth  BY <1>1, <1>2, <1>4, <1>5, <1>7
  <2>3. RoomFor(n2, w2)  BY <1>1, <1>5, <2>1 DEF RoomFor
  <2>4. RowAt(w, s, b, r) => n < LineDepth  BY <1>1, <1>5
  <2> QED  BY <2>3, <2>4
<1>6. CASE RowAt(w, s, b, r)
  <2>1. r.line \in 0 .. TILE_HEIGHT - 1 /\ n + (TILE_HEIGHT - r.line) <= LineDepth
    <3>1. CASE ~w.writing
      <4>1. r.line = 0  BY <1>6, <3>1 DEF RowAt
      <4> QED  BY <1>1, <1>6, <3>1, <4>1
    <3>2. CASE w.writing
      <4>1. r.line = w.line  BY <1>6, <3>2 DEF RowAt
      <4> QED  BY <1>1, <1>3, <3>2, <4>1
    <3> QED  BY <3>1, <3>2
  <2>2. n < LineDepth /\ n2 <= n + 1  BY <1>1, <1>7, <2>1
  <2>3. w2.writing => w2.line = r.line + 1 \/ (w2 = w /\ put = <<>>)  BY DEF WalkMoves
  <2>4. w2 = w /\ put = <<>> => RoomFor(n2, w2)
    <3> SUFFICES ASSUME w2 = w, put = <<>> PROVE RoomFor(n2, w)  OBVIOUS
    <3>1. n2 <= n  BY <1>2, <1>7
    <3> QED  BY <1>1, <1>3, <1>4, <3>1 DEF RoomFor
  <2>5. CASE ~w2.writing
    <3>1. n2 <= LineDepth  BY <1>1, <2>2
    <3>2. (IF w2.writing THEN TILE_HEIGHT - w2.line ELSE 0) = 0 /\ n2 + 0 = n2  BY <2>5
    <3> QED  BY <2>2, <3>1, <3>2 DEF RoomFor
  <2>6. CASE w2.writing /\ w2.line = r.line + 1
    <3>1. n2 + (TILE_HEIGHT - (r.line + 1)) <= LineDepth  BY <1>1, <2>1, <2>2
    <3>2. (IF w2.writing THEN TILE_HEIGHT - w2.line ELSE 0) = TILE_HEIGHT - (r.line + 1)  BY <2>6
    <3> QED  BY <2>2, <3>1, <3>2 DEF RoomFor
  <2> QED  BY <2>2, <2>3, <2>4, <2>5, <2>6
<1> QED  BY <1>5, <1>6 DEF WalkMoves

(* A line of the row is the one it pushes.                                   *)
LEMMA LineOfRow ==
  ASSUME NEW acc, NEW acc2, Grows(acc, acc2), NEW r, RowOk(acc, r), NEW l, LineOk(acc, l),
         SameTile(TileOf(l), TileOf(r)), l.y = r.y
  PROVE  RowLine(acc, r) = <<l>>
<1>1. l.n = r.n /\ l.x = r.x  BY DEF SameTile, TileOf
<1>2. l = [n |-> l.n, tex |-> l.n, x |-> l.x, y |-> l.y, mask |-> LineMask(acc[l.n], l.x, l.y)] /\ l.mask # {}
  BY DEF LineOk
<1>3. l = TheLine(acc, r) /\ LineMask(acc[r.n], r.x, r.y) # {}
  BY <1>1, <1>2 DEF TheLine
<1> QED  BY <1>3, RowPushes

(* A line at the row or below it is pushed, or the walk goes on to it.       *)
LEMMA WalkReaches ==
  ASSUME NEW acc, NEW acc2, Grows(acc, acc2), NEW r, RowOk(acc, r), NEW l, LineOk(acc, l),
         SameTile(TileOf(l), TileOf(r)), l.y >= r.y,
         NEW w, NEW w2, NEW s, NEW b, NEW put, WalkMoves(acc, w, w2, s, b, r, put), RowAt(w, s, b, r),
         w2.writing => SameTile(TileOf(w2), TileOf(r)) /\ w2.y = r.y + 1,
         NEW m, NEW m2, MadeMoves(m, m2, put), NEW s2, NEW c2, NEW p2
  PROVE  Waits(l, w2, s2, c2, p2) \/ \E i \in DOMAIN m2 : m2[i] = l
<1>1. l.y \in 0 .. FRAME_HEIGHT - 1 /\ r.y \in 0 .. FRAME_HEIGHT - 1  BY RowPushes DEF LineOk
<1>2. l.y \in Nat /\ r.y \in Nat  BY <1>1
<1>3. put = RowLine(acc, r) /\ (r.line = TILE_HEIGHT - 1 \/ w2.writing)
  BY DEF WalkMoves, RowAt
<1>4. CASE l.y = r.y
  <2>1. put = <<l>>  BY <1>3, <1>4, LineOfRow
  <2>2. Len(put) = 1 /\ put[1] = l  BY <2>1
  <2>3. Len(m) + 1 \in DOMAIN m2 /\ m2[Len(m) + 1] = l  BY <2>2 DEF MadeMoves
  <2> QED  BY <2>3
<1>5. CASE l.y > r.y
  <2>1. ~(r.line = TILE_HEIGHT - 1)
    <3> SUFFICES ASSUME r.line = TILE_HEIGHT - 1 PROVE FALSE  OBVIOUS
    <3> DEFINE z == Row(r.y) * TILE_HEIGHT
    <3>1. r.y = z + r.line  BY DEF RowOk
    <3>2. Row(l.y) = Row(r.y)  BY DEF SameTile, TileOf
    <3>3. l.y < Row(l.y) * TILE_HEIGHT + TILE_HEIGHT  BY <1>1, RowInFrame
    <3>4. l.y < z + TILE_HEIGHT  BY <3>2, <3>3
    <3>5. z \in Int
      <4>1. Row(r.y) \in Int  BY <1>1, RowInFrame
      <4> QED  BY <4>1, FrameFacts, SMT
    <3> HIDE DEF z
    <3> QED  BY <1>2, <1>5, <3>1, <3>4, <3>5, FrameFacts
  <2>2. w2.writing /\ SameTile(TileOf(l), TileOf(w2)) /\ l.y >= w2.y
    BY <1>2, <1>3, <1>5, <2>1 DEF SameTile
  <2> QED  BY <2>2 DEF Waits
<1> QED  BY <1>2, <1>4, <1>5

(* No line is lost: each one not made still waits.                           *)
LEMMA CompleteStep ==
  ASSUME NEW acc, NEW acc2, NEW p, NEW p2, NEW c, NEW c2, NEW pushed,
         Grows(acc, acc2), ParamMoves(acc, acc2, p, p2, c), CoreMoves(acc, p, c, c2, pushed),
         NEW tex, ParamOk(acc, p, tex), CoreOk(acc, p, c),
         NEW s, NEW s2, NEW b, NEW t, TilesMove(acc, s, s2, b, pushed, c, t), TilesOk(acc, s, c, p),
         NEW w, NEW w2, NEW r, NEW put, WalkOk(acc, w, s, c, p), WalkMoves(acc, w, w2, s, b, r, put),
         NEW m, NEW m2, MadeOk(acc, m, w, s, c, p), MadeMoves(m, m2, put),
         CompleteOk(acc, m, w, s, c, p)
  PROVE  CompleteOk(acc2, m2, w2, s2, c2, p2)
<1> SUFFICES ASSUME NEW l, LineOk(acc2, l)
             PROVE  Waits(l, w2, s2, c2, p2) \/ \E i \in DOMAIN m2 : m2[i] = l
  BY DEF CompleteOk
<1>1. /\ Len(acc) \in Nat /\ Len(acc2) \in Nat /\ acc2 \in Seq(Triangle) /\ l.n \in 1 .. Len(acc2)
      /\ Len(acc2) \in {Len(acc), Len(acc) + 1}
  BY DEF Grows, LineOk, InFrame, TileOf
<1>2. /\ ~triangle_outside(acc2[l.n]) /\ InBox(acc2[l.n], TileOf(l)) /\ Spot(TileOf(l))
      /\ l.y \in 0 .. FRAME_HEIGHT - 1 /\ l.y \in Nat
  <2>1. /\ acc2[l.n] \in Triangle /\ Column(l.x) /\ l.y \in 0 .. FRAME_HEIGHT - 1
        /\ LineMask(acc2[l.n], l.x, l.y) # {} /\ InFrame(acc2, TileOf(l))
    BY <1>1, ElementOfSeq DEF LineOk, InFrame, TileOf
  <2>2. /\ ~triangle_outside(acc2[l.n])
        /\ l.x \in bbox(acc2[l.n]).min.x .. bbox(acc2[l.n]).max.x
        /\ Row(l.y) \in bbox(acc2[l.n]).min.y .. bbox(acc2[l.n]).max.y
    BY <2>1, LineInBox
  <2>3. Spot(TileOf(l))
    <3>1. Grows(acc2, acc2)  BY <1>1, ElementOfSeq DEF Grows
    <3> QED  BY <2>1, <3>1, StillOk
  <2> QED  BY <2>1, <2>2, <2>3 DEF InBox, TileOf
<1>3. CASE l.n = Len(acc) + 1
  <2>1. acc2 # acc  BY <1>1, <1>3
  <2>2. p2.busy /\ p2.n = Len(acc) + 1  BY <1>2, <1>3, <2>1 DEF ParamMoves
  <2> QED  BY <1>3, <2>2 DEF Waits
<1>4. CASE l.n <= Len(acc)
  <2>0. LineOk(acc, l) /\ acc2[l.n] = acc[l.n] /\ acc[l.n] \in Triangle
    BY <1>1, <1>4, StillOk DEF Grows
  <2>9. RowAt(w, s, b, r) => RowOk(acc, r)  BY RowInPlace DEF RowPlace
  <2>10. w2.writing => SameTile(TileOf(w2), TileOf(r)) /\ w2.y = r.y + 1  BY WalkStep
  <2>1. CASE \E i \in DOMAIN m : m[i] = l
    <3>1. \E i \in DOMAIN m2 : m2[i] = l
      <4>1. PICK i \in DOMAIN m : m[i] = l  BY <2>1
      <4>2. i \in DOMAIN m2 /\ m2[i] = l  BY <4>1 DEF MadeMoves
      <4> QED  BY <4>2
    <3> QED  BY <3>1
  <2>2. CASE w.writing /\ SameTile(TileOf(l), TileOf(w)) /\ l.y >= w.y
    <3>1. RowAt(w, s, b, r)  BY <2>2 DEF WalkMoves
    <3>2. TileOf(r) = TileOf(w) /\ r.y = w.y  BY <2>2, <3>1 DEF RowAt, TileOf
    <3> QED  BY <2>0, <2>2, <2>9, <2>10, <3>1, <3>2, WalkReaches
  <2>3. ASSUME NEW i \in DOMAIN s, SameTile(TileOf(l), s[i])
        PROVE  Waits(l, w2, s2, c2, p2) \/ \E j \in DOMAIN m2 : m2[j] = l
    <3>1. CASE i > b
      <4>1. i - b \in DOMAIN s2 /\ s2[i - b] = s[i]
        <5>1. i - b \in 1 .. Len(s) - b /\ (i - b) + b = i  BY <2>3, <3>1 DEF TilesMove
        <5>2. \A k \in 1 .. Len(s) - b : s2[k] = s[k + b]  BY DEF TilesMove
        <5>3. i - b \in DOMAIN s2
          <6> DEFINE k == i - b
                     n == Len(s) - b
          <6>1. k \in 1 .. n /\ n \in Nat  BY <5>1 DEF TilesMove
          <6>2. DOMAIN s2 = 1 .. n + (IF pushed THEN 1 ELSE 0)  BY DEF TilesMove
          <6> HIDE DEF k, n
          <6>3. k \in 1 .. n /\ k \in 1 .. n + 1 /\ n + 0 = n  BY <6>1
          <6>4. k \in DOMAIN s2  BY <6>2, <6>3
          <6> QED  BY <6>4 DEF k
        <5> QED  BY <5>1, <5>2, <5>3
      <4> QED  BY <2>3, <4>1 DEF Waits
    <3>2. CASE ~(i > b)
      <4>1. b = 1 /\ i = 1  BY <2>3, <3>2 DEF TilesMove
      <4> DEFINE a == s[1]
      <4>2. TileOk(acc, a) /\ SameTile(TileOf(l), a)  BY <2>3, <4>1 DEF TilesOk
      <4>3. /\ l.n = a.n /\ l.x = a.x /\ Row(l.y) = a.y  BY <4>2 DEF SameTile, TileOf
      <4>4. ~a.reject
        <5> SUFFICES ASSUME a.reject PROVE FALSE  OBVIOUS
        <5>1. reject(Setup[acc[l.n]], l.x, Row(l.y))  BY <4>2, <4>3 DEF TileOk
        <5> DEFINE q == Row(l.y)
                   z == q * TILE_HEIGHT
                   k == l.y - z
        <5>2. l.x \in Nat /\ q \in Nat  BY <1>2 DEF Spot, TileOf
        <5>3. z \in Nat /\ k \in 0 .. TILE_HEIGHT - 1 /\ z + k = l.y
          <6>1. z <= l.y /\ l.y < z + TILE_HEIGHT  BY <1>2, RowInFrame
          <6>2. z \in Nat  BY <5>2, FrameFacts, SMT
          <6> HIDE DEF z
          <6> QED  BY <1>2, <6>1, <6>2, FrameFacts
        <5>4. LineMask(acc[l.n], l.x, z + k) = {}
          <6> HIDE DEF k, q
          <6> QED  BY <2>0, <5>1, <5>2, <5>3, RejectedIsEmpty DEF q
        <5> HIDE DEF z, k
        <5>5. LineMask(acc[l.n], l.x, l.y) = {}  BY <5>3, <5>4
        <5> QED  BY <2>0, <5>5 DEF LineOk
      <4>5. RowAt(w, s, b, r) /\ ~w.writing  BY <4>1, <4>4 DEF WalkMoves, RowAt
      <4>6. r.n = a.n /\ r.x = a.x /\ r.y = a.y * TILE_HEIGHT  BY <4>5 DEF RowAt
      <4>7. SameTile(TileOf(l), TileOf(r))
        <5>1. a.y \in 0 .. TilesY - 1 /\ 0 \in 0 .. TILE_HEIGHT - 1  BY <4>2, FrameFacts DEF TileOk, InFrame
        <5>2. a.y * TILE_HEIGHT \in Nat /\ Row(a.y * TILE_HEIGHT + 0) = a.y
          <6> HIDE DEF a
          <6> QED  BY <5>1, RowsOfTile
        <5>3. Row(r.y) = a.y
          <6>1. a.y * TILE_HEIGHT + 0 = a.y * TILE_HEIGHT  BY <5>2
          <6> QED  BY <4>6, <5>2, <6>1
        <5> QED  BY <4>3, <4>6, <5>3 DEF SameTile, TileOf
      <4>8. l.y >= r.y
        <5>1. Row(l.y) * TILE_HEIGHT <= l.y  BY <1>2, RowInFrame
        <5>2. r.y <= l.y  BY <4>3, <4>6, <5>1
        <5>3. r.y \in Nat  BY <2>9, <4>5, RowPushes
        <5> QED  BY <1>2, <5>2, <5>3
      <4> HIDE DEF a
      <4> QED  BY <2>0, <2>9, <2>10, <4>5, <4>7, <4>8, WalkReaches
    <3> QED  BY <3>1, <3>2
  <2>4. CASE c.valid /\ l.n = c.n /\ ~TileBefore(TileOf(l), c)
    <3> DEFINE a == TileOf(l)
               d == bbox(acc[l.n])
    <3>1. /\ a.n = l.n /\ a.x \in d.min.x .. d.max.x /\ a.y \in d.min.y .. d.max.y /\ Spot(a) /\ Spot(c)
      BY <1>2, <2>0 DEF InBox, TileOf, CoreMoves
    <3>2. /\ d.min.x \in Int /\ d.max.x \in Int /\ d.min.y \in Int /\ d.max.y \in Int
      BY <2>0, BoxInFrame, FrameFacts
    <3>3. c.x \in d.min.x .. d.max.x /\ c.y \in d.min.y .. d.max.y  BY <2>4 DEF CoreOk, InBox
    <3>4. a.y > c.y \/ (a.y = c.y /\ a.x >= c.x)  BY <2>4, <3>1 DEF TileBefore, Spot
    <3>5. CASE pushed /\ SameTile(a, c)
      <4>1. SameTile(t, c) /\ Len(s) - b + 1 \in DOMAIN s2 /\ s2[Len(s) - b + 1] = t
        BY <3>5 DEF TilesMove
      <4>2. SameTile(a, t)  BY <3>5, <4>1 DEF SameTile
      <4> QED  BY <4>1, <4>2 DEF Waits
    <3>6. CASE pushed /\ ~SameTile(a, c)
      <4>1. ~(a.x = c.x /\ a.y = c.y)  BY <2>4, <3>1, <3>6 DEF SameTile
      <4>2. ~LastTile(acc[c.n], c)
        <5> SUFFICES ASSUME c.x = d.max.x, c.y = d.max.y PROVE FALSE  BY <2>4 DEF LastTile
        <5> HIDE DEF a, d
        <5> QED  BY <3>1, <3>2, <3>4, <4>1
      <4>3. /\ c2.valid /\ c2.n = c.n
            /\ IF c.x = d.max.x THEN c2.x = d.min.x /\ c2.y = c.y + 1 ELSE c2.x = c.x + 1 /\ c2.y = c.y
        BY <2>4, <3>6, <4>2 DEF CoreMoves
      <4>4. a.y > c2.y \/ (a.y = c2.y /\ a.x >= c2.x)
        <5> HIDE DEF a, d
        <5>1. a.x \in Int /\ a.y \in Int /\ c.x \in Int /\ c.y \in Int /\ a.x <= d.max.x /\ a.x >= d.min.x
          BY <3>1, <3>2 DEF Spot
        <5> QED  BY <3>2, <3>4, <4>1, <4>3, <5>1
      <4>5. ~TileBefore(a, c2)
        <5>1. a.n = c2.n /\ Spot(a) /\ Spot(c2)  BY <2>4, <3>1, <4>3 DEF CoreMoves
        <5> HIDE DEF a
        <5> QED  BY <4>4, <5>1 DEF TileBefore, Spot
      <4> QED  BY <2>4, <4>3, <4>5 DEF Waits
    <3>7. CASE ~pushed
      <4>1. c2 = c  BY <2>4, <3>7 DEF CoreMoves
      <4> QED  BY <2>4, <4>1 DEF Waits
    <3> QED  BY <3>5, <3>6, <3>7
  <2>5. CASE p.busy /\ l.n = p.n
    <3>1. CASE p2.busy /\ p2.n = p.n  BY <2>5, <3>1 DEF Waits
    <3>2. CASE p.valid /\ ~c.valid
      <4> DEFINE d == bbox(acc[l.n])
                 a == TileOf(l)
      <4>1. c2.valid /\ c2.n = l.n /\ c2.x = d.min.x /\ c2.y = d.min.y /\ Spot(c2)
        BY <2>5, <3>2 DEF CoreMoves
      <4>2. a.n = l.n /\ a.x \in d.min.x .. d.max.x /\ a.y \in d.min.y .. d.max.y /\ Spot(a)
        BY <1>2, <2>0 DEF InBox, TileOf
      <4>3. d.min.x \in Int /\ d.max.x \in Int /\ d.min.y \in Int /\ d.max.y \in Int
        BY <2>0, BoxInFrame, FrameFacts
      <4>4. a.n = c2.n /\ a.x >= c2.x /\ a.y >= c2.y
        <5> HIDE DEF a, d
        <5> QED  BY <4>1, <4>2, <4>3
      <4>5. ~TileBefore(a, c2)
        <5> HIDE DEF a
        <5> QED  BY <4>1, <4>2, <4>4 DEF TileBefore, Spot
      <4> QED  BY <4>1, <4>5 DEF Waits
    <3> QED  BY <2>5, <3>1, <3>2 DEF ParamMoves
  <2>6. Waits(l, w, s, c, p) \/ \E i \in DOMAIN m : m[i] = l  BY <2>0 DEF CompleteOk
  <2> QED  BY <2>1, <2>2, <2>3, <2>4, <2>5, <2>6 DEF Waits
<1> QED  BY <1>1, <1>3, <1>4

-------------------------------------------------------------------------------
(* An edge of the clock moves the registers like this. *)

Input == [v: Offer, submit: Offer, calc: BOOLEAN, worker_ready: BOOLEAN]
FrontEdge(e) == e \in Input /\ Clock(e.v, e.submit, e.calc, e.worker_ready)

(* Every step is an edge.                                                    *)
LEMMA StepIsEdge ==
  ASSUME Next
  PROVE  \E e : FrontEdge(e)
<1>1. PICK v \in Offer, submit \in Offer, calc \in BOOLEAN, worker_ready \in BOOLEAN :
        Clock(v, submit, calc, worker_ready)
  BY DEF Next
<1> DEFINE e == [v |-> v, submit |-> submit, calc |-> calc, worker_ready |-> worker_ready]
<1>2. e \in Input /\ e.v = v /\ e.submit = submit /\ e.calc = calc /\ e.worker_ready = worker_ready
  BY DEF Input
<1> HIDE DEF e
<1>3. FrontEdge(e)  BY <1>1, <1>2 DEF FrontEdge
<1> QED  BY <1>3

(* The triangle at the input is accepted, or none is.                        *)
LEMMA Accepting ==
  ASSUME FrontTypes, NEW e, FrontEdge(e)
  PROVE  /\ vertex' \in Offer /\ software' \in Offer /\ accepted' \in Seq(Triangle)
         /\ Grows(accepted, accepted') /\ Len(accepted) \in Nat
         /\ param_ready => /\ Len(accepted') = Len(accepted) + 1
                           /\ accepted'[Len(accepted) + 1] = triangle_i[1] /\ triangle_i[1] \in Triangle
         /\ ~param_ready => accepted' = accepted
<1>1. Sources(e.v, e.submit) /\ e.v \in Offer /\ e.submit \in Offer  BY DEF FrontEdge, Clock, Input
<1>2. vertex \in Offer /\ software \in Offer /\ accepted \in Seq(Triangle)  BY DEF FrontTypes
<1>3. <<>> \in Offer  BY DEF Offer
<1>4. vertex' \in Offer /\ software' \in Offer  BY <1>1, <1>2, <1>3, Zenon DEF Sources
<1>5. Len(accepted) \in Nat /\ DOMAIN accepted = 1 .. Len(accepted)  BY <1>2, Lengths
<1>6. \A n \in 1 .. Len(accepted) : accepted[n] \in Triangle  BY <1>2, ElementOfSeq
<1>7. CASE param_ready
  <2>1. triangle_i # <<>> /\ triangle_i \in Offer  BY <1>2, <1>7 DEF param_ready, triangle_i
  <2>2. PICK t \in Triangle : triangle_i = <<t>>  BY <2>1 DEF Offer
  <2>3. accepted' = accepted \o <<t>>  BY <1>1, <1>7, <2>2 DEF Sources
  <2>4. <<t>> \in Seq(Triangle) /\ Len(<<t>>) = 1 /\ <<t>>[1] = t  OBVIOUS
  <2>5. /\ accepted' \in Seq(Triangle) /\ Len(accepted') = Len(accepted) + 1
        /\ \A i \in 1 .. Len(accepted) + 1 :
             accepted'[i] = IF i <= Len(accepted) THEN accepted[i] ELSE <<t>>[i - Len(accepted)]
    BY <1>2, <2>3, <2>4, ConcatProperties
  <2>6. \A n \in 1 .. Len(accepted) : accepted'[n] = accepted[n]  BY <1>5, <2>5
  <2>7. accepted'[Len(accepted) + 1] = t
    <3> DEFINE n == Len(accepted)
    <3>1. n \in Nat /\ n + 1 \in 1 .. n + 1 /\ ~(n + 1 <= n) /\ (n + 1) - n = 1  BY <1>5
    <3>2. accepted'[n + 1] = <<t>>[(n + 1) - n]  BY <2>5, <3>1
    <3> QED  BY <3>1, <3>2
  <2>8. Grows(accepted, accepted')  BY <1>2, <2>5, <2>6 DEF Grows
  <2> QED  BY <1>4, <1>5, <1>7, <2>2, <2>5, <2>7, <2>8
<1>8. CASE ~param_ready
  <2>1. accepted' = accepted  BY <1>1, <1>8 DEF Sources
  <2> QED  BY <1>2, <1>4, <1>5, <1>8, <2>1 DEF Grows
<1> QED  BY <1>7, <1>8

(* triangle_param on an edge.                                                *)
LEMMA ParamStep ==
  ASSUME FrontTypes, ParamOk(accepted, param, texture), NEW e, FrontEdge(e)
  PROVE  /\ ParamMoves(accepted, accepted', param, param', core)
         /\ ParamOk(accepted', param', texture')
         /\ texture' \in Nat
         /\ param' \in [state: {"E", "AREA", "ATTR"}, n: Nat, busy: BOOLEAN, valid: BOOLEAN, tex: Nat,
                        tex_valid: BOOLEAN]
<1> DEFINE L == Len(accepted)
           ends == param.state = "ATTR" /\ e.calc /\ texture_complete
           leaves == param.state = "E" /\ param.valid /\ core_ready
<1>1. TriangleParam(e.calc) /\ LoadTexture /\ e.calc \in BOOLEAN  BY DEF FrontEdge, Clock, Input
<1>2. /\ param.state \in {"E", "AREA", "ATTR"} /\ param.n \in Nat /\ param.busy \in BOOLEAN
      /\ param.valid \in BOOLEAN /\ param.tex \in Nat /\ param.tex_valid \in BOOLEAN /\ texture \in Nat
  BY DEF FrontTypes
<1>3. L \in Nat  BY Accepting
<1>4. /\ param.busy => param.n = L /\ param.n >= 1
      /\ param.state # "E" => param.busy /\ ~param.valid
      /\ param.busy => param.state # "E" \/ param.valid
      /\ param.valid => param.busy /\ param.tex_valid
      /\ param.busy /\ param.tex_valid => param.tex = param.n
      /\ texture # None => texture = param.n /\ param.busy /\ ~param.tex_valid
  BY DEF ParamOk
<1>5. texture_ready  BY <1>4 DEF texture_ready, id_in_ready
<1>6. /\ param'.state = CASE starts -> "AREA" [] param.state = "AREA" /\ e.calc -> "ATTR"
                          [] ends -> "E" [] OTHER -> param.state
      /\ param'.n = IF starts THEN L + 1 ELSE param.n
      /\ param'.busy = (starts \/ (param.busy /\ ~leaves))
      /\ param'.valid = (ends \/ (param.valid /\ ~leaves))
      /\ param'.tex = IF texture_answered THEN texture ELSE param.tex
      /\ param'.tex_valid = (texture_answered \/ (param.tex_valid /\ ~starts))
  BY <1>1 DEF TriangleParam
<1>7. texture' = IF starts THEN L + 1 ELSE None  BY <1>1, <1>5 DEF LoadTexture
<1>8. starts => param_ready /\ ~param.busy /\ param.state = "E"  BY DEF starts, param_ready, idle
<1>9. param_ready => ~param.busy  BY DEF param_ready, idle
<1>10. param_ready /\ ~starts => triangle_outside(accepted'[L + 1])
  <2> SUFFICES ASSUME param_ready, ~starts PROVE triangle_outside(accepted'[L + 1])  OBVIOUS
  <2>1. Setup[triangle_i[1]].outside  BY DEF starts
  <2>2. triangle_i[1] \in Triangle /\ accepted'[L + 1] = triangle_i[1]  BY Accepting
  <2> QED  BY <2>1, <2>2, SetupOf
<1>11. /\ param_ready => Len(accepted') = L + 1
       /\ ~param_ready => accepted' = accepted
  BY Accepting
<1>12. /\ texture_answered <=> texture # None /\ param.busy /\ ~param.tex_valid
       /\ core_ready <=> ~core.valid
       /\ texture_complete <=> param.tex_valid \/ texture_answered
       /\ None = 0
  BY DEF texture_answered, id_in_ready, core_ready, texture_complete, None
<1>13. starts \in BOOLEAN /\ texture_answered \in BOOLEAN /\ ends \in BOOLEAN /\ leaves \in BOOLEAN
  BY <1>1 DEF starts, texture_answered
<1>14. param' \in [state: {"E", "AREA", "ATTR"}, n: Nat, busy: BOOLEAN, valid: BOOLEAN, tex: Nat,
                   tex_valid: BOOLEAN]
  <2>1. param' = [state |-> param'.state, n |-> param'.n, busy |-> param'.busy, valid |-> param'.valid,
                  tex |-> param'.tex, tex_valid |-> param'.tex_valid]
    BY <1>1 DEF TriangleParam
  <2>2. /\ param'.state \in {"E", "AREA", "ATTR"} /\ param'.n \in Nat /\ param'.tex \in Nat
    BY <1>2, <1>3, <1>6
  <2>3. param'.busy \in BOOLEAN /\ param'.valid \in BOOLEAN /\ param'.tex_valid \in BOOLEAN
    BY <1>2, <1>6, <1>13, Zenon
  <2> QED  BY <2>1, <2>2, <2>3
<1>15. texture' \in Nat  BY <1>3, <1>7, <1>12
<1> HIDE DEF L
<1>16. ParamMoves(accepted, accepted', param, param', core)
  <2>1. param.n \in Nat /\ param'.n \in Nat  BY <1>2, <1>14
  <2>2. CASE starts
    <3>1. ~param.busy /\ param'.busy /\ param'.n = L + 1 /\ Len(accepted') = L + 1
      BY <1>6, <1>8, <1>11, <2>2
    <3> QED  BY <2>1, <3>1 DEF ParamMoves, L
  <2>3. CASE ~starts /\ param.busy
    <3>1. accepted' = accepted /\ param'.n = param.n  BY <1>6, <1>9, <1>11, <2>3
    <3>2. CASE leaves
      <4>1. ~param'.busy /\ param.valid /\ ~core.valid  BY <1>6, <1>12, <2>3, <3>2
      <4> QED  BY <2>1, <2>3, <3>1, <4>1 DEF ParamMoves
    <3>3. CASE ~leaves
      <4>1. param'.busy /\ ~(param.valid /\ ~core.valid)  BY <1>2, <1>4, <1>6, <1>12, <2>3, <3>3
      <4> QED  BY <2>1, <2>3, <3>1, <4>1 DEF ParamMoves
    <3> QED  BY <3>2, <3>3
  <2>4. CASE ~starts /\ ~param.busy
    <3>1. ~param'.busy  BY <1>6, <2>4
    <3>2. accepted' = accepted \/ (Len(accepted') = L + 1 /\ triangle_outside(accepted'[L + 1]))
      BY <1>10, <1>11, <2>4
    <3> QED  BY <2>1, <2>4, <3>1, <3>2 DEF ParamMoves, L
  <2> QED  BY <2>2, <2>3, <2>4
<1>17. ParamOk(accepted', param', texture')
  <2>1. CASE starts
    <3>1. ~param.busy /\ ~param.valid /\ param.state = "E" /\ ~ends /\ ~texture_answered
      BY <1>2, <1>4, <1>8, <1>12, <2>1
    <3>2. /\ param'.state = "AREA" /\ param'.n = L + 1 /\ param'.busy /\ ~param'.valid
          /\ ~param'.tex_valid /\ texture' = L + 1 /\ Len(accepted') = L + 1
      BY <1>6, <1>7, <1>8, <1>11, <2>1, <3>1
    <3> QED  BY <1>3, <3>2 DEF ParamOk
  <2>2. CASE ~starts
    <3>1. /\ param'.n = param.n /\ texture' = None /\ (param.busy => accepted' = accepted)
          /\ param'.busy = (param.busy /\ ~leaves)
          /\ param'.valid = (ends \/ (param.valid /\ ~leaves))
          /\ param'.tex_valid = (texture_answered \/ param.tex_valid)
      BY <1>6, <1>7, <1>9, <1>11, <2>2
    <3>2. param'.state = CASE param.state = "AREA" /\ e.calc -> "ATTR" [] ends -> "E" [] OTHER -> param.state
      <4>1. CASE param.state = "AREA" /\ e.calc
        <5>1. ~ends  BY <4>1
        <5> QED  BY <1>6, <2>2, <4>1, <5>1
      <4>2. CASE ~(param.state = "AREA" /\ e.calc)  BY <1>6, <2>2, <4>2
      <4> QED  BY <4>1, <4>2
    <3>3. param'.busy => param'.n = Len(accepted') /\ param'.n >= 1
      BY <1>4, <3>1 DEF L
    <3>4. param'.state # "E" => param'.busy /\ ~param'.valid
      BY <1>2, <1>4, <3>1, <3>2
    <3>5. param'.busy => param'.state # "E" \/ param'.valid
      BY <1>2, <1>4, <3>1, <3>2
    <3>6. param'.valid => param'.busy /\ param'.tex_valid
      BY <1>2, <1>4, <1>12, <3>1
    <3>7. param'.busy /\ param'.tex_valid => param'.tex = param'.n
      BY <1>4, <1>6, <1>12, <3>1
    <3> QED  BY <3>1, <3>3, <3>4, <3>5, <3>6, <3>7 DEF ParamOk
  <2> QED  BY <2>1, <2>2
<1> QED  BY <1>14, <1>15, <1>16, <1>17

\* what an edge does to the queue of tiles and to the walk
Pushed == core.valid /\ tile_in_ready
TileTaken == By(tile_taken)
TheRow ==
  IF tile_starts
  THEN [line |-> 0, n |-> tiles.items[1].n, tex |-> tiles.items[1].tex, x |-> tiles.items[1].x,
        y |-> tiles.items[1].y * TILE_HEIGHT, e |-> tiles.items[1].e]
  ELSE [line |-> walk.line, n |-> walk.n, tex |-> walk.tex, x |-> walk.x, y |-> walk.y, e |-> walk.e]

(* triangle_core on an edge.                                                 *)
LEMMA CoreMove ==
  ASSUME FrontTypes, ParamOk(accepted, param, texture), CoreOk(accepted, param, core),
         NEW e, FrontEdge(e)
  PROVE  /\ CoreMoves(accepted, param, core, core', Pushed)
         /\ core' \in [valid: BOOLEAN, n: Nat, tex: Nat, x: Nat, y: Nat]
<1> DEFINE Core == [valid: BOOLEAN, n: Nat, tex: Nat, x: Nat, y: Nat]
<1>1. TriangleCore(tile_in_ready)  BY DEF FrontEdge, Clock
<1>2. core \in Core /\ Spot(core)  BY DEF FrontTypes, Spot
<1>3. param.n \in Nat /\ param.tex \in Nat /\ param.valid \in BOOLEAN  BY DEF FrontTypes
<1>4. accepted \in Seq(Triangle)  BY DEF FrontTypes
<1>5. CASE param.valid /\ ~core.valid
  <2>1. param.n \in 1 .. Len(accepted)  BY <1>3, <1>5, Accepting DEF ParamOk
  <2>2. accepted[param.n] \in Triangle  BY <1>4, <2>1, ElementOfSeq
  <2> DEFINE d == bbox(accepted[param.n])
  <2>3. P(param.n).bbox = d  BY <2>2, SetupOf DEF P, T
  <2>4. core' = [valid |-> TRUE, n |-> param.n, tex |-> param.tex, x |-> d.min.x, y |-> d.min.y]
    BY <1>1, <1>5, <2>3 DEF TriangleCore, core_ready
  <2>5. d.min.x \in Nat /\ d.min.y \in Nat
    <3>1. d.min.x \in 0 .. TilesX - 1 /\ d.min.y \in 0 .. TilesY - 1  BY <2>2, BoxInFrame
    <3> HIDE DEF d
    <3> QED  BY <3>1
  <2>6. core' \in Core /\ Spot(core')  BY <1>3, <2>4, <2>5 DEF Spot
  <2>7. ~Pushed  BY <1>5 DEF Pushed
  <2>8. /\ core'.valid /\ core'.n = param.n /\ core'.tex = param.tex
        /\ core'.x = d.min.x /\ core'.y = d.min.y
    BY <2>4
  <2> QED  BY <1>2, <1>5, <2>6, <2>7, <2>8 DEF CoreMoves
<1>6. CASE ~(param.valid /\ ~core.valid) /\ Pushed
  <2>1. core.valid /\ tile_in_ready  BY <1>6 DEF Pushed
  <2>2. core.n \in 1 .. Len(accepted)  BY <2>1 DEF CoreOk, InFrame
  <2>3. accepted[core.n] \in Triangle  BY <1>4, <2>2, ElementOfSeq
  <2> DEFINE d == bbox(accepted[core.n])
  <2>4. P(core.n).bbox = d  BY <2>3, SetupOf DEF P, T
  <2>5. last_tile <=> LastTile(accepted[core.n], core)  BY <2>4 DEF last_tile, LastTile
  <2>6. core' = IF last_tile THEN [core EXCEPT !.valid = FALSE] ELSE Step(d)
    BY <1>1, <1>6, <2>1, <2>4 DEF TriangleCore, core_ready
  <2>7. CASE last_tile
    <3>1. core' \in Core /\ ~core'.valid /\ Spot(core')  BY <1>2, <2>6, <2>7 DEF Spot
    <3> QED  BY <1>2, <1>6, <2>1, <2>5, <2>7, <3>1 DEF CoreMoves
  <2>8. CASE ~last_tile
    <3>1. d.min.x \in Nat
      <4>1. d.min.x \in 0 .. TilesX - 1  BY <2>3, BoxInFrame
      <4> HIDE DEF d
      <4> QED  BY <4>1
    <3>2. core' = IF core.x = d.max.x THEN [core EXCEPT !.x = d.min.x, !.y = core.y + 1]
                                      ELSE [core EXCEPT !.x = core.x + 1]
      BY <2>6, <2>8 DEF Step
    <3>3. /\ core' \in Core /\ core'.valid /\ core'.n = core.n /\ core'.tex = core.tex
          /\ IF core.x = d.max.x THEN core'.x = d.min.x /\ core'.y = core.y + 1
                                 ELSE core'.x = core.x + 1 /\ core'.y = core.y
      <4> HIDE DEF d
      <4>1. CASE core.x = d.max.x
        <5> DEFINE m == d.min.x
        <5>1. core' = [core EXCEPT !.x = m, !.y = core.y + 1]  BY <3>2, <4>1
        <5>2. m \in Nat  BY <3>1
        <5> HIDE DEF m
        <5>3. core' = [valid |-> core.valid, n |-> core.n, tex |-> core.tex, x |-> m, y |-> core.y + 1]
          BY <1>2, <5>1
        <5>4. core' \in Core /\ core'.valid /\ core'.n = core.n /\ core'.tex = core.tex
              /\ core'.x = m /\ core'.y = core.y + 1
          BY <1>2, <2>1, <5>2, <5>3
        <5> QED  BY <4>1, <5>4 DEF m
      <4>2. CASE core.x # d.max.x  BY <1>2, <2>1, <3>1, <3>2, <4>2
      <4> QED  BY <4>1, <4>2
    <3>4. Spot(core')  BY <3>3 DEF Spot
    <3> QED  BY <1>2, <1>6, <2>1, <2>5, <2>8, <3>3, <3>4 DEF CoreMoves
  <2> QED  BY <2>7, <2>8
<1>7. CASE ~(param.valid /\ ~core.valid) /\ ~Pushed
  <2>1. core' = core  BY <1>1, <1>7 DEF TriangleCore, core_ready, Pushed
  <2> QED  BY <1>2, <1>7, <2>1 DEF CoreMoves, Pushed
<1> QED  BY <1>5, <1>6, <1>7

(* tile_fifo on an edge.                                                     *)
LEMMA TileMove ==
  ASSUME FrontTypes, CoreOk(accepted, param, core), NEW e, FrontEdge(e)
  PROVE  /\ TilesMove(accepted, tiles.items, tiles'.items, TileTaken, Pushed, core, tile_i)
         /\ tiles' \in Fifos(Tile)
         /\ TileTaken = 1 <=> tile_taken
<1>1. TileFifo  BY DEF FrontEdge, Clock
<1>2. tiles \in Fifos(Tile) /\ core \in [valid: BOOLEAN, n: Nat, tex: Nat, x: Nat, y: Nat]
  BY DEF FrontTypes
<1>3. tile_taken \in BOOLEAN /\ (tile_taken => tiles.valid_q)  BY <1>2 DEF tile_taken, Fifos
<1> DEFINE put == IF Pushed THEN <<tile_i>> ELSE <<>>
<1>4. Pushed => SameTile(tile_i, core) /\ TileOk(accepted, tile_i) /\ tile_i \in Tile
  <2> SUFFICES ASSUME Pushed PROVE SameTile(tile_i, core) /\ TileOk(accepted, tile_i) /\ tile_i \in Tile
    OBVIOUS
  <2>1. InFrame(accepted, core) /\ core.tex = core.n  BY DEF Pushed, CoreOk
  <2>2. accepted[core.n] \in Triangle  BY <2>1, ElementOfSeq DEF InFrame, FrontTypes
  <2>3. edge_at(P(core.n), core.x, core.y) = EdgesAt(accepted[core.n], core.x * TILE_WIDTH, core.y * TILE_HEIGHT)
    BY DEF edge_at, EdgesAt, EdgeAt, P, T
  <2>4. EdgesAt(accepted[core.n], core.x * TILE_WIDTH, core.y * TILE_HEIGHT) \in [Edges -> Int]
    <3>1. core.x * TILE_WIDTH \in Int /\ core.y * TILE_HEIGHT \in Int
      <4>1. core.x \in Nat /\ core.y \in Nat  BY <1>2
      <4> QED  BY <4>1, FrameFacts, SMT
    <3> QED  BY <2>2, <3>1, EdgesNextRow
  <2>5. /\ tile_i.n = core.n /\ tile_i.tex = core.tex /\ tile_i.x = core.x /\ tile_i.y = core.y
        /\ tile_i.e = edge_at(P(core.n), core.x, core.y)
        /\ tile_i.reject = reject(P(core.n), core.x, core.y)
    BY DEF tile_i
  <2>6. reject(P(core.n), core.x, core.y) \in BOOLEAN  BY DEF reject
  <2>7. tile_i \in Tile  BY <1>2, <2>3, <2>4, <2>6 DEF tile_i, Tile
  <2>8. TileOk(accepted, tile_i)
    <3>1. InFrame(accepted, tile_i)  BY <2>1, <2>5 DEF InFrame
    <3>2. P(core.n) = Setup[accepted[core.n]]  BY DEF P, T
    <3> QED  BY <2>1, <2>3, <2>5, <3>1, <3>2 DEF TileOk
  <2> QED  BY <2>5, <2>7, <2>8 DEF SameTile
<1>5. put \in Seq(Tile) /\ Len(put) = (IF Pushed THEN 1 ELSE 0) /\ Len(put) <= 1 /\ (Pushed => put[1] = tile_i)
  <2>1. CASE Pushed
    <3>1. put = <<tile_i>> /\ tile_i \in Tile  BY <1>4, <2>1
    <3> HIDE DEF put
    <3>2. put \in Seq(Tile) /\ Len(put) = 1 /\ put[1] = tile_i  BY <3>1
    <3> QED  BY <2>1, <3>2
  <2>2. CASE ~Pushed
    <3>1. put = <<>>  BY <2>2
    <3> HIDE DEF put
    <3> QED  BY <2>2, <3>1, EmptySeq
  <2> QED  BY <2>1, <2>2
<1>6. tiles' = FifoEdge(tiles, put, tile_taken)  BY <1>1 DEF TileFifo, Pushed
<1> HIDE DEF put
<1>7. tiles' \in Fifos(Tile) /\ Queue(Tile, tiles.items, tiles'.items, TileTaken, put)
  BY <1>2, <1>3, <1>5, <1>6, FifoStep DEF TileTaken
<1>8. TilesMove(accepted, tiles.items, tiles'.items, TileTaken, Pushed, core, tile_i)
  <2> DEFINE s == tiles.items
             s2 == tiles'.items
             b == TileTaken
             k == Len(put)
  <2>1. /\ b \in {0, 1} /\ Len(s) \in Nat /\ b <= Len(s)
        /\ DOMAIN s = 1 .. Len(s) /\ DOMAIN s2 = 1 .. Len(s) - b + k
        /\ \A i \in 1 .. Len(s) - b : s2[i] = s[i + b]
        /\ k = 1 => s2[Len(s) - b + 1] = put[1]
    BY <1>7 DEF Queue
  <2>2. k = IF Pushed THEN 1 ELSE 0  BY <1>5
  <2> HIDE DEF k, s, s2, b
  <2>3. TilesMove(accepted, s, s2, b, Pushed, core, tile_i)
    BY <1>4, <1>5, <2>1, <2>2 DEF TilesMove
  <2> QED  BY <2>3 DEF s, s2, b
<1>9. TileTaken = 1 <=> tile_taken  BY <1>3 DEF TileTaken, By
<1> QED  BY <1>7, <1>8, <1>9

(* The next row of the walk.                                                 *)
LEMMA NextRow ==
  ASSUME NEW line, NEW n, NEW tex, NEW x, NEW y, NEW f
  PROVE  NextLine([writing |-> TRUE, line |-> line, n |-> n, tex |-> tex, x |-> x, y |-> y, e |-> f])
           = [writing |-> TRUE, line |-> line + 1, n |-> n, tex |-> tex, x |-> x, y |-> y + 1,
              e |-> [i \in Edges |-> f[i] + Setup[accepted[n]].dx[i]]]
<1> DEFINE v == [writing |-> TRUE, line |-> line, n |-> n, tex |-> tex, x |-> x, y |-> y, e |-> f]
<1>1. v.n = n /\ v.e = f /\ v.line = line /\ v.y = y  OBVIOUS
<1>2. [i \in Edges |-> v.e[i] + P(v.n).dx[i]] = [i \in Edges |-> f[i] + Setup[accepted[n]].dx[i]]
  <2> HIDE DEF v
  <2> QED  BY <1>1 DEF P, T
<1> DEFINE g == [i \in Edges |-> f[i] + Setup[accepted[n]].dx[i]]
<1>3. NextLine(v) = [v EXCEPT !.line = line + 1, !.y = y + 1, !.e = g]
  <2> HIDE DEF v
  <2> QED  BY <1>1, <1>2 DEF NextLine
<1> HIDE DEF g
<1>4. NextLine(v) = [writing |-> TRUE, line |-> line + 1, n |-> n, tex |-> tex, x |-> x, y |-> y + 1, e |-> g]
  BY <1>3
<1> QED  BY <1>4 DEF g

(* line_fifo's walk on an edge.                                              *)
LEMMA WalkMove ==
  ASSUME FrontTypes, TilesOk(accepted, tiles.items, core, param),
         WalkOk(accepted, walk, tiles.items, core, param), NEW e, FrontEdge(e)
  PROVE  /\ WalkMoves(accepted, walk, walk', tiles.items, TileTaken, TheRow, line_pushed)
         /\ walk' \in [writing: BOOLEAN, line: Nat, n: Nat, tex: Nat, x: Nat, y: Nat, e: [Edges -> Int]]
         /\ RowAt(walk, tiles.items, TileTaken, TheRow) /\ ~walk.writing
              => Len(lineq.items) <= LineDepth - TILE_HEIGHT
<1> DEFINE Walk == [writing: BOOLEAN, line: Nat, n: Nat, tex: Nat, x: Nat, y: Nat, e: [Edges -> Int]]
           a == tiles.items[1]
           r == TheRow
<1>1. LineFifo(e.worker_ready)  BY DEF FrontEdge, Clock
<1>2. walk \in Walk /\ accepted \in Seq(Triangle) /\ tiles \in Fifos(Tile)  BY DEF FrontTypes
<1>3. TileTaken = 1 <=> tile_taken
  <2>1. tile_taken \in BOOLEAN  BY <1>2 DEF tile_taken, Fifos
  <2> QED  BY <2>1 DEF TileTaken, By
<1>4. tile_taken => tile_o = a /\ 1 \in DOMAIN tiles.items /\ a \in Tile
  <2>1. tile_taken => tiles.items # <<>> /\ tiles.items \in Seq(Tile)  BY <1>2 DEF tile_taken, Fifos
  <2>2. tile_taken => 1 \in DOMAIN tiles.items  BY <2>1, Lengths
  <2>3. tile_taken => Head(tiles.items) = a  BY <2>1
  <2> QED  BY <2>1, <2>2, <2>3, ElementOfSeq DEF tile_o, OutData
<1>5. /\ tile_starts => /\ tile_taken /\ ~a.reject /\ ~walk.writing
                        /\ Len(lineq.items) <= LineDepth - TILE_HEIGHT
      /\ tile_taken /\ ~a.reject => tile_starts
  BY <1>4 DEF tile_starts, tile_taken, tile_out_ready, line_fifo_ready
<1>6. walk.writing \/ tile_starts <=> RowAt(walk, tiles.items, TileTaken, r)
  <2>1. CASE tile_starts
    <3>1. r = [line |-> 0, n |-> a.n, tex |-> a.tex, x |-> a.x, y |-> a.y * TILE_HEIGHT, e |-> a.e]
      BY <2>1 DEF TheRow
    <3> QED  BY <1>3, <1>5, <2>1, <3>1 DEF RowAt
  <2>2. CASE ~tile_starts
    <3>1. r = [line |-> walk.line, n |-> walk.n, tex |-> walk.tex, x |-> walk.x, y |-> walk.y, e |-> walk.e]
      BY <2>2 DEF TheRow
    <3>2. TileTaken = 1 => a.reject  BY <1>3, <1>5, <2>2
    <3> QED  BY <2>2, <3>1, <3>2 DEF RowAt
  <2> QED  BY <2>1, <2>2
<1>7. ASSUME walk.writing \/ tile_starts
      PROVE  /\ r.n = current.n /\ r.tex = current.tex /\ r.x = current.x /\ r.y = current.y /\ r.e = current.e
             /\ r.line \in 0 .. TILE_HEIGHT - 1 /\ r.n \in Nat /\ r.tex \in Nat /\ r.x \in Nat /\ r.y \in Nat
             /\ r.e \in [Edges -> Int] /\ accepted[r.n] \in Triangle
  <2>1. CASE tile_starts
    <3>1. r = [line |-> 0, n |-> a.n, tex |-> a.tex, x |-> a.x, y |-> a.y * TILE_HEIGHT, e |-> a.e]
      BY <2>1 DEF TheRow
    <3>2. current = [n |-> a.n, tex |-> a.tex, x |-> a.x, y |-> a.y * TILE_HEIGHT, e |-> a.e]
      BY <1>4, <1>5, <2>1 DEF current
    <3>3. a \in Tile /\ InFrame(accepted, a)  BY <1>4, <1>5, <2>1 DEF TilesOk, TileOk
    <3>4. a.n \in Nat /\ a.tex \in Nat /\ a.x \in Nat /\ a.y \in Nat /\ a.e \in [Edges -> Int]
      BY <3>3 DEF Tile
    <3>5. accepted[a.n] \in Triangle  BY <1>2, <3>3, ElementOfSeq DEF InFrame
    <3>6. a.y * TILE_HEIGHT \in Nat /\ 0 \in 0 .. TILE_HEIGHT - 1  BY <3>4, FrameFacts, SMT
    <3> HIDE DEF r, a
    <3> QED  BY <3>1, <3>2, <3>4, <3>5, <3>6
  <2>2. CASE ~tile_starts /\ walk.writing
    <3>1. /\ r = [line |-> walk.line, n |-> walk.n, tex |-> walk.tex, x |-> walk.x, y |-> walk.y, e |-> walk.e]
          /\ current = [n |-> walk.n, tex |-> walk.tex, x |-> walk.x, y |-> walk.y, e |-> walk.e]
      BY <2>2 DEF TheRow, current
    <3>2. InFrame(accepted, TileOf(walk)) /\ walk.line \in 1 .. TILE_HEIGHT - 1  BY <2>2 DEF WalkOk
    <3>3. accepted[walk.n] \in Triangle  BY <1>2, <3>2, ElementOfSeq DEF InFrame, TileOf
    <3>4. walk.line \in 0 .. TILE_HEIGHT - 1  BY <3>2, FrameFacts
    <3> HIDE DEF r
    <3> QED  BY <1>2, <3>1, <3>3, <3>4
  <2> QED  BY <1>7, <2>1, <2>2
<1>8. line_pushed = IF walk.writing \/ tile_starts THEN RowLine(accepted, r) ELSE <<>>
  <2>1. CASE walk.writing \/ tile_starts
    <3>1. line_mask = RowMask(accepted, r)  BY <1>7, <2>1 DEF line_mask, RowMask, P, T
    <3> QED  BY <1>7, <2>1, <3>1 DEF line_pushed, RowLine
  <2>2. CASE ~(walk.writing \/ tile_starts)  BY <2>2 DEF line_pushed
  <2> QED  BY <2>1, <2>2
<1> DEFINE w2 == [writing |-> TRUE, line |-> r.line + 1, n |-> r.n, tex |-> r.tex, x |-> r.x, y |-> r.y + 1,
                  e |-> [i \in Edges |-> r.e[i] + Setup[accepted[r.n]].dx[i]]]
<1>9. /\ ~(walk.writing \/ tile_starts) => walk' = walk
      /\ walk.writing \/ tile_starts =>
           walk' = IF r.line = TILE_HEIGHT - 1 THEN [walk EXCEPT !.writing = FALSE] ELSE w2
  <2>1. CASE tile_starts
    <3>1. /\ r.line = 0 /\ current = [n |-> r.n, tex |-> r.tex, x |-> r.x, y |-> r.y, e |-> r.e]
      BY <1>4, <1>5, <2>1 DEF TheRow, current
    <3>2. walk' = NextLine([writing |-> TRUE, line |-> 0, n |-> current.n, tex |-> current.tex,
                            x |-> current.x, y |-> current.y, e |-> current.e])
      BY <1>1, <2>1 DEF LineFifo
    <3>3. walk' = w2
      <4> DEFINE v == [writing |-> TRUE, line |-> 0, n |-> r.n, tex |-> r.tex, x |-> r.x, y |-> r.y, e |-> r.e]
      <4>1. walk' = NextLine(v)  BY <3>1, <3>2
      <4>2. NextLine(v) = w2
        <5> HIDE DEF r
        <5>1. NextLine(v) = [writing |-> TRUE, line |-> 0 + 1, n |-> r.n, tex |-> r.tex, x |-> r.x, y |-> r.y + 1,
                             e |-> [i \in Edges |-> r.e[i] + Setup[accepted[r.n]].dx[i]]]
          BY NextRow
        <5> QED  BY <3>1, <5>1
      <4> QED  BY <4>1, <4>2
    <3>4. ~(r.line = TILE_HEIGHT - 1)  BY <3>1, FrameFacts
    <3> QED  BY <2>1, <3>3, <3>4
  <2>2. CASE ~tile_starts /\ walk.writing
    <3>1. r = [line |-> walk.line, n |-> walk.n, tex |-> walk.tex, x |-> walk.x, y |-> walk.y, e |-> walk.e]
      BY <2>2 DEF TheRow
    <3>2. walk' = IF walk.line = TILE_HEIGHT - 1 THEN [walk EXCEPT !.writing = FALSE] ELSE NextLine(walk)
      BY <1>1, <2>2 DEF LineFifo, walk_ends
    <3>3. NextLine(walk) = w2
      <4>1. walk = [writing |-> TRUE, line |-> walk.line, n |-> walk.n, tex |-> walk.tex, x |-> walk.x,
                    y |-> walk.y, e |-> walk.e]
        BY <1>2, <2>2
      <4> DEFINE v == [writing |-> TRUE, line |-> r.line, n |-> r.n, tex |-> r.tex, x |-> r.x, y |-> r.y, e |-> r.e]
      <4>2. walk = v  BY <3>1, <4>1
      <4>3. NextLine(v) = w2
        <5> HIDE DEF r
        <5> QED  BY NextRow
      <4> HIDE DEF v, w2
      <4> QED  BY <4>2, <4>3
    <3>4. r.line = walk.line  BY <3>1
    <3> HIDE DEF w2, r
    <3> QED  BY <2>2, <3>2, <3>3, <3>4
  <2>3. CASE ~tile_starts /\ ~walk.writing  BY <1>1, <2>3 DEF LineFifo
  <2> QED  BY <2>1, <2>2, <2>3
<1>10. WalkMoves(accepted, walk, walk', tiles.items, TileTaken, r, line_pushed)
  <2>1. CASE walk.writing \/ tile_starts
    <3>1. IF r.line = TILE_HEIGHT - 1 THEN ~walk'.writing
          ELSE /\ walk'.writing /\ walk'.line = r.line + 1 /\ walk'.n = r.n /\ walk'.tex = r.tex
               /\ walk'.x = r.x /\ walk'.y = r.y + 1
               /\ walk'.e = [i \in Edges |-> r.e[i] + Setup[accepted[r.n]].dx[i]]
      <4>1. CASE r.line = TILE_HEIGHT - 1
        <5>1. walk' = [walk EXCEPT !.writing = FALSE]  BY <1>9, <2>1, <4>1
        <5> QED  BY <1>2, <4>1, <5>1
      <4>2. CASE r.line # TILE_HEIGHT - 1
        <5>1. walk' = w2  BY <1>9, <2>1, <4>2
        <5> HIDE DEF r
        <5> QED  BY <4>2, <5>1
      <4> QED  BY <4>1, <4>2
    <3>2. line_pushed = RowLine(accepted, r)  BY <1>8, <2>1
    <3> HIDE DEF r
    <3> QED  BY <1>6, <2>1, <3>1, <3>2 DEF WalkMoves
  <2>2. CASE ~(walk.writing \/ tile_starts)
    <3>1. TileTaken = 1 => tiles.items[1].reject  BY <1>3, <1>5, <2>2
    <3>2. walk' = walk /\ line_pushed = <<>> /\ ~walk.writing  BY <1>8, <1>9, <2>2
    <3> HIDE DEF r
    <3> QED  BY <3>1, <3>2 DEF WalkMoves
  <2> QED  BY <2>1, <2>2
<1>11. walk' \in Walk
  <2>1. CASE ~(walk.writing \/ tile_starts)  BY <1>2, <1>9, <2>1
  <2>2. CASE walk.writing \/ tile_starts
    <3>1. \A i \in Edges : r.e[i] + Setup[accepted[r.n]].dx[i] \in Int
      <4> TAKE i \in Edges
      <4>1. r.e \in [Edges -> Int] /\ accepted[r.n] \in Triangle  BY <1>7, <2>2
      <4> HIDE DEF r
      <4>2. r.e[i] \in Int /\ Setup[accepted[r.n]].dx[i] \in Int  BY <4>1, SetupOf
      <4> QED  BY <4>2
    <3>2. r.line \in Nat /\ r.n \in Nat /\ r.tex \in Nat /\ r.x \in Nat /\ r.y \in Nat
      <4>1. r.line \in 0 .. TILE_HEIGHT - 1 /\ r.n \in Nat /\ r.tex \in Nat /\ r.x \in Nat /\ r.y \in Nat
        BY <1>7, <2>2
      <4> HIDE DEF r
      <4> QED  BY <4>1
    <3>3. w2 \in Walk
      <4> HIDE DEF r
      <4> QED  BY <3>1, <3>2
    <3>4. [walk EXCEPT !.writing = FALSE] \in Walk  BY <1>2
    <3> HIDE DEF w2, Walk, r
    <3> QED  BY <1>9, <2>2, <3>3, <3>4
  <2> QED  BY <2>1, <2>2
<1>12. RowAt(walk, tiles.items, TileTaken, r) /\ ~walk.writing => Len(lineq.items) <= LineDepth - TILE_HEIGHT
  BY <1>5, <1>6
<1> QED  BY <1>10, <1>11, <1>12

(* Lines taken from one queue into another, with one pushed: all together    *)
(* they grow by that one.                                                    *)
LEMMA Through ==
  ASSUME NEW S, NEW a \in Seq(S), NEW q \in Seq(S), NEW q2 \in Seq(S), NEW take \in BOOLEAN,
         NEW put \in Seq(S), Queue(S, q, q2, By(take), put)
  PROVE  LET a2 == IF take THEN Append(a, Head(q)) ELSE a
         IN  a2 \in Seq(S) /\ MadeMoves(a \o q, a2 \o q2, put)
<1> DEFINE b == By(take)
           a2 == IF take THEN Append(a, Head(q)) ELSE a
           n == Len(a)
           N == Len(q)
           k == Len(put)
<1>1. /\ n \in Nat /\ N \in Nat /\ k \in {0, 1} /\ b \in {0, 1} /\ b <= N /\ Len(q2) = N - b + k
      /\ \A i \in 1 .. N - b : q2[i] = q[i + b]
      /\ k = 1 => q2[N - b + 1] = put[1]
      /\ b = 1 => Head(q) = q[1] /\ q[1] \in S
  <2>1. n \in Nat  BY Lengths
  <2> QED  BY <2>1 DEF Queue
<1>2. /\ a \o q \in Seq(S) /\ Len(a \o q) = n + N /\ DOMAIN (a \o q) = 1 .. n + N
      /\ \A i \in 1 .. n + N : (a \o q)[i] = IF i <= n THEN a[i] ELSE q[i - n]
  <2>1. /\ a \o q \in Seq(S) /\ Len(a \o q) = n + N
        /\ \A i \in 1 .. n + N : (a \o q)[i] = IF i <= n THEN a[i] ELSE q[i - n]
    BY ConcatProperties
  <2> QED  BY <2>1, Lengths
<1>3. a2 \in Seq(S) /\ Len(a2) = n + b /\ (\A i \in 1 .. n : a2[i] = a[i]) /\ (b = 1 => a2[n + 1] = q[1])
  <2>1. CASE take
    <3>1. b = 1 /\ Head(q) \in S /\ Head(q) = q[1]  BY <1>1, <2>1 DEF By
    <3>2. /\ Append(a, Head(q)) \in Seq(S) /\ Len(Append(a, Head(q))) = n + 1
          /\ \A i \in 1 .. n : Append(a, Head(q))[i] = a[i]
          /\ Append(a, Head(q))[n + 1] = Head(q)
      BY <3>1, AppendProperties
    <3> QED  BY <2>1, <3>1, <3>2
  <2>2. CASE ~take
    <3>1. b = 0 /\ a2 = a  BY <2>2 DEF By
    <3> HIDE DEF a2, b
    <3> QED  BY <1>1, <3>1
  <2> QED  BY <2>1, <2>2
<1> HIDE DEF a2, b
<1>4. /\ Len(a2 \o q2) = n + b + (N - b + k) /\ a2 \o q2 \in Seq(S)
      /\ \A i \in 1 .. n + b + (N - b + k) : (a2 \o q2)[i] = IF i <= n + b THEN a2[i] ELSE q2[i - (n + b)]
  <2>1. /\ Len(a2 \o q2) = Len(a2) + Len(q2) /\ a2 \o q2 \in Seq(S)
        /\ \A i \in 1 .. Len(a2) + Len(q2) :
             (a2 \o q2)[i] = IF i <= Len(a2) THEN a2[i] ELSE q2[i - Len(a2)]
    BY <1>3, ConcatProperties
  <2>2. Len(a2) = n + b /\ Len(q2) = N - b + k  BY <1>1, <1>3
  <2> HIDE DEF n, N, k
  <2> QED  BY <2>1, <2>2
<1>5. DOMAIN (a2 \o q2) = 1 .. Len(a2 \o q2)  BY <1>4, Lengths
<1> DEFINE m == a \o q
           m2 == a2 \o q2
<1> HIDE DEF n, N, k, m, m2
<1>6. n + b + (N - b + k) = n + N + k  BY <1>1
<1>7. ASSUME NEW i \in 1 .. n + N PROVE m2[i] = m[i]
  <2>1. i \in 1 .. n + b + (N - b + k)  BY <1>1, <1>6
  <2>2. m2[i] = IF i <= n + b THEN a2[i] ELSE q2[i - (n + b)]  BY <1>4, <2>1 DEF m2
  <2>3. m[i] = IF i <= n THEN a[i] ELSE q[i - n]  BY <1>2 DEF m
  <2>4. CASE i <= n
    <3>1. i <= n + b /\ i \in 1 .. n  BY <1>1, <2>4
    <3> QED  BY <1>3, <2>2, <2>3, <2>4, <3>1
  <2>5. CASE ~(i <= n) /\ i <= n + b
    <3>1. b = 1 /\ i = n + 1 /\ i - n = 1  BY <1>1, <2>5
    <3> QED  BY <1>3, <2>2, <2>3, <2>5, <3>1
  <2>6. CASE ~(i <= n + b)
    <3>1. i - (n + b) \in 1 .. N - b /\ (i - (n + b)) + b = i - n /\ ~(i <= n)  BY <1>1, <2>6
    <3> QED  BY <1>1, <2>2, <2>3, <2>6, <3>1
  <2> QED  BY <2>4, <2>5, <2>6
<1>8. k = 1 => m2[n + N + 1] = put[1]
  <2> SUFFICES ASSUME k = 1 PROVE m2[n + N + 1] = put[1]  OBVIOUS
  <2>1. n + N + 1 \in 1 .. n + b + (N - b + k) /\ ~(n + N + 1 <= n + b) /\ (n + N + 1) - (n + b) = N - b + 1
    BY <1>1
  <2>2. m2[n + N + 1] = q2[(n + N + 1) - (n + b)]  BY <1>4, <2>1 DEF m2
  <2> QED  BY <1>1, <2>1, <2>2
<1>9. Len(m) = n + N /\ DOMAIN m = 1 .. n + N /\ DOMAIN m2 = 1 .. n + N + k /\ n + N \in Nat /\ Len(put) = k
  BY <1>1, <1>2, <1>4, <1>5, <1>6 DEF m, m2, k
<1>10. MadeMoves(m, m2, put)  BY <1>1, <1>7, <1>8, <1>9 DEF MadeMoves
<1> QED  BY <1>3, <1>10 DEF m, m2, a2

(* A line of an accepted triangle is one of line_fifo's.                     *)
LEMMA LineType ==
  ASSUME accepted \in Seq(Triangle), NEW l, LineOk(accepted, l)
  PROVE  l \in FrontLine
<1>1. /\ l.n \in 1 .. Len(accepted) /\ Column(l.x) /\ l.y \in 0 .. FRAME_HEIGHT - 1
      /\ l = [n |-> l.n, tex |-> l.n, x |-> l.x, y |-> l.y, mask |-> LineMask(accepted[l.n], l.x, l.y)]
  BY DEF LineOk, InFrame, TileOf
<1>2. l.n \in Nat /\ l.x \in Nat /\ l.y \in Nat
  BY <1>1, FrameFacts DEF Column
<1>3. LineMask(accepted[l.n], l.x, l.y) \in SUBSET (0 .. TILE_WIDTH - 1)  BY DEF LineMask
<1> DEFINE k == LineMask(accepted[l.n], l.x, l.y)
<1>4. l = [n |-> l.n, tex |-> l.n, x |-> l.x, y |-> l.y, mask |-> k]  BY <1>1
<1> HIDE DEF k
<1>5. [n |-> l.n, tex |-> l.n, x |-> l.x, y |-> l.y, mask |-> k] \in FrontLine  BY <1>2, <1>3 DEF FrontLine, k
<1> QED  BY <1>4, <1>5

(* line_fifo's queue on an edge: what the walk pushes is accepted.           *)
LEMMA LineMove ==
  ASSUME FrontTypes, Grows(accepted, accepted'), NEW e, FrontEdge(e),
         WalkOk(accepted, walk, tiles.items, core, param), RoomFor(Len(lineq.items), walk),
         WalkMoves(accepted, walk, walk', tiles.items, TileTaken, TheRow, line_pushed),
         RowAt(walk, tiles.items, TileTaken, TheRow) /\ ~walk.writing
           => Len(lineq.items) <= LineDepth - TILE_HEIGHT,
         RowAt(walk, tiles.items, TileTaken, TheRow) => RowOk(accepted, TheRow)
  PROVE  /\ lineq' \in Fifos(FrontLine) /\ sent' \in Seq(FrontLine)
         /\ MadeMoves(made, made', line_pushed)
         /\ RoomFor(Len(lineq'.items), walk')
<1> DEFINE put == line_pushed
           q == lineq.items
           q2 == lineq'.items
           take == lineq.valid_q /\ e.worker_ready
<1>1. /\ LineFifo(e.worker_ready) /\ e.worker_ready \in BOOLEAN
      /\ sent' = IF take THEN Append(sent, OutData(lineq)) ELSE sent
  BY DEF FrontEdge, Clock, Input
<1>2. lineq \in Fifos(FrontLine) /\ sent \in Seq(FrontLine) /\ accepted \in Seq(Triangle)
  BY DEF FrontTypes
<1>3. take \in BOOLEAN /\ (take => lineq.valid_q) /\ q \in Seq(FrontLine)  BY <1>1, <1>2 DEF Fifos
<1>4. Len(put) \in {0, 1} /\ put \in Seq(FrontLine)
  <2>1. CASE put = <<>>
    <3> HIDE DEF put
    <3> QED  BY <2>1, EmptySeq
  <2>2. CASE put # <<>>
    <3>1. RowAt(walk, tiles.items, TileTaken, TheRow) /\ put = RowLine(accepted, TheRow)
      BY <2>2 DEF WalkMoves
    <3>2. RowOk(accepted, TheRow)  BY <3>1
    <3> DEFINE l == TheLine(accepted, TheRow)
    <3>3. put = <<l>> /\ LineOk(accepted, l)  BY <2>2, <3>1, <3>2, RowPushes
    <3>4. l \in FrontLine  BY <1>2, <3>3, LineType
    <3> HIDE DEF l, put
    <3> QED  BY <3>3, <3>4
  <2> QED  BY <2>1, <2>2
<1> HIDE DEF put
<1>5. Len(q) \in Nat /\ Len(put) <= 1
  <2>1. Len(put) <= 1
    <3> DEFINE k == Len(put)
    <3>1. k \in {0, 1}  BY <1>4
    <3> HIDE DEF k
    <3>2. k <= 1  BY <3>1
    <3> QED  BY <3>2 DEF k
  <2> QED  BY <1>3, <2>1, Lengths
<1>6. RowAt(walk, tiles.items, TileTaken, TheRow) => Len(q) < LineDepth
  <2>1. Len(q) <= Len(q) + Len(put)  BY <1>4, <1>5
  <2> HIDE DEF q
  <2>2. RoomFor(Len(q), walk)  BY DEF q
  <2> DEFINE n == Len(q)
  <2>3. n \in Nat /\ n <= n + Len(put) /\ RoomFor(n, walk)  BY <1>5, <2>1, <2>2
  <2>4. RowAt(walk, tiles.items, TileTaken, TheRow) /\ ~walk.writing => n <= LineDepth - TILE_HEIGHT  BY DEF q
  <2> HIDE DEF n
  <2>5. RowAt(walk, tiles.items, TileTaken, TheRow) => n < LineDepth
    BY <1>4, <2>3, <2>4, RoomStep DEF put
  <2> QED  BY <2>5 DEF n
<1>7. lineq' = FifoEdge(lineq, put, take)
  <2>1. lineq' = FifoEdge(lineq, IF InReady(lineq, LineDepth, e.worker_ready) THEN put ELSE <<>>, take)
    BY <1>1 DEF LineFifo, put
  <2>2. CASE RowAt(walk, tiles.items, TileTaken, TheRow)
    <3>1. InReady(lineq, LineDepth, e.worker_ready)  BY <1>6, <2>2 DEF InReady
    <3> QED  BY <2>1, <3>1
  <2>3. CASE ~RowAt(walk, tiles.items, TileTaken, TheRow)
    <3>1. put = <<>>  BY <2>3 DEF WalkMoves, put
    <3> QED  BY <2>1, <3>1
  <2> QED  BY <2>2, <2>3
<1>8. lineq' \in Fifos(FrontLine) /\ Queue(FrontLine, q, q2, By(take), put)
  BY <1>2, <1>3, <1>4, <1>5, <1>7, FifoStep
<1>9. q2 \in Seq(FrontLine)  BY <1>8 DEF Fifos
<1>10. sent' \in Seq(FrontLine) /\ MadeMoves(made, made', put)
  <2>1. sent' = IF take THEN Append(sent, Head(q)) ELSE sent  BY <1>1 DEF OutData
  <2>2. made = sent \o q /\ made' = sent' \o q2  BY DEF made
  <2> HIDE DEF take, q, q2
  <2> QED  BY <1>2, <1>3, <1>4, <1>8, <1>9, <2>1, <2>2, Through
<1>11. RoomFor(Len(q2), walk')
  <2> DEFINE n == Len(q)
             n2 == Len(q2)
  <2>1. n2 = n - By(take) + Len(put) /\ By(take) \in {0, 1} /\ By(take) <= n  BY <1>8 DEF Queue
  <2>2. n \in Nat /\ n2 \in Nat /\ n2 <= n + Len(put)
    <3> DEFINE k == Len(put)
               b == By(take)
    <3>1. n2 = n - b + k /\ b \in {0, 1} /\ b <= n /\ n \in Nat /\ k \in {0, 1}  BY <1>4, <1>5, <2>1
    <3> HIDE DEF k, b, n, n2
    <3>2. n \in Nat /\ n2 \in Nat /\ n2 <= n + k  BY <3>1
    <3> QED  BY <3>2 DEF k
  <2>3. /\ RoomFor(n, walk)
        /\ RowAt(walk, tiles.items, TileTaken, TheRow) /\ ~walk.writing => n <= LineDepth - TILE_HEIGHT
    OBVIOUS
  <2> HIDE DEF n, n2, q, q2, take
  <2>4. RoomFor(n2, walk')  BY <1>4, <2>2, <2>3, RoomStep DEF put
  <2> QED  BY <2>4 DEF n2
<1> QED  BY <1>8, <1>10, <1>11 DEF put

-------------------------------------------------------------------------------
(* The invariant. *)

(* It holds in reset.                                                        *)
LEMMA FrontStarts ==
  ASSUME Init
  PROVE  FrontInv
<1> USE DEF Init
<1>1. tiles = EmptyFifo /\ lineq = EmptyFifo /\ tiles.items = <<>> /\ lineq.items = <<>>
      /\ tiles.valid_q = FALSE /\ lineq.valid_q = FALSE
  BY DEF EmptyFifo
<1>2. ~param.busy /\ ~param.valid /\ param.state = "E" /\ texture = None /\ ~core.valid /\ ~walk.writing
  BY DEF NoWalk
<1>3. made = <<>> /\ Len(made) = 0 /\ DOMAIN made = {} /\ DOMAIN tiles.items = {} /\ Len(lineq.items) = 0
      /\ Len(accepted) = 0
  BY <1>1, EmptySeq DEF made
<1>4. FrontTypes
  <2>1. <<>> \in Offer  BY DEF Offer
  <2>2. walk \in [writing: BOOLEAN, line: Nat, n: Nat, tex: Nat, x: Nat, y: Nat, e: [Edges -> Int]]
    BY DEF NoWalk, None
  <2>3. EmptyFifo \in Fifos(Tile) /\ EmptyFifo \in Fifos(FrontLine)  BY EmptySeq DEF EmptyFifo, Fifos
  <2>4. accepted \in Seq(Triangle) /\ sent \in Seq(FrontLine)  BY EmptySeq
  <2> QED  BY <1>1, <2>1, <2>2, <2>3, <2>4 DEF FrontTypes, None
<1>5. ParamOk(accepted, param, texture)  BY <1>2 DEF ParamOk
<1>6. CoreOk(accepted, param, core)  BY <1>2 DEF CoreOk
<1>7. TilesOk(accepted, tiles.items, core, param)  BY <1>3 DEF TilesOk
<1>8. WalkOk(accepted, walk, tiles.items, core, param)  BY <1>2 DEF WalkOk
<1>9. RoomFor(Len(lineq.items), walk)
  <2>1. 0 + 0 <= LineDepth  BY FrameFacts
  <2> QED  BY <1>2, <1>3, <2>1 DEF RoomFor
<1>10. MadeOk(accepted, made, walk, tiles.items, core, param)  BY <1>3 DEF MadeOk
<1>11. CompleteOk(accepted, made, walk, tiles.items, core, param)
  <2> SUFFICES ASSUME NEW l, LineOk(accepted, l) PROVE FALSE  BY DEF CompleteOk
  <2>1. l.n \in 1 .. 0  BY <1>3 DEF LineOk, InFrame, TileOf
  <2> QED  BY <2>1
<1> QED  BY <1>4, <1>5, <1>6, <1>7, <1>8, <1>9, <1>10, <1>11 DEF FrontInv

(* An edge of the clock keeps it.                                            *)
LEMMA FrontEdgeKeeps ==
  ASSUME FrontInv, NEW e, FrontEdge(e)
  PROVE  FrontInv'
<1>1. /\ FrontTypes /\ ParamOk(accepted, param, texture) /\ CoreOk(accepted, param, core)
      /\ TilesOk(accepted, tiles.items, core, param)
      /\ WalkOk(accepted, walk, tiles.items, core, param) /\ RoomFor(Len(lineq.items), walk)
      /\ MadeOk(accepted, made, walk, tiles.items, core, param)
      /\ CompleteOk(accepted, made, walk, tiles.items, core, param)
  BY DEF FrontInv
<1>2. /\ vertex' \in Offer /\ software' \in Offer /\ accepted' \in Seq(Triangle)
      /\ Grows(accepted, accepted')
  BY <1>1, Accepting
<1>3. /\ ParamMoves(accepted, accepted', param, param', core)
      /\ ParamOk(accepted', param', texture')
      /\ texture' \in Nat
      /\ param' \in [state: {"E", "AREA", "ATTR"}, n: Nat, busy: BOOLEAN, valid: BOOLEAN, tex: Nat,
                     tex_valid: BOOLEAN]
  BY <1>1, ParamStep
<1>4. /\ CoreMoves(accepted, param, core, core', Pushed)
      /\ core' \in [valid: BOOLEAN, n: Nat, tex: Nat, x: Nat, y: Nat]
  BY <1>1, CoreMove
<1>5. /\ TilesMove(accepted, tiles.items, tiles'.items, TileTaken, Pushed, core, tile_i)
      /\ tiles' \in Fifos(Tile)
  BY <1>1, TileMove
<1>6. /\ WalkMoves(accepted, walk, walk', tiles.items, TileTaken, TheRow, line_pushed)
      /\ walk' \in [writing: BOOLEAN, line: Nat, n: Nat, tex: Nat, x: Nat, y: Nat, e: [Edges -> Int]]
      /\ RowAt(walk, tiles.items, TileTaken, TheRow) /\ ~walk.writing
           => Len(lineq.items) <= LineDepth - TILE_HEIGHT
  BY <1>1, WalkMove
<1>7. RowAt(walk, tiles.items, TileTaken, TheRow) => RowOk(accepted, TheRow)
  BY <1>1, <1>2, <1>3, <1>4, <1>5, RowInPlace DEF RowPlace
<1>8. /\ lineq' \in Fifos(FrontLine) /\ sent' \in Seq(FrontLine)
      /\ MadeMoves(made, made', line_pushed)
      /\ RoomFor(Len(lineq'.items), walk')
  BY <1>1, <1>2, <1>6, <1>7, LineMove
<1>9. FrontTypes'  BY <1>2, <1>3, <1>4, <1>5, <1>6, <1>8 DEF FrontTypes
<1>10. CoreOk(accepted', param', core')  BY <1>1, <1>2, <1>3, <1>4, CoreStep
<1>11. TilesOk(accepted', tiles'.items, core', param')
  BY <1>1, <1>2, <1>3, <1>4, <1>5, TilesStep
<1>12. WalkOk(accepted', walk', tiles'.items, core', param')
  BY <1>1, <1>2, <1>3, <1>4, <1>5, <1>6, WalkStep
<1>13. MadeOk(accepted', made', walk', tiles'.items, core', param')
  BY <1>1, <1>2, <1>3, <1>4, <1>5, <1>6, <1>8, MadeStep
<1>14. CompleteOk(accepted', made', walk', tiles'.items, core', param')
  BY <1>1, <1>2, <1>3, <1>4, <1>5, <1>6, <1>8, CompleteStep
<1> QED  BY <1>3, <1>8, <1>9, <1>10, <1>11, <1>12, <1>13, <1>14 DEF FrontInv

(***************************************************************************)
(* The state of the front end fits together: the lookup is that of the     *)
(* triangle in triangle_param, the stages hold later and later tiles from  *)
(* the lines made back to triangle_param, there is room for the rest of    *)
(* the tile in the FIFO whose in_ready is not connected                    *)
(* (line_fifo.sv:56, 146), the lines made are in order, and each line not  *)
(* made yet is still in front of a stage.                                  *)
(***************************************************************************)
THEOREM FrontInvariant == Spec => []FrontInv
<1>1. Init => FrontInv  BY FrontStarts
<1>2. FrontInv /\ [Next]_vars => FrontInv'
  <2>1. ASSUME FrontInv, Next PROVE FrontInv'
    <3>1. PICK e : FrontEdge(e)  BY <2>1, StepIsEdge
    <3> QED  BY <2>1, <3>1, FrontEdgeKeeps
  <2>2. ASSUME FrontInv, UNCHANGED vars PROVE FrontInv'
    <3>1. /\ vertex' = vertex /\ software' = software /\ param' = param /\ texture' = texture
          /\ core' = core /\ tiles' = tiles /\ walk' = walk /\ lineq' = lineq
          /\ accepted' = accepted /\ sent' = sent
      BY <2>2 DEF vars
    <3>2. made' = made  BY <3>1 DEF made
    <3> QED  BY <2>2, <3>1, <3>2 DEF FrontInv, FrontTypes
  <2> QED  BY <2>1, <2>2
<1> QED  BY <1>1, <1>2, PTL DEF Spec

(* The lines there are.                                                      *)
LEMMA LinesAre ==
  ASSUME FrontTypes, NEW l
  PROVE  l \in AllLines <=> LineOk(accepted, l)
<1>1. accepted \in Seq(Triangle)  BY DEF FrontTypes
<1>2. DOMAIN accepted = 1 .. Len(accepted) /\ Len(accepted) \in Nat  BY <1>1, Lengths
<1>3. ASSUME NEW n \in 1 .. Len(accepted)
      PROVE  LinesOf[T(n)] = {k \in {[x |-> x, y |-> y, mask |-> LineMask(accepted[n], x, y)] :
                                      x \in 0 .. TilesX - 1, y \in 0 .. FRAME_HEIGHT - 1} : k.mask # {}}
  <2>1. accepted[n] \in Triangle  BY <1>1, <1>3, ElementOfSeq
  <2> QED  BY <2>1 DEF LinesOf, T
<1>4. ASSUME l \in AllLines PROVE LineOk(accepted, l)
  <2>1. PICK n \in DOMAIN accepted : l \in {LineFor(n, k) : k \in LinesOf[T(n)]}  BY <1>4 DEF AllLines
  <2>2. PICK k \in LinesOf[T(n)] : l = LineFor(n, k)  BY <2>1
  <2>3. PICK x \in 0 .. TilesX - 1, y \in 0 .. FRAME_HEIGHT - 1 :
          k = [x |-> x, y |-> y, mask |-> LineMask(accepted[n], x, y)] /\ k.mask # {}
    BY <1>2, <1>3, <2>1, <2>2
  <2>4. l = [n |-> n, tex |-> n, x |-> x, y |-> y, mask |-> LineMask(accepted[n], x, y)]
    BY <2>2, <2>3 DEF LineFor
  <2>5. l.n = n /\ l.x = x /\ l.y = y /\ l.mask # {}  BY <2>3, <2>4
  <2>6. Row(l.y) \in 0 .. TilesY - 1  BY <2>5, RowInFrame
  <2>7. InFrame(accepted, TileOf(l))  BY <1>2, <2>1, <2>5, <2>6 DEF InFrame, TileOf, Column
  <2> QED  BY <2>4, <2>5, <2>7 DEF LineOk
<1>5. ASSUME LineOk(accepted, l) PROVE l \in AllLines
  <2>1. /\ l.n \in 1 .. Len(accepted) /\ l.x \in 0 .. TilesX - 1 /\ l.y \in 0 .. FRAME_HEIGHT - 1
        /\ l = [n |-> l.n, tex |-> l.n, x |-> l.x, y |-> l.y, mask |-> LineMask(accepted[l.n], l.x, l.y)]
        /\ l.mask # {}
    BY <1>5 DEF LineOk, InFrame, TileOf, Column
  <2> DEFINE k == [x |-> l.x, y |-> l.y, mask |-> LineMask(accepted[l.n], l.x, l.y)]
  <2>2. l.mask = LineMask(accepted[l.n], l.x, l.y)  BY <2>1
  <2>3. k.mask # {}  BY <2>1, <2>2
  <2>4. k \in LinesOf[T(l.n)]  BY <1>3, <2>1, <2>3
  <2>5. l = LineFor(l.n, k)  BY <2>1 DEF LineFor
  <2> HIDE DEF k
  <2> QED  BY <1>2, <2>1, <2>4, <2>5 DEF AllLines
<1> QED  BY <1>4, <1>5

(* A line before one that is made is made.                                   *)
LEMMA NotWaiting ==
  ASSUME FrontInv, NEW l, LineOk(accepted, l), NEW i \in DOMAIN made, LineBefore(l, made[i])
  PROVE  ~Waits(l, walk, tiles.items, core, param)
<1> DEFINE d == made[i]
<1>1. /\ LineOk(accepted, d) /\ BeforeTiles(TileOf(d), tiles.items, core, param)
      /\ walk.writing => LineBefore(d, walk)
  BY DEF FrontInv, MadeOk
<1>2. accepted \in Seq(Triangle) /\ Grows(accepted, accepted)
  <2>1. accepted \in Seq(Triangle)  BY DEF FrontInv, FrontTypes
  <2>2. Len(accepted) \in Nat /\ \A n \in 1 .. Len(accepted) : accepted[n] = accepted[n]  BY <2>1, Lengths
  <2> QED  BY <2>1, <2>2 DEF Grows
<1>3. Spot(TileOf(l)) /\ Spot(TileOf(d)) /\ l.y \in Nat /\ d.y \in Nat
  <2>1. InFrame(accepted, TileOf(l)) /\ InFrame(accepted, TileOf(d))  BY <1>1 DEF LineOk
  <2>2. l.y \in 0 .. FRAME_HEIGHT - 1 /\ d.y \in 0 .. FRAME_HEIGHT - 1  BY <1>1 DEF LineOk
  <2> HIDE DEF d
  <2> QED  BY <1>2, <2>1, <2>2, StillOk
<1> HIDE DEF d
<1>4. TileBefore(TileOf(l), TileOf(d)) \/ (SameTile(TileOf(l), TileOf(d)) /\ l.y < d.y)
  BY LineOrder DEF d
\* so whatever comes after the tile of d comes after that of l
<1>5. ASSUME NEW a, Spot(a), TileBefore(TileOf(d), a)
      PROVE  TileBefore(TileOf(l), a) /\ ~SameTile(TileOf(l), a)
  <2>1. TileBefore(TileOf(l), a)  BY <1>3, <1>4, <1>5, TileOrder
  <2> QED  BY <1>3, <1>5, <2>1, TileOrder
<1>6. ~(walk.writing /\ SameTile(TileOf(l), TileOf(walk)) /\ l.y >= walk.y)
  <2> SUFFICES ASSUME walk.writing, SameTile(TileOf(l), TileOf(walk)), l.y >= walk.y PROVE FALSE
    OBVIOUS
  <2>1. InFrame(accepted, TileOf(walk)) /\ walk.y \in Nat
    BY DEF FrontInv, WalkOk, FrontTypes
  <2>2. Spot(TileOf(walk))  BY <1>2, <2>1, StillOk
  <2>3. ~TileBefore(TileOf(d), TileOf(walk))  BY <1>5, <2>2
  <2>4. SameTile(TileOf(d), TileOf(walk)) /\ d.y < walk.y  BY <1>1, <2>3, LineOrder
  <2>5. SameTile(TileOf(l), TileOf(d))  BY <2>4 DEF SameTile
  <2>6. l.y < d.y  BY <1>3, <1>4, <2>5, TileOrder
  <2> QED  BY <1>3, <2>1, <2>4, <2>6
<1>7. ASSUME NEW j \in DOMAIN tiles.items PROVE ~SameTile(TileOf(l), tiles.items[j])
  <2>1. TileBefore(TileOf(d), tiles.items[j])  BY <1>1 DEF BeforeTiles
  <2>2. Spot(tiles.items[j])
    <3>1. TileOk(accepted, tiles.items[j])  BY DEF FrontInv, TilesOk
    <3> QED  BY <1>2, <3>1, StillOk DEF TileOk
  <2> QED  BY <1>5, <2>1, <2>2
<1>8. ~(core.valid /\ l.n = core.n /\ ~TileBefore(TileOf(l), core))
  <2>1. Spot(core)  BY DEF FrontInv, FrontTypes, Spot
  <2>2. core.valid => TileBefore(TileOf(d), core)  BY <1>1 DEF BeforeTiles, BeforeCore
  <2> QED  BY <1>5, <2>1, <2>2
<1>9. ~(param.busy /\ l.n = param.n)
  <2>1. param.busy => d.n < param.n  BY <1>1 DEF BeforeTiles, BeforeCore, TileOf
  <2>2. l.n <= d.n /\ l.n \in Nat /\ d.n \in Nat  BY <1>3, <1>4 DEF TileBefore, SameTile, TileOf, Spot
  <2>3. param.n \in Nat  BY DEF FrontInv, FrontTypes
  <2> QED  BY <2>1, <2>2, <2>3
<1> QED  BY <1>6, <1>7, <1>8, <1>9 DEF Waits

(***************************************************************************)
(* The worker gets the lines of the triangles: the covered pixels of the   *)
(* frame and no others, in the order of the walk, none passed over, each   *)
(* with the texture of its triangle.  For every frame, all triangles with  *)
(* an area and every depth of tile_fifo and line_fifo.                     *)
(***************************************************************************)
THEOREM TrianglesAreSent == Spec => []SendsTheTriangles
<1>1. ASSUME FrontInv PROVE SendsTheTriangles
  <2>1. FrontTypes  BY <1>1 DEF FrontInv
  <2>2. sent \in Seq(FrontLine) /\ lineq.items \in Seq(FrontLine)  BY <2>1 DEF FrontTypes, Fifos
  <2>3. /\ DOMAIN made = 1 .. Len(sent) + Len(lineq.items) /\ DOMAIN sent = 1 .. Len(sent)
        /\ Len(sent) \in Nat /\ Len(lineq.items) \in Nat
        /\ \A i \in 1 .. Len(sent) + Len(lineq.items) :
             made[i] = IF i <= Len(sent) THEN sent[i] ELSE lineq.items[i - Len(sent)]
    <3>1. /\ made \in Seq(FrontLine) /\ Len(made) = Len(sent) + Len(lineq.items)
          /\ \A i \in 1 .. Len(sent) + Len(lineq.items) :
               made[i] = IF i <= Len(sent) THEN sent[i] ELSE lineq.items[i - Len(sent)]
      BY <2>2, ConcatProperties DEF made
    <3> QED  BY <2>2, <3>1, Lengths
  <2>4. \A i \in DOMAIN sent : i \in DOMAIN made /\ made[i] = sent[i]  BY <2>3
  <2>5. MadeOk(accepted, made, walk, tiles.items, core, param)  BY <1>1 DEF FrontInv
  <2>6. \A i \in DOMAIN sent : sent[i] \in AllLines  BY <2>1, <2>4, <2>5, LinesAre DEF MadeOk
  <2>7. \A i, j \in DOMAIN sent : i < j => LineBefore(sent[i], sent[j])  BY <2>4, <2>5 DEF MadeOk
  <2>8. ASSUME NEW l \in AllLines, NEW i \in DOMAIN sent, LineBefore(l, sent[i])
        PROVE  \E j \in DOMAIN sent : sent[j] = l
    <3>1. LineOk(accepted, l) /\ i \in DOMAIN made /\ LineBefore(l, made[i])  BY <2>1, <2>4, <2>8, LinesAre
    <3>2. ~Waits(l, walk, tiles.items, core, param)  BY <1>1, <3>1, NotWaiting
    <3>3. PICK j \in DOMAIN made : made[j] = l  BY <1>1, <3>1, <3>2 DEF FrontInv, CompleteOk
    <3>4. ~(i <= j)
      <4> SUFFICES ASSUME i <= j PROVE FALSE  OBVIOUS
      <4>1. i = j \/ i < j  BY <2>3, <3>1, <3>3
      <4>2. LineBefore(made[i], made[j]) \/ made[i] = made[j]  BY <2>5, <3>1, <3>3, <4>1 DEF MadeOk
      <4>3. LineOk(accepted, made[i]) /\ LineOk(accepted, made[j])  BY <2>5, <3>1, <3>3 DEF MadeOk
      <4>4. Spot(TileOf(made[i])) /\ Spot(TileOf(l)) /\ l.y \in Nat /\ made[i].y \in Nat
        <5>1. accepted \in Seq(Triangle)  BY <2>1 DEF FrontTypes
        <5>2. Len(accepted) \in Nat  BY <5>1, Lengths
        <5>3. Grows(accepted, accepted)  BY <5>1, <5>2 DEF Grows
        <5>4. InFrame(accepted, TileOf(made[i])) /\ InFrame(accepted, TileOf(l))  BY <3>1, <4>3 DEF LineOk
        <5>5. l.y \in 0 .. FRAME_HEIGHT - 1 /\ made[i].y \in 0 .. FRAME_HEIGHT - 1  BY <3>1, <4>3 DEF LineOk
        <5> QED  BY <5>3, <5>4, <5>5, StillOk
      <4> DEFINE d == made[i]
      <4>5. /\ TileBefore(TileOf(l), TileOf(d)) \/ (SameTile(TileOf(l), TileOf(d)) /\ l.y < d.y)
            /\ \/ TileBefore(TileOf(d), TileOf(l)) \/ (SameTile(TileOf(d), TileOf(l)) /\ d.y < l.y)
               \/ d = l
        BY <3>1, <3>3, <4>2, LineOrder
      <4> HIDE DEF d
      <4>6. Spot(TileOf(d)) /\ d.y \in Nat  BY <4>4 DEF d
      <4>7. d # l
        <5> SUFFICES ASSUME d = l PROVE FALSE  OBVIOUS
        <5>1. SameTile(TileOf(l), TileOf(l))  BY DEF SameTile
        <5> QED  BY <4>4, <4>5, <5>1, TileOrder
      <4> QED  BY <4>4, <4>5, <4>6, <4>7, TileOrder
    <3>5. j \in DOMAIN sent  BY <2>3, <3>1, <3>3, <3>4, <2>8
    <3> QED  BY <2>4, <3>3, <3>5
  <2> QED  BY <2>6, <2>7, <2>8 DEF SendsTheTriangles
<1> QED  BY <1>1, FrontInvariant, PTL
===============================================================================
