------------------------------- MODULE VertexMath -------------------------------
(***************************************************************************)
(* The arithmetic of vertex_post and vertex_post_to_triangle2d: 1/w by     *)
(* restoring division, the viewport transform, and the turn of a triangle  *)
(* that winds the other way.  Fixed-point numbers are integers of          *)
(* DATA_WIDTH bits with FRAC_WIDTH of them behind the point.               *)
(***************************************************************************)
EXTENDS Integers, SequencesExt

CONSTANTS DATA_WIDTH, FRAC_WIDTH, SX_WIDTH, SCREEN_W

ASSUME WidthAssumption ==
  /\ {DATA_WIDTH, FRAC_WIDTH, SX_WIDTH, SCREEN_W} \subseteq Nat \ {0}
  /\ FRAC_WIDTH < DATA_WIDTH

Signed(v, width) == LET u == v % 2^width IN IF u >= 2^(width - 1) THEN u - 2^width ELSE u
Word == -(2^(DATA_WIDTH - 1)) .. 2^(DATA_WIDTH - 1) - 1
ONE_FP == 2^FRAC_WIDTH
DIV_STEPS == 2 * FRAC_WIDTH + 1

(* One division step; only the first shifts a one into the remainder.       *)
Divide(d, s, first) ==
  LET shifted == ((s.rem * 2) % 2^DATA_WIDTH) + (IF first THEN 1 ELSE 0)
  IN  IF shifted < d THEN [rem |-> shifted, quot |-> s.quot * 2]
                     ELSE [rem |-> shifted - d, quot |-> s.quot * 2 + 1]
Quotient(d) ==
  FoldLeft(LAMBDA s, first : Divide(d, s, first), [rem |-> 0, quot |-> 0],
           [i \in 1 .. DIV_STEPS |-> i = 1]).quot

quot_to_inv_w(quot, w) ==
  LET ovf == quot >= 2^(DATA_WIDTH - 1)
  IN  IF w = 0 THEN 0
      ELSE IF w > 0 THEN (IF ovf THEN 2^(DATA_WIDTH - 1) - 1 ELSE quot)
      ELSE IF ovf THEN -(2^(DATA_WIDTH - 1)) ELSE -quot

inv_w(w) == quot_to_inv_w(Quotient(IF w < 0 THEN -w ELSE w), w)

mul_q(a, b) == Signed((a * b) \div ONE_FP, DATA_WIDTH)
vp_x(x) == Signed(((x + ONE_FP) * (SCREEN_W \div 2)) \div ONE_FP, SX_WIDTH)

(* v is a triple of vertices [x, y], uv what the descriptor says of each.   *)
area(v) == (v[2].x - v[1].x) * (v[3].y - v[1].y) - (v[2].y - v[1].y) * (v[3].x - v[1].x)
triangle2d(v, uv) ==
  IF area(v) < 0 THEN [v |-> <<v[1], v[3], v[2]>>, uv |-> <<uv[1], <<0, 1>>, <<1, 0>>>>]
                 ELSE [v |-> v, uv |-> uv]
===============================================================================
