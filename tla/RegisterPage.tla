---------------------------- MODULE RegisterPage ----------------------------
(***************************************************************************)
(* The page of a register (flow/tools/reggen/gen_html.py): a picture of    *)
(* its bits, most significant first, and a table of its fields from bit 0  *)
(* up.  A register is [fields, used] as RegisterMap places it, and the     *)
(* page is judged by the bits its cells and rows stand for.                *)
(***************************************************************************)
EXTENDS RegisterFields

RECURSIVE Gap(_, _), Lines(_, _), Tail0(_)

-----------------------------------------------------------------------------
(* The picture.  .cells is the sequence of its parts: a new row that starts *)
(* at bit .row, or a cell of .span columns for .of.                         *)

PicStart(width) ==
  CASE width > 32                -> [nextbit |-> 63, hdrbits |-> 16, nextline |-> 48]
    [] width > 16 /\ width <= 32 -> [nextbit |-> 31, hdrbits |-> 16, nextline |-> 16]
    [] width > 8 /\ width <= 16  -> [nextbit |-> 15, hdrbits |-> 16, nextline |-> 0]
    [] width <= 8                -> [nextbit |-> 7, hdrbits |-> 8, nextline |-> 0]

Unused == <<"unused">>
Cell(span, of) == << [row |-> -1, span |-> span, of |-> of] >>
Row(msb)       == << [row |-> msb, span |-> 0, of |-> Unused] >>

NewLine(st) == [st EXCEPT !.cells = @ \o Row(st.nextline - 1), !.nextline = @ - 16]

\* Unused bits above the field, one cell per line they touch.
Gap(st, fieldmsb) ==
  IF st.nextbit <= fieldmsb
    THEN st
    ELSE IF st.nextbit >= st.nextline /\ fieldmsb < st.nextline
      THEN Gap(NewLine([st EXCEPT !.cells = @ \o Cell(st.nextbit - (st.nextline - 1), Unused),
                                  !.nextbit = st.nextline - 1]), fieldmsb)
      ELSE [st EXCEPT !.cells = @ \o Cell(st.nextbit - fieldmsb, Unused), !.nextbit = fieldmsb]

\* The field itself, cut at every line it crosses.
Lines(st, field) ==
  IF field.msb >= st.nextline /\ field.lsb < st.nextline
    THEN Lines(NewLine([st EXCEPT !.cells = @ \o Cell(field.msb - (st.nextline - 1), field.name)]),
               [field EXCEPT !.msb = st.nextline - 1])
    ELSE [st EXCEPT !.cells = @ \o Cell(field.msb - field.lsb + 1, field.name)]

\* A line that ends with the field is followed by a new one.
\* mutant
PicField_NoNewLine(st, f) ==
  [Lines(Gap(st, f.bits[1]), [msb |-> f.bits[1], lsb |-> Lsb(f), name |-> f.name])
     EXCEPT !.nextbit = Lsb(f) - 1]
PicField(st, f) ==
  LET drawn == Lines(Gap(st, f.bits[1]), [msb |-> f.bits[1], lsb |-> Lsb(f), name |-> f.name])
      ended == IF Lsb(f) = drawn.nextline /\ drawn.nextline > 0 THEN NewLine(drawn) ELSE drawn
  IN  [ended EXCEPT !.nextbit = Lsb(f) - 1]

\* What is left below the last field; bit 0 alone is never drawn.
Tail0(st) ==
  IF st.nextbit <= 0
    THEN st
    ELSE LET cell == [st EXCEPT !.cells = @ \o Cell(st.nextbit - (st.nextline - 1), Unused),
                                !.nextbit = st.nextline - 1]
         IN  Tail0(IF st.nextline > 0 THEN NewLine(cell) ELSE cell)

gen_html_reg_pic(reg, width) ==
  LET start == PicStart(width)
      first == [nextbit |-> start.nextbit, nextline |-> start.nextline, cells |-> Row(start.nextbit)]
  IN  Tail0(FoldRight(LAMBDA f, st : PicField(st, f), reg.fields, first)).cells

\* Reading a picture: the bit a cell starts at, counted from the start of its row.
CellMsb(cells, k) ==
  LET row == CHOOSE r \in 1 .. k : cells[r].row # -1 /\ \A j \in r + 1 .. k : cells[j].row = -1
  IN  cells[row].row - Total([j \in 1 .. k - 1 |-> IF j > row THEN cells[j].span ELSE 0])
PicBits(cells, of) ==
  UNION {CellMsb(cells, k) - cells[k].span + 1 .. CellMsb(cells, k) :
           k \in {j \in DOMAIN cells : cells[j].row = -1 /\ cells[j].of = of}}

-----------------------------------------------------------------------------
(* The table: rows <<msb, lsb>> for reserved bits, fields, and runs of a     *)
(* multi-register's further copies, which share one row.                     *)

Rows(kind, msb, lsb) == << [kind |-> kind, msb |-> msb, lsb |-> lsb] >>

\* base: the mask of the first copy, or NoBits for a plain register
TableField(st, f, base) ==
  LET reserved == IF Lsb(f) > st.nextbit /\ st.merge < 0
                    THEN Rows("reserved", Lsb(f) - 1, st.nextbit) ELSE <<>>
      next     == Lsb(f) + Cardinality(Mask(f))
      merged   == IF st.merge >= 0 THEN Rows("merge", Lsb(f) - 1, st.merge) ELSE <<>>
  IN  IF base # NoBits /\ Lsb(f) \notin base
        THEN [rows |-> st.rows \o reserved, nextbit |-> next,
              merge |-> IF st.merge < 0 THEN Lsb(f) ELSE st.merge]
        ELSE [rows |-> st.rows \o reserved \o (IF base # NoBits THEN merged ELSE <<>>)
                         \o Rows("field", f.bits[1], Lsb(f)),
              nextbit |-> next, merge |-> IF base # NoBits THEN -1 ELSE st.merge]

gen_html_register(reg, base) ==
  LET st == FoldLeft(LAMBDA acc, f : TableField(acc, f, base),
                     [rows |-> <<>>, nextbit |-> 0, merge |-> -1], reg.fields)
  IN  st.rows \o (IF st.merge >= 0 THEN Rows("merge", st.nextbit - 1, st.merge) ELSE <<>>)

-----------------------------------------------------------------------------

\* The picture shows every field over exactly its bits and the rest as unused,
\* except that bit 0 is missing when the lowest field starts at bit 1.
PictureShows(reg, width) ==
  LET cells == gen_html_reg_pic(reg, width)
      all   == 0 .. PicStart(width).nextbit
      first == reg.fields # <<>> /\ Lsb(reg.fields[1]) = 1
  IN  /\ \A f \in Range(reg.fields) : PicBits(cells, f.name) = Mask(f)
      /\ PicBits(cells, Unused) =
           all \ (UNION {Mask(f) : f \in Range(reg.fields)} \cup (IF first THEN {0} ELSE {}))

\* The table's rows follow each other from bit 0 to the highest field without a
\* gap or an overlap.
TableCovers(reg, base) ==
  LET rows == gen_html_register(reg, base)
  IN  \A k \in DOMAIN rows :
        /\ rows[k].msb >= rows[k].lsb
        /\ rows[k].lsb = IF k = 1 THEN 0 ELSE rows[k - 1].msb + 1
=============================================================================
