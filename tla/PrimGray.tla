-------------------------------- MODULE PrimGray --------------------------------
(***************************************************************************)
(* The pointer code of prim_fifo_async.sv.  A pointer {msb, value}, with   *)
(* value < Depth, is the number p = msb * Depth + value in                 *)
(* 0 .. 2 * Depth - 1; a code word is the set of its bits that are 1.  The *)
(* code walks up the Gray code for msb = 0 and back down it for msb = 1,   *)
(* which closes the cycle with one-bit steps for every Depth, powers of    *)
(* two or not.                                                             *)
(***************************************************************************)
EXTENDS Naturals, FiniteSets, FiniteSetsExt

PTRV_W(depth) == CHOOSE w \in 1 .. depth : 2 ^ (w - 1) < depth /\ depth <= 2 ^ w

PtrSucc(depth, p) == IF p + 1 = 2 * depth THEN 0 ELSE p + 1

Bit(v, i) == (v \div (2 ^ i)) % 2
LowGray(w, v) == {i \in 0 .. w - 1 : Bit(v, i) # Bit(v, i + 1)}

dec2gray(depth, p) ==
  LET w == PTRV_W(depth)
  IN  IF p < depth THEN LowGray(w, p) ELSE {w} \cup LowGray(w, depth - 1 - (p - depth))

gray2dec(depth, g) ==
  LET w    == PTRV_W(depth)
      ones == {i \in 0 .. w - 1 : Cardinality({j \in g : i <= j /\ j < w}) % 2 = 1}
      v    == MapThenSumSet(LAMBDA i : 2 ^ i, ones)
  IN  IF w \in g THEN depth + ((2 ^ w + depth - v - 1) % (2 ^ w)) ELSE v

===============================================================================
