----------------------------- MODULE XbarAddress -----------------------------
(***************************************************************************)
(* The address arithmetic of the crossbar generator: how the ranges of a   *)
(* device that stands for another crossbar are merged                      *)
(* (flow/tools/tlgen/lib.py).                                              *)
(*                                                                         *)
(* A range is [base, size]; addresses are counted in units of the instance.*)
(***************************************************************************)
EXTENDS Integers, SequencesExt, FiniteSetsExt

CONSTANTS
  Page,            \* 0x1000, the least size of a merged range
  TopAddress       \* 0x1_0000_0000, the end of the address space

End(r) == r.base + r.size

Powers == {2^k : k \in 0..10}
is_pow2(v) == v \in Powers

-----------------------------------------------------------------------------
(* Merging.  others is the set of ranges of all other devices. *)

no_device_in_range(others, f, t) ==
  \A r \in others : End(r) <= End(f) \/ r.base >= t.base

\* The end of the room above addr: the next base, or the end of the space.
get_next_base_addr(others, addr) ==
  LET above == {r.base : r \in {o \in others : o.base > addr}}
  IN  IF above = {} THEN TopAddress ELSE Min(above)

LowestOne(v) == Max({p \in Powers : v % p = 0})

\* The smallest power of two that is enough, if neither the room nor the
\* alignment of the base forbids it.
\* mutant
find_pow2_size_AnyBase(base, min_size, next_value) ==
  Min({p \in Powers : p >= min_size})
find_pow2_size(base, min_size, next_value) ==
  LET room == next_value - base
      diff == IF base # 0 /\ LowestOne(base) <= room THEN LowestOne(base) ELSE room
      i    == Min({p \in Powers : p >= min_size})
  IN  IF i > diff THEN min_size ELSE i

\* The ranges of one device, merged where nobody lives between them; ok is
\* FALSE when find_pow2_size hits its assertion.
MergeRange(others, acc, e) ==
  LET last   == Last(acc.ranges)
      grown  == find_pow2_size(last.base, End(e) - last.base, get_next_base_addr(others, e.base))
      Grow(n) == [acc EXCEPT !.ranges[Len(acc.ranges)].size = n]
  IN  IF acc.ranges = <<>> THEN [acc EXCEPT !.ranges = <<e>>]
      ELSE IF e.base = End(last) THEN Grow(last.size + e.size)
      ELSE IF no_device_in_range(others, last, e)
        THEN [Grow(grown) EXCEPT !.ok = acc.ok /\ grown >= Page]
      ELSE [acc EXCEPT !.ranges = Append(@, e)]

simplify_addr(ranges, others) ==
  LET newlist == SortSeq(ranges, LAMBDA a, b : a.base < b.base)
  IN  FoldLeft(LAMBDA acc, e : MergeRange(others, acc, e), [ranges |-> <<>>, ok |-> TRUE], newlist)

isOverlap(r1, r2) == ~(End(r2) <= r1.base \/ r2.base >= End(r1))
checkAddressOverlap(r, ranges) == \E x \in ranges : isOverlap(x, r)
==============================================================================
