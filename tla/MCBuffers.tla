------------------------------ MODULE MCBuffers ------------------------------
(***************************************************************************)
(* The storage between the stages in one run: my_fifo with its read-ahead  *)
(* output register, prim_fifo_async across two clocks, both promised to be *)
(* a FifoChannel, and the block cache in front of the DDR.  They share     *)
(* nothing here: which says which one runs, and the others stay empty.     *)
(*                                                                         *)
(* Both FIFOs have three slots, so that the pointers wrap at a number that *)
(* is not a power of two.  In the cache two blocks fight for set 0, one    *)
(* lives in set 1; a write puts "1" in one word; "z" is what the cache     *)
(* memories hold at power-up, "g" what the DDR holds, "j" what an          *)
(* AccessAck carries.                                                      *)
(***************************************************************************)
EXTENDS MyFifoRing, PrimFifoClocks, DdrBlockCache

VARIABLE which

B(i, t) == [idx |-> i, tag |-> t]
W(b, l) == [blk |-> b, mask |-> {l}, data |-> [k \in {0, 1} |-> IF k = l THEN "1" ELSE "z"]]
CacheBlocks == {B(0, 0), B(0, 1), B(1, 1)}
CacheWrites == {W(B(0, 0), 0), W(B(0, 0), 1), W(B(0, 1), 0)}
CacheMem == [b \in [idx: {0, 1}, tag: {0, 1}] |-> [l \in {0, 1} |-> "g"]]

ASSUME BuffersAssumption == FifoAssumptions /\ Assumptions

ASSUME GrayForAllDepths ==
  \A d \in 3 .. 20 : \A p \in 0 .. 2 * d - 1 :
    LET g == dec2gray(d, p)
        h == dec2gray(d, PtrSucc(d, p))
    IN  gray2dec(d, g) = p /\ Cardinality((g \ h) \cup (h \ g)) = 1

-------------------------------------------------------------------------------
(* Beside the buffer that runs, the memories of the others need no contents *)
(* of their own.                                                            *)
SomeItem == CHOOSE x \in Item : TRUE
NoRing == memory = [s \in Slots |-> SomeItem] /\ data_q = SomeItem
NoStorage == storage = [s \in Cells |-> SomeItem]

BuffersInit ==
  /\ Init /\ ClockedInit /\ CacheInit
  /\ \/ which = "my_fifo" /\ NoStorage
     \/ which = "prim_fifo_async" /\ NoRing
     \/ which = "block_cache" /\ NoStorage /\ NoRing

OnlyRing == which = "my_fifo" /\ UNCHANGED <<clocked, cacheVars, which>>
OnlyCrossing == which = "prim_fifo_async" /\ UNCHANGED <<vars, cacheVars, which>>
OnlyCache == which = "block_cache" /\ UNCHANGED <<vars, clocked, which>>

RingClock == OnlyRing /\ Next
TwoClocks == OnlyCrossing /\ ClockedNext
CacheRuns == OnlyCache /\ CacheNext

\* Both clocks of the crossing tick for ever, whatever happens at its ports;
\* the cache's clock runs, and the back end accepts and answers.
BuffersSpec ==
  /\ BuffersInit /\ [][RingClock \/ TwoClocks \/ CacheRuns]_<<vars, clocked, cacheVars, which>>
  /\ WF_clk_wr(OnlyCrossing /\ WriteTicks)
  /\ WF_clk_rd(OnlyCrossing /\ ReadTicks)
  /\ WF_cacheVars(OnlyCache /\ Accepts) /\ WF_cacheVars(OnlyCache /\ Answers)
===============================================================================
