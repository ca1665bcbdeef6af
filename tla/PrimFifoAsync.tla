----------------------------- MODULE PrimFifoAsync -----------------------------
(***************************************************************************)
(* prim_fifo_async: the FIFO between the host and the controller clock     *)
(* domains of the DDR path (rvlab_ddr_cdc_fifo uses one per direction).    *)
(* A step is a rising edge of the write clock, of the read clock, or of    *)
(* both so close together that a synchronizer samples the other side's     *)
(* pointer code while it changes: then every changing bit may be caught    *)
(* old or new.  Pointers are the numbers of PrimGray.                      *)
(***************************************************************************)
EXTENDS PrimGray, Sequences, FifoConstants

Ptrs  == 0 .. 2 * Depth - 1
Cells == 0 .. Depth - 1
NextPtr(p) == PtrSucc(Depth, p)
Flip(p) == IF p < Depth THEN p + Depth ELSE p - Depth    \* inverts the msb
Cell(p) == IF p < Depth THEN p ELSE p - Depth            \* drops it
Gray(p) == dec2gray(Depth, p)
Ungray(g) == gray2dec(Depth, g)

\* what a flop may catch of a code word changing from g to h
Caught(g, h) == {(g \cap h) \cup m : m \in SUBSET ((g \cup h) \ (g \cap h))}

(***************************************************************************)
(* What the depth must be (prim_fifo_async.sv:32) and what is used of the  *)
(* pointer code.  The module that gives Depth its value assumes it.        *)
(***************************************************************************)
FifoAssumptions ==
  /\ Depth \in Nat /\ Depth >= 3
  /\ Gray(0) = {}                                \* the reset values agree
  /\ \A p \in Ptrs : /\ Ungray(Gray(p)) = p
                     /\ Caught(Gray(p), Gray(NextPtr(p))) = {Gray(p), Gray(NextPtr(p))}

VARIABLES
  fifo_wptr, fifo_wptr_gray,              \* write clock
  rptr_gray_meta, fifo_rptr_gray_sync,    \* write clock: two flops after fifo_rptr_gray
  fifo_rptr_sync,                         \* write clock: decoded
  storage,
  fifo_rptr, fifo_rptr_gray,              \* read clock
  wptr_gray_meta, fifo_wptr_gray_sync,    \* read clock: two flops after fifo_wptr_gray
  taken                                   \* what the last step read (see FifoChannel)

writeVars == <<fifo_wptr, fifo_wptr_gray, rptr_gray_meta, fifo_rptr_gray_sync,
               fifo_rptr_sync, storage>>
readVars  == <<fifo_rptr, fifo_rptr_gray, wptr_gray_meta, fifo_wptr_gray_sync>>
asyncVars == <<writeVars, readVars, taken>>

-------------------------------------------------------------------------------
\* mutant: one entry late
full_wclk_Late == fifo_wptr = NextPtr(Flip(fifo_rptr_sync))

full_wclk == fifo_wptr = Flip(fifo_rptr_sync)
empty     == Ungray(fifo_wptr_gray_sync) = fifo_rptr

wready == ~full_wclk
rvalid == ~empty

\* mutants of WriteSide: the pointer moves when the FIFO is full as well;
\* the decoded pointer follows only writes
WriteSide_NoFull(wvalid, wdata, caught) ==
  /\ fifo_wptr' = IF wvalid THEN NextPtr(fifo_wptr) ELSE fifo_wptr
  /\ fifo_wptr_gray' = IF wvalid THEN Gray(NextPtr(fifo_wptr)) ELSE fifo_wptr_gray
  /\ storage' = IF wvalid THEN [storage EXCEPT ![Cell(fifo_wptr)] = wdata] ELSE storage
  /\ rptr_gray_meta' = caught
  /\ fifo_rptr_gray_sync' = rptr_gray_meta
  /\ fifo_rptr_sync' = Ungray(fifo_rptr_gray_sync)

WriteSide_Gated(wvalid, wdata, caught) ==
  LET incr == wvalid /\ wready
  IN  /\ fifo_wptr' = IF incr THEN NextPtr(fifo_wptr) ELSE fifo_wptr
      /\ fifo_wptr_gray' = IF incr THEN Gray(NextPtr(fifo_wptr)) ELSE fifo_wptr_gray
      /\ storage' = IF incr THEN [storage EXCEPT ![Cell(fifo_wptr)] = wdata] ELSE storage
      /\ rptr_gray_meta' = caught
      /\ fifo_rptr_gray_sync' = rptr_gray_meta
      /\ fifo_rptr_sync' = IF incr THEN Ungray(fifo_rptr_gray_sync) ELSE fifo_rptr_sync

\* caught: what the first flop catches of fifo_rptr_gray
WriteSide(wvalid, wdata, caught) ==
  LET incr == wvalid /\ wready
  IN  /\ fifo_wptr' = IF incr THEN NextPtr(fifo_wptr) ELSE fifo_wptr
      /\ fifo_wptr_gray' = IF incr THEN Gray(NextPtr(fifo_wptr)) ELSE fifo_wptr_gray
      /\ storage' = IF incr THEN [storage EXCEPT ![Cell(fifo_wptr)] = wdata] ELSE storage
      /\ rptr_gray_meta' = caught
      /\ fifo_rptr_gray_sync' = rptr_gray_meta
      /\ fifo_rptr_sync' = Ungray(fifo_rptr_gray_sync)

ReadSide(rready, caught) ==
  LET incr == rvalid /\ rready
  IN  /\ fifo_rptr' = IF incr THEN NextPtr(fifo_rptr) ELSE fifo_rptr
      /\ fifo_rptr_gray' = IF incr THEN Gray(NextPtr(fifo_rptr)) ELSE fifo_rptr_gray
      /\ taken' = IF incr THEN <<storage[Cell(fifo_rptr)]>> ELSE <<>>
      /\ wptr_gray_meta' = caught
      /\ fifo_wptr_gray_sync' = wptr_gray_meta

WriteEdge(wvalid, wdata) ==
  /\ WriteSide(wvalid, wdata, fifo_rptr_gray)
  /\ taken' = <<>>
  /\ UNCHANGED readVars

ReadEdge(rready) == ReadSide(rready, fifo_wptr_gray) /\ UNCHANGED writeVars

BothEdges(wvalid, wdata, rready) ==
  LET nextW == IF wvalid /\ wready THEN Gray(NextPtr(fifo_wptr)) ELSE fifo_wptr_gray
      nextR == IF rvalid /\ rready THEN Gray(NextPtr(fifo_rptr)) ELSE fifo_rptr_gray
  IN  \E w \in Caught(fifo_wptr_gray, nextW), r \in Caught(fifo_rptr_gray, nextR) :
        WriteSide(wvalid, wdata, r) /\ ReadSide(rready, w)

AsyncInit ==
  /\ fifo_wptr = 0 /\ fifo_rptr = 0 /\ fifo_rptr_sync = 0
  /\ fifo_wptr_gray = {} /\ wptr_gray_meta = {} /\ fifo_wptr_gray_sync = {}
  /\ fifo_rptr_gray = {} /\ rptr_gray_meta = {} /\ fifo_rptr_gray_sync = {}
  /\ storage \in [Cells -> Item]                 \* not reset
  /\ taken = <<>>

WriteClock == \E v \in BOOLEAN, x \in Item : WriteEdge(v, x)
ReadClock  == \E y \in BOOLEAN : ReadEdge(y)
Together   == \E v, y \in BOOLEAN, x \in Item : BothEdges(v, x, y)

AsyncNext == WriteClock \/ ReadClock \/ Together

AsyncSpec == AsyncInit /\ [][AsyncNext]_asyncVars

-------------------------------------------------------------------------------

\* how many increments lead from pointer p to pointer q
Dist(p, q) == IF p <= q THEN q - p ELSE q + 2 * Depth - p

(***************************************************************************)
(* However late each side learns of the other's pointer, and whatever it   *)
(* catches of a changing code, it errs on the safe side: the writer never  *)
(* believes the FIFO emptier than it is, the reader never fuller, and the  *)
(* FIFO never holds more than Depth items.                                 *)
(***************************************************************************)
NeitherSideOptimistic ==
  /\ Dist(fifo_rptr_sync, fifo_rptr) + Dist(fifo_rptr, fifo_wptr) <= Depth
  /\ Dist(fifo_rptr, Ungray(fifo_wptr_gray_sync)) <= Dist(fifo_rptr, fifo_wptr)

(***************************************************************************)
(* The FIFO hands on what was written, once and in order, across the two   *)
(* clocks (storage is read with no synchronizer of its own: rdata is right *)
(* only because the pointer arrives after the data).                       *)
(***************************************************************************)
Contents ==
  [k \in 1 .. Dist(fifo_rptr, fifo_wptr) |->
     storage[Cell((fifo_rptr + k - 1) % (2 * Depth))]]

Crossing == INSTANCE FifoChannel WITH items <- Contents
AsyncImplementsChannel == Crossing!Spec

(***************************************************************************)
(* Stale pointers catch up: again and again the reader sees what there is  *)
(* to read, though the writer never writes again and the reader was never  *)
(* ready; and again and again the writer sees the room there is, though    *)
(* the reader never reads again and the writer offered nothing             *)
(* (prim_fifo_async.sv:81-91, 117-127).                                    *)
(***************************************************************************)
PointersCatchUp == /\ []<>(Contents = <<>> \/ rvalid)
                   /\ []<>(Len(Contents) = Depth \/ wready)
===============================================================================
