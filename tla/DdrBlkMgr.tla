------------------------------- MODULE DdrBlkMgr -------------------------------
(***************************************************************************)
(* rvlab_ddr_blkmgr: turns block requests into one or two half-block       *)
(* accesses of the Wishbone DDR3 controller and reassembles the answers in *)
(* a ring of request buffers.  One step is one rising clock edge.          *)
(*                                                                         *)
(* External: the controller reads or writes a half-block at the moment it  *)
(* accepts the access (it stalls when it likes) and acknowledges it later; *)
(* acknowledgements of different requests may come in any order, those of  *)
(* one request come in order.  The host holds its request until accepted.  *)
(***************************************************************************)
EXTENDS Naturals, Sequences

CONSTANTS
  REQBUF_SIZE,    \* request buffers
  BlkAddr,        \* block addresses
  LowLanes,       \* bytes 0 to 15 of a block
  HighLanes,      \* bytes 16 to 31
  Byte16,         \* the lane of HighLanes whose mask bit a_mask[16] is
  Val, Junk,      \* lane values; what an acknowledged write returns
  BlkAnc,
  BlkRequest,     \* the requests the host makes
  InitialMem

Lanes == LowLanes \cup HighLanes
Buffers == 0 .. REQBUF_SIZE - 1
Block == [Lanes -> Val]
Nothing == <<>>

(* What the constants must be; the module that gives them values assumes   *)
(* it.  The buffer pointers are $clog2(REQBUF_SIZE) bits wide and wrap by  *)
(* themselves, which reaches every buffer for a power of two only (16 in   *)
(* rvlab_tlul_ddr).                                                        *)
PowerOfTwo(n) == \E w \in 1 .. n : n = 2 ^ w

Assumptions ==
  /\ REQBUF_SIZE \in Nat /\ REQBUF_SIZE >= 2 /\ PowerOfTwo(REQBUF_SIZE)
  /\ LowLanes \cap HighLanes = {} /\ Byte16 \in HighLanes
  /\ BlkRequest \subseteq [op: {"Get", "PutFullData", "PutPartialData"}, addr: BlkAddr,
                           mask: SUBSET Lanes, data: Block, anc: BlkAnc]
  /\ \A r \in BlkRequest :                 \* a partial write fits in one half
       r.op = "PutPartialData" =>
         r.mask \subseteq IF Byte16 \in r.mask THEN HighLanes ELSE LowLanes
  /\ InitialMem \in [BlkAddr -> Block] /\ Junk \in Val /\ BlkAnc # {}

VARIABLES
  reqbuf_state, reqbuf_type, reqbuf_data, reqbuf_anc,  \* the request buffers
  reqbuf_wptr, reqbuf_wptr_q, reqbuf_rptr,
  state_q,        \* "Primed", "ReadHigh" or "WriteHigh"
  req_q,          \* blkaddr_q, blkdata_q, wmask_q: the request being split
  req_i,          \* the request the host presents, or Nothing
  mem,            \* the DRAM, every accepted access done
  wb,             \* accesses not acknowledged, in order of acceptance
  owed,           \* history: the answers owed (see DdrMemory)
  rsp             \* rsp_o: the answer the host took on the last edge

buffers == <<reqbuf_state, reqbuf_type, reqbuf_data, reqbuf_anc,
             reqbuf_wptr, reqbuf_wptr_q, reqbuf_rptr>>
blkVars == <<buffers, state_q, req_q, req_i, mem, wb, owed, rsp>>

Merge(mask, new, old) == [l \in Lanes |-> IF l \in mask THEN new[l] ELSE old[l]]
NextBuf(p) == (p + 1) % REQBUF_SIZE

-------------------------------------------------------------------------------

(* The access offered to the controller, and whether one is offered. *)
reqbuf_full == reqbuf_state[reqbuf_wptr] # "Invalid"
wb_stb == state_q # "Primed" \/ (req_i # Nothing /\ ~reqbuf_full)

PartialHalf(r) == IF Byte16 \in r.mask THEN HighLanes ELSE LowLanes

FirstHalf(r) ==
  [addr |-> r.addr, slot |-> reqbuf_wptr, we |-> r.op # "Get", data |-> r.data,
   half |-> IF r.op = "PutPartialData" THEN PartialHalf(r) ELSE LowLanes,
   mask |-> r.mask]

SecondHalf ==
  [addr |-> req_q.addr, slot |-> reqbuf_wptr_q, we |-> state_q = "WriteHigh",
   data |-> req_q.data, half |-> HighLanes, mask |-> req_q.mask]

access == IF state_q = "Primed" THEN FirstHalf(req_i) ELSE SecondHalf

-------------------------------------------------------------------------------
\* mutant: full writes are not split
StateMachine_OneWrite(taken) ==
  state_q' = IF ~taken THEN state_q
             ELSE IF state_q = "Primed" /\ req_i.op = "Get" THEN "ReadHigh" ELSE "Primed"

StateMachine(taken) ==
  state_q' = IF ~taken THEN state_q
             ELSE CASE state_q = "Primed" /\ req_i.op = "Get" -> "ReadHigh"
                    [] state_q = "Primed" /\ req_i.op = "PutFullData" -> "WriteHigh"
                    [] OTHER -> "Primed"

Latch(accepted) ==
  /\ req_q' = IF accepted THEN [addr |-> req_i.addr, data |-> req_i.data, mask |-> req_i.mask]
              ELSE req_q
  /\ reqbuf_wptr' = IF accepted THEN NextBuf(reqbuf_wptr) ELSE reqbuf_wptr
  /\ reqbuf_wptr_q' = IF accepted THEN reqbuf_wptr ELSE reqbuf_wptr_q
  /\ reqbuf_anc' = IF accepted THEN [reqbuf_anc EXCEPT ![reqbuf_wptr] = req_i.anc]
                   ELSE reqbuf_anc
  /\ reqbuf_type' = IF accepted
                    THEN [reqbuf_type EXCEPT ![reqbuf_wptr] =
                            IF req_i.op = "Get" THEN "Read" ELSE "Write"]
                    ELSE reqbuf_type

(* ack: the position of the acknowledged access in wb, 0 when wb_ack_i is low. *)
Acked(ack, s) == ack # 0 /\ wb[ack].slot = s

BufferStates(accepted, ack, popped) ==
  reqbuf_state' = [s \in Buffers |->
    CASE popped /\ s = reqbuf_rptr -> "Invalid"
      [] Acked(ack, s) /\ reqbuf_state[s] = "PendingLow" -> "PendingHigh"
      [] Acked(ack, s) /\ reqbuf_state[s] = "PendingHigh" -> "Valid"
      [] accepted /\ s = reqbuf_wptr ->
           IF req_i.op = "PutPartialData" THEN "PendingHigh" ELSE "PendingLow"
      [] OTHER -> reqbuf_state[s]]

(* wb_rdata_i, and the half of the buffer it is written to. *)
Readback(a) == [l \in Lanes |-> IF l \in a.half THEN a.rdata[l] ELSE Junk]
HalfOf(st) == CASE st = "PendingLow" -> LowLanes
                [] st = "PendingHigh" -> HighLanes
                [] OTHER -> {}                                    \* "ERROR"

\* mutant: every acknowledgement fills the whole buffer
BufferData_Whole(ack) ==
  reqbuf_data' = [s \in Buffers |-> IF Acked(ack, s) THEN Readback(wb[ack]) ELSE reqbuf_data[s]]

BufferData(ack) ==
  reqbuf_data' = [s \in Buffers |->
    IF Acked(ack, s) THEN Merge(HalfOf(reqbuf_state[s]), Readback(wb[ack]), reqbuf_data[s])
    ELSE reqbuf_data[s]]

Respond(popped) ==
  /\ reqbuf_rptr' = IF popped THEN NextBuf(reqbuf_rptr) ELSE reqbuf_rptr
  /\ rsp' = IF ~popped THEN Nothing
            ELSE IF reqbuf_type[reqbuf_rptr] = "Read"
            THEN [op |-> "AccessAckData", anc |-> reqbuf_anc[reqbuf_rptr],
                  data |-> reqbuf_data[reqbuf_rptr]]
            ELSE [op |-> "AccessAck", anc |-> reqbuf_anc[reqbuf_rptr]]

(* External: the DDR3 controller. *)
Controller(taken, ack) ==
  LET rest == IF ack = 0 THEN wb
              ELSE SubSeq(wb, 1, ack - 1) \o SubSeq(wb, ack + 1, Len(wb))
      item == [slot |-> access.slot, half |-> access.half,
               rdata |-> IF access.we THEN [l \in Lanes |-> Junk] ELSE mem[access.addr]]
  IN  /\ wb' = IF taken THEN Append(rest, item) ELSE rest
      /\ mem' = IF taken /\ access.we
                THEN [mem EXCEPT ![access.addr] =
                        Merge(access.half \cap access.mask, access.data, @)]
                ELSE mem

(* External: the host. *)
HostPresents(accepted, r) == req_i' = IF req_i # Nothing /\ ~accepted THEN req_i ELSE r

\* the memory as a host sees it: the write being split is already whole
BlockMem ==
  IF state_q = "WriteHigh"
  THEN [mem EXCEPT ![req_q.addr] = Merge(HighLanes \cap req_q.mask, req_q.data, @)]
  ELSE mem

Promise == INSTANCE DdrMemory WITH
             Addr <- BlkAddr, Request <- BlkRequest, mem <- BlockMem, got <- rsp

Owe(accepted, popped) ==
  LET kept == IF popped THEN Tail(owed) ELSE owed
  IN  owed' = IF accepted THEN Append(kept, Promise!AnswerTo(BlockMem, req_i)) ELSE kept

Ackable == {k \in 1 .. Len(wb) : \A j \in 1 .. k - 1 : wb[j].slot # wb[k].slot}

BlkClock(wb_stall, ack, d_ready, r) ==
  LET taken    == wb_stb /\ ~wb_stall
      accepted == taken /\ state_q = "Primed"
      popped   == reqbuf_state[reqbuf_rptr] = "Valid" /\ d_ready
  IN  /\ StateMachine(taken)
      /\ Latch(accepted)
      /\ BufferStates(accepted, ack, popped)
      /\ BufferData(ack)
      /\ Respond(popped)
      /\ Controller(taken, ack)
      /\ HostPresents(accepted, r)
      /\ Owe(accepted, popped)

BlkInit ==
  /\ reqbuf_state = [s \in Buffers |-> "Invalid"]
  /\ reqbuf_type = [s \in Buffers |-> "Read"]          \* not reset; never read before written
  /\ reqbuf_data = [s \in Buffers |-> [l \in Lanes |-> Junk]]
  /\ reqbuf_anc = [s \in Buffers |-> CHOOSE a \in BlkAnc : TRUE]
  /\ reqbuf_wptr = 0 /\ reqbuf_wptr_q = 0 /\ reqbuf_rptr = 0
  /\ state_q = "Primed"
  /\ req_q = Nothing /\ req_i = Nothing
  /\ mem = InitialMem /\ wb = <<>> /\ owed = <<>> /\ rsp = Nothing

BlkNext == \E wb_stall, d_ready \in BOOLEAN, r \in BlkRequest \cup {Nothing},
              ack \in {0} \cup Ackable :
             BlkClock(wb_stall, ack, d_ready, r)

BlkSpec == BlkInit /\ [][BlkNext]_blkVars

-------------------------------------------------------------------------------

(***************************************************************************)
(* The halves add up: a buffer has exactly as many accesses outstanding as *)
(* its state waits for (the second half counts while it is still to be     *)
(* offered), so the "ERROR" branches of the acknowledgement case           *)
(* (rvlab_ddr_blkmgr.sv:217-221) are never taken and no buffer is answered *)
(* early or waits for an access nobody made.                               *)
(***************************************************************************)
Outstanding(s) == {k \in 1 .. Len(wb) : wb[k].slot = s}
ToOffer(s) == IF state_q # "Primed" /\ reqbuf_wptr_q = s THEN 1 ELSE 0
Count(S) == IF S = {} THEN 0 ELSE IF \A j, k \in S : j = k THEN 1 ELSE 2

HalvesAddUp ==
  \A s \in Buffers :
    Count(Outstanding(s)) + ToOffer(s) =
      CASE reqbuf_state[s] = "PendingLow" -> 2
        [] reqbuf_state[s] = "PendingHigh" -> 1
        [] OTHER -> 0

(***************************************************************************)
(* The block manager is a block memory: requests take effect whole and in  *)
(* order, and are answered in order with the data of their own block,      *)
(* however the controller orders its acknowledgements.                     *)
(***************************************************************************)
ImplementsMemory == Promise!Spec
===============================================================================
