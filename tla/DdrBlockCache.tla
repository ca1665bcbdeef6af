----------------------------- MODULE DdrBlockCache -----------------------------
(***************************************************************************)
(* rvlab_ddr_block_cache: the direct-mapped write-back last-level cache.   *)
(* One step is one rising clock edge.                                      *)
(*                                                                         *)
(* An access is latched in one cycle and looked up in the next (hit or     *)
(* miss); a miss stalls the pipeline, writes the old line back when its    *)
(* dirty flag is set, reads the new one and replays the access.  The three *)
(* memories are read a cycle ahead, so every write must be forwarded.      *)
(*                                                                         *)
(* External: the host holds its request until it is accepted and takes     *)
(* every answer; the back end is an in-order memory that may answer in the *)
(* cycle it accepts (the prefetcher does) or later.  A block is a function *)
(* from lanes (32-bit words) to values.                                    *)
(***************************************************************************)
EXTENDS Naturals, Sequences

CONSTANTS
  Idx, Tag,      \* set index and tag of a block address
  Lanes, Val,    \* words of a block and their values
  Zero,          \* the value of a cache memory word at power-up
  Junk,          \* d_data of an AccessAck
  Blocks,        \* the blocks the host accesses: [idx, tag]
  Writes,        \* the writes it makes: [blk, mask, data]
  InitialMem     \* contents of the DDR at power-up

(* What the constants must be; the module that gives them values assumes it. *)
Assumptions ==
  /\ {Zero, Junk} \subseteq Val /\ 0 \in Tag /\ 0 \in Idx
  /\ Blocks \subseteq [idx: Idx, tag: Tag]
  /\ Writes \subseteq [blk: Blocks, mask: SUBSET Lanes, data: [Lanes -> Val]]
  /\ InitialMem \in [[idx: Idx, tag: Tag] -> [Lanes -> Val]]

None == <<>>
Unwritten == "unwritten"
Line == [Lanes -> Val]
AllLanes == Lanes
JunkLine == [l \in Lanes |-> Junk]
Request == [op: {"Get"}, blk: Blocks]
           \cup {[op |-> "Put", blk |-> w.blk, mask |-> w.mask, data |-> w.data] : w \in Writes}

VARIABLES
  data_mem, tag_mem, dirty_mem,          \* the memories, by set index
  access_q,                              \* the latched access, or None
  access_idx_q_q,                        \* set index looked up a cycle ago
  stall_q,
  data_rdata_raw, tag_rdata, dirty_rdata,\* read ports of the memories
  write_q,                               \* data_wen_q, data_wmask_q, data_wdata_q
  fe_req,                                \* the request the host presents
  fe_rsp,                                \* the answer it took on the last edge
  mem,                                   \* the DDR, every accepted write done
  answers,                               \* answers the back end owes, oldest first
  last,                                  \* history: last value written to a lane
  asked                                  \* history: the requests accepted and not
                                         \* answered yet, oldest first

pipeline == <<access_q, access_idx_q_q, stall_q, data_rdata_raw, tag_rdata,
              dirty_rdata, write_q>>
cacheVars == <<data_mem, tag_mem, dirty_mem, pipeline, fe_req, fe_rsp, mem, answers,
               last, asked>>

Merge(mask, new, old) == [l \in Lanes |-> IF l \in mask THEN new[l] ELSE old[l]]

-------------------------------------------------------------------------------
(* Combinational signals. *)
Accessing == access_q # None
access_idx_q == IF Accessing THEN access_q.blk.idx ELSE 0
miss == Accessing /\ tag_rdata # access_q.blk.tag
stall == stall_q \/ miss
hit == Accessing /\ tag_rdata = access_q.blk.tag /\ ~stall
putHit == hit /\ access_q.op = "Put"

data_rdata_NoForward == data_rdata_raw      \* mutant: no write-first forwarding

\* write-first: the line read last cycle, with what was written last cycle
data_rdata == IF write_q.wen /\ access_idx_q = access_idx_q_q
              THEN Merge(write_q.mask, write_q.data, data_rdata_raw)
              ELSE data_rdata_raw

\* the request to the back end (a_valid is miss)
WriteBack_NewTag ==                         \* mutant: written back to the new block
  [op |-> "Put", blk |-> access_q.blk, data |-> data_rdata]

WriteBack == [op |-> "Put", blk |-> [idx |-> access_idx_q, tag |-> tag_rdata],
              data |-> data_rdata]
Refill == [op |-> "Get", blk |-> access_q.blk]
be_req == IF dirty_rdata THEN WriteBack ELSE Refill

\* the set index the memories are read at
lookup == IF stall THEN access_idx_q
          ELSE IF fe_req # None THEN fe_req.blk.idx ELSE 0

-------------------------------------------------------------------------------
LatchAccess_NotHeld ==                      \* mutant: latched during a stall
  /\ access_q' = fe_req
  /\ access_idx_q_q' = access_idx_q

LatchAccess ==
  /\ access_q' = IF stall THEN access_q ELSE fe_req
  /\ access_idx_q_q' = access_idx_q

Stall(rsp) == stall_q' = (stall /\ ~(rsp # None /\ rsp.op = "AccessAckData"))

(* Every beat from the back end is written to the line, whatever its opcode. *)
DataMemory(rsp) ==
  LET wen   == rsp # None \/ putHit
      wmask == IF rsp # None THEN AllLanes ELSE IF putHit THEN access_q.mask ELSE {}
      wdata == IF rsp # None THEN rsp.data ELSE IF putHit THEN access_q.data ELSE JunkLine
  IN  /\ data_mem' = IF wen
                     THEN [data_mem EXCEPT ![access_idx_q] = Merge(wmask, wdata, @)]
                     ELSE data_mem
      /\ data_rdata_raw' = data_mem[lookup]
      /\ write_q' = [wen |-> wen, mask |-> wmask, data |-> wdata]

TagMemory(xchg) ==
  IF xchg /\ be_req.op = "Get"
  THEN /\ tag_mem' = [tag_mem EXCEPT ![access_idx_q] = access_q.blk.tag]
       /\ tag_rdata' = access_q.blk.tag
  ELSE /\ tag_rdata' = tag_mem[lookup]
       /\ UNCHANGED tag_mem

DirtyMemory(xchg) ==
  LET modify_clear == xchg /\ dirty_rdata
  IN  IF putHit \/ modify_clear
      THEN /\ dirty_mem' = [dirty_mem EXCEPT ![access_idx_q] = ~modify_clear]
           /\ dirty_rdata' = ~modify_clear
      ELSE /\ dirty_rdata' = dirty_mem[lookup]
           /\ UNCHANGED dirty_mem

Respond ==
  fe_rsp' = IF hit THEN [op |-> access_q.op, blk |-> access_q.blk, data |-> data_rdata]
            ELSE None

(* External: the host, its request accepted unless stalled. *)
Present(r) == fe_req' = IF fe_req # None /\ stall THEN fe_req ELSE r

(* External: the memory behind the cache. *)
Owed(xchg) ==
  IF xchg
  THEN Append(answers, IF be_req.op = "Get"
                       THEN [op |-> "AccessAckData", data |-> mem[be_req.blk]]
                       ELSE [op |-> "AccessAck", data |-> JunkLine])
  ELSE answers

Memory(xchg, answer) ==
  /\ answer => Owed(xchg) # <<>>
  /\ answers' = IF answer THEN Tail(Owed(xchg)) ELSE Owed(xchg)
  /\ mem' = IF xchg /\ be_req.op = "Put" THEN [mem EXCEPT ![be_req.blk] = be_req.data]
            ELSE mem

(* A request is accepted on the edge that finds it presented and no stall;  *)
(* an answer is the one of the oldest request accepted.                     *)
Accepted == IF fe_req # None /\ ~stall THEN <<fe_req>> ELSE <<>>
Unanswered == IF hit /\ asked # <<>> THEN Tail(asked) ELSE asked

History ==
  /\ last' = IF putHit
             THEN [last EXCEPT ![access_q.blk] = Merge(access_q.mask, access_q.data, @)]
             ELSE last
  /\ asked' = Unanswered \o Accepted

CacheClock(be_a_ready, answer, r) ==
  LET xchg == miss /\ be_a_ready
      rsp  == IF answer THEN Head(Owed(xchg)) ELSE None
  IN  /\ Memory(xchg, answer)
      /\ LatchAccess
      /\ Stall(rsp)
      /\ DataMemory(rsp)
      /\ TagMemory(xchg)
      /\ DirtyMemory(xchg)
      /\ Respond
      /\ Present(r)
      /\ History

ZeroLine == [l \in Lanes |-> Zero]

CacheInit ==
  /\ data_mem = [i \in Idx |-> ZeroLine]
  /\ tag_mem = [i \in Idx |-> 0]
  /\ dirty_mem = [i \in Idx |-> FALSE]
  /\ access_q = None /\ access_idx_q_q = 0 /\ stall_q = FALSE
  /\ data_rdata_raw = ZeroLine /\ tag_rdata = 0 /\ dirty_rdata = FALSE
  /\ write_q = [wen |-> FALSE, mask |-> {}, data |-> JunkLine]
  /\ fe_req = None /\ fe_rsp = None
  /\ mem = InitialMem /\ answers = <<>>
  /\ last = [b \in Blocks |-> [l \in Lanes |-> Unwritten]]
  /\ asked = <<>>

CacheNext == \E be_a_ready, answer \in BOOLEAN, r \in Request \cup {None} :
               CacheClock(be_a_ready, answer, r)

CacheSpec == CacheInit /\ [][CacheNext]_cacheVars

(* What fairness is about: the clock runs, the back end accepts and answers. *)
Accepts == \E answer \in BOOLEAN, r \in Request \cup {None} : CacheClock(TRUE, answer, r)
Answers == \E be_a_ready \in BOOLEAN, r \in Request \cup {None} : CacheClock(be_a_ready, TRUE, r)

-------------------------------------------------------------------------------

Agrees(line, b) ==
  \A l \in Lanes : last[b][l] # Unwritten => line[l] = last[b][l]

(***************************************************************************)
(* A read returns, for every word that was ever written, the last value    *)
(* written to it, through any sequence of hits, partial writes, evictions, *)
(* write-backs and refills (rvlab_ddr_block_cache.sv:127-197).             *)
(***************************************************************************)
ReadsLastWrite ==
  fe_rsp # None /\ fe_rsp.op = "Get" => Agrees(fe_rsp.data, fe_rsp.blk)

(***************************************************************************)
(* No write is lost: a block that no set holds, or holds with a clear      *)
(* dirty flag, has its last words in the DDR, so evicting it without a     *)
(* write-back loses nothing, in the middle of a miss too (:166-177, :191). *)
(***************************************************************************)
NoWriteLost ==
  \A b \in Blocks :
    tag_mem[b.idx] # b.tag \/ ~dirty_mem[b.idx] => Agrees(mem[b], b)

(***************************************************************************)
(* Every request is answered, each by an answer of its own, though the     *)
(* host need not present another one.  At most one request is owed an      *)
(* answer, so that none is dropped between a hit, a stall and a refill; an *)
(* answer is the one of the oldest request owed, and the edge that gives   *)
(* it accepts what the host presents; a host is stalled only while an      *)
(* answer is owed; and as long as one is owed another answer follows       *)
(* (fe_rsp is the answer of the last edge, its request no longer in        *)
(* `asked`) (:101, :184-202).                                              *)
(***************************************************************************)
OneOwed == Len(asked) <= 1 /\ (stall => asked # <<>>)

OwnAnswer ==
  fe_rsp' # None =>
    /\ asked # <<>> /\ fe_rsp'.op = Head(asked).op /\ fe_rsp'.blk = Head(asked).blk
    /\ fe_req # None => asked' = <<fe_req>>

RequestAnswered ==
  /\ [][OneOwed' /\ OwnAnswer]_cacheVars
  /\ (asked # <<>> /\ fe_rsp = None) ~> (fe_rsp # None)
===============================================================================
