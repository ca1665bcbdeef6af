-------------------------- MODULE DdrBlockCacheProofs --------------------------
(***************************************************************************)
(* For any number of sets, tags and lanes: the block cache reads back what *)
(* was last written, and no eviction loses a write.                        *)
(*                                                                         *)
(* The argument.  The read ports always show the memories as they stand    *)
(* (ReadPorts), which is what the write-first forwarding is for; only the  *)
(* dirty flag may be too high, never too low.  A miss goes through three   *)
(* phases, told apart by the tag and the dirty flag that the ports show:   *)
(* the write-back is offered, the refill is offered, the answer is awaited;*)
(* OwedForMiss says which answers the back end may owe in each.  From the  *)
(* second phase on the line may hold the beat of an AccessAck, so that     *)
(* LinesAgree is silent about it (Replaced), but then its flag is clear    *)
(* and NoWriteLost has the block in the DDR, where the refill finds it.    *)
(***************************************************************************)
EXTENDS DdrBlockCache, SequenceTheorems, TLAPS

BlockAddr == [idx: Idx, tag: Tag]

Shape ==
  /\ data_mem \in [Idx -> Line] /\ tag_mem \in [Idx -> Tag] /\ dirty_mem \in [Idx -> BOOLEAN]
  /\ access_q \in Request \cup {None} /\ access_idx_q_q \in Idx /\ stall_q \in BOOLEAN
  /\ data_rdata_raw \in Line /\ tag_rdata \in Tag /\ dirty_rdata \in BOOLEAN
  /\ write_q \in [wen: BOOLEAN, mask: SUBSET Lanes, data: Line]
  /\ fe_req \in Request \cup {None}
  /\ mem \in [BlockAddr -> Line]
  /\ last \in [Blocks -> [Lanes -> Val \cup {Unwritten}]]

(* The read ports show the memories as they stand, the forwarded write      *)
(* included; a dirty flag read too high only costs a write-back.            *)
ReadPorts ==
  /\ data_rdata = data_mem[access_idx_q]
  /\ tag_rdata = tag_mem[access_idx_q]
  /\ dirty_mem[access_idx_q] => dirty_rdata

(* The beats the back end owes, phase by phase of a miss. *)
Ack == [op |-> "AccessAck", data |-> JunkLine]
Refilled == [op |-> "AccessAckData", data |-> mem[access_q.blk]]

OwedForMiss ==
  /\ stall_q => Accessing
  /\ ~stall => answers = <<>>
  /\ miss => answers \in IF dirty_rdata THEN {<<>>} ELSE {<<>>, <<Ack>>}
  /\ stall /\ ~miss => /\ answers \in {<<Refilled>>, <<Ack, Refilled>>}
                       /\ ~dirty_mem[access_idx_q]

(* A line is what it was last written to be, unless it is being replaced. *)
Replaced(i) == stall /\ i = access_idx_q /\ ~(miss /\ dirty_rdata)
LinesAgree ==
  \A b \in Blocks : tag_mem[b.idx] = b.tag /\ ~Replaced(b.idx) => Agrees(data_mem[b.idx], b)

IInv == Shape /\ ReadPorts /\ OwedForMiss /\ LinesAgree /\ NoWriteLost /\ ReadsLastWrite

-------------------------------------------------------------------------------
(* Queues of at most two answers. *)
LEMMA ShortQueues ==
  ASSUME NEW x, NEW y
  PROVE  /\ Append(<<>>, x) = <<x>> /\ Append(<<x>>, y) = <<x, y>>
         /\ <<x>> # <<>> /\ Head(<<x>>) = x /\ Tail(<<x>>) = <<>>
         /\ <<x, y>> # <<>> /\ Head(<<x, y>>) = x /\ Tail(<<x, y>>) = <<y>>
<1> DEFINE S == {x, y}
<1>1. /\ <<>> \in Seq(S) /\ <<x>> \in Seq(S) /\ <<y>> \in Seq(S) /\ <<x, y>> \in Seq(S)
      /\ x \in S /\ y \in S
      /\ Len(<<>>) = 0 /\ Len(<<x>>) = 1 /\ Len(<<y>>) = 1 /\ Len(<<x, y>>) = 2
      /\ <<x>>[1] = x /\ <<y>>[1] = y /\ <<x, y>>[1] = x /\ <<x, y>>[2] = y
  OBVIOUS
<1> HIDE DEF S
<1>2. /\ Append(<<>>, x) \in Seq(S) /\ Append(<<>>, x) = <<x>>
  BY <1>1, AppendProperties, SeqEqual
<1>3. Append(<<x>>, y) = <<x, y>>
  <2> DEFINE s == Append(<<x>>, y)
             t == <<x, y>>
  <2>1. s \in Seq(S) /\ Len(s) = 2 /\ s[1] = x /\ s[2] = y
    BY <1>1, AppendProperties
  <2>2. t \in Seq(S) /\ Len(t) = 2 /\ t[1] = x /\ t[2] = y
    BY <1>1
  <2> HIDE DEF s, t
  <2>3. s = t
    BY <2>1, <2>2, SeqEqual
  <2>4. QED BY <2>3 DEF s, t
<1>4. /\ <<x>> # <<>> /\ <<x, y>> # <<>> /\ Head(<<x>>) = x /\ Head(<<x, y>>) = x
  BY <1>1
<1>5. Tail(<<x>>) = <<>>
  BY <1>1, <1>4, HeadTailProperties, SeqEqual
<1>6. Tail(<<x, y>>) = <<y>>
  BY <1>1, <1>4, HeadTailProperties, SeqEqual
<1>7. QED BY <1>2, <1>3, <1>4, <1>5, <1>6

(* A request is a read or a write of a block the host accesses. *)
LEMMA RequestType ==
  ASSUME Assumptions, NEW q \in Request
  PROVE  /\ q # None
         /\ q.blk \in Blocks /\ q.blk \in BlockAddr /\ q.blk.idx \in Idx /\ q.blk.tag \in Tag
         /\ q.op \in {"Get", "Put"}
         /\ q.op = "Put" => q.mask \in SUBSET Lanes /\ q.data \in Line
<1>1. CASE q \in [op: {"Get"}, blk: Blocks]
  <2>1. q \in [op: {"Get"}, blk: Blocks] /\ q.op = "Get" /\ q.blk \in Blocks
    BY <1>1
  <2>2. q.blk \in BlockAddr
    BY <2>1 DEF Assumptions, BlockAddr
  <2>3. q.blk.idx \in Idx /\ q.blk.tag \in Tag
    BY <2>2 DEF BlockAddr
  <2>4. q # None
    BY <1>1 DEF None
  <2>5. QED BY <2>1, <2>2, <2>3, <2>4
<1>2. CASE q \in {[op |-> "Put", blk |-> w.blk, mask |-> w.mask, data |-> w.data] : w \in Writes}
  BY <1>2 DEF Assumptions, BlockAddr, None, Line
<1>3. QED BY <1>1, <1>2 DEF Request

(* A masked write leaves a line. *)
LEMMA MergeType ==
  ASSUME NEW mask, NEW new \in Line, NEW old \in Line
  PROVE  Merge(mask, new, old) \in Line
  BY DEF Merge, Line

(* The indexes the memories are read and written at are indexes. *)
LEMMA Addressed ==
  ASSUME Assumptions, Shape
  PROVE  /\ access_idx_q \in Idx /\ lookup \in Idx
         /\ Accessing => access_q \in Request
         /\ data_rdata \in Line
  BY RequestType, MergeType DEF Assumptions, Shape, access_idx_q, lookup, Accessing, data_rdata

-------------------------------------------------------------------------------
(* The beat of the back end on this edge, and how the refill is answered. *)
Beat(xchg, answer) == IF answer THEN Head(Owed(xchg)) ELSE None
EndsMiss(beat, owed) ==
  \/ beat \in {None, Ack} /\ owed \in {<<Refilled>>, <<Ack, Refilled>>}
  \/ beat = Refilled /\ owed = <<>>

(* The beat and what is owed after the edge, phase by phase of a miss. *)
Answered(xchg, beat, owed) ==
  /\ ~stall => beat = None /\ owed = <<>>
  /\ miss /\ dirty_rdata => \/ beat = None /\ owed = IF xchg THEN <<Ack>> ELSE <<>>
                            \/ xchg /\ beat = Ack /\ owed = <<>>
  /\ miss /\ ~dirty_rdata => IF xchg THEN EndsMiss(beat, owed)
                             ELSE beat \in {None, Ack} /\ owed \in {<<>>, <<Ack>>}
  /\ stall /\ ~miss => EndsMiss(beat, owed)

(* The two kinds of beat are told apart by their opcode. *)
LEMMA BeatTypes ==
  ASSUME Assumptions, Shape, Accessing
  PROVE  /\ Ack.op # "AccessAckData" /\ Refilled.op = "AccessAckData"
         /\ Ack # None /\ Refilled # None /\ Ack # Refilled
         /\ Ack.data \in Line /\ Refilled.data \in Line
<1>1. access_q.blk \in BlockAddr
  BY Addressed, RequestType
<1>2. mem[access_q.blk] \in Line /\ JunkLine \in Line
  BY <1>1 DEF Shape, JunkLine, Line, Assumptions
<1>3. QED BY <1>2 DEF Ack, Refilled, None

(* Taking a beat from a queue that ends in the refilled block. *)
LEMMA LastAnswers ==
  ASSUME NEW answer \in BOOLEAN, NEW q \in {<<Refilled>>, <<Ack, Refilled>>}
  PROVE  EndsMiss(IF answer THEN Head(q) ELSE None, IF answer THEN Tail(q) ELSE q)
<1>1. CASE ~answer
  BY <1>1 DEF EndsMiss
<1>2. CASE answer /\ q = <<Refilled>>
  <2>1. Head(q) = Refilled /\ Tail(q) = <<>>
    BY <1>2, ShortQueues
  <2>2. QED BY <1>2, <2>1 DEF EndsMiss
<1>3. CASE answer /\ q = <<Ack, Refilled>>
  <2>1. Head(q) = Ack /\ Tail(q) = <<Refilled>>
    BY <1>3, ShortQueues
  <2>2. QED BY <1>3, <2>1 DEF EndsMiss
<1>4. QED BY <1>1, <1>2, <1>3

(* The back end answers in order, so the beat follows from the phase. *)
LEMMA BeatCases ==
  ASSUME Assumptions, IInv, NEW xchg \in BOOLEAN, NEW answer \in BOOLEAN, xchg => miss,
         Memory(xchg, answer)
  PROVE  Answered(xchg, Beat(xchg, answer), answers')
<1>1. /\ answer => Owed(xchg) # <<>>
      /\ answers' = IF answer THEN Tail(Owed(xchg)) ELSE Owed(xchg)
  BY DEF Memory
<1>2. miss => stall
  BY DEF stall
<1>3. CASE ~stall
  BY <1>1, <1>2, <1>3 DEF IInv, OwedForMiss, Beat, Owed, Answered
<1>4. CASE miss /\ dirty_rdata
  <2>1. answers = <<>> /\ be_req.op = "Put"
    BY <1>4 DEF IInv, OwedForMiss, be_req, WriteBack
  <2>2. Owed(xchg) = IF xchg THEN <<Ack>> ELSE <<>>
    BY <2>1, ShortQueues DEF Owed, Ack
  <2>3. QED BY <1>1, <1>2, <1>4, <2>2, ShortQueues DEF Beat, Answered
<1>5. CASE miss /\ ~dirty_rdata
  <2>1. answers \in {<<>>, <<Ack>>} /\ be_req = Refill /\ Refill.op = "Get" /\ Refill.blk = access_q.blk
    BY <1>5 DEF IInv, OwedForMiss, be_req, Refill
  <2>2. CASE ~xchg
    BY <1>1, <1>2, <1>5, <2>1, <2>2, ShortQueues DEF Beat, Owed, Answered
  <2>3. CASE xchg
    <3>1. Owed(xchg) = Append(answers, Refilled)
      BY <2>1, <2>3 DEF Owed, Refilled
    <3>2. Owed(xchg) \in {<<Refilled>>, <<Ack, Refilled>>}
      BY <2>1, <3>1, ShortQueues
    <3>3. EndsMiss(Beat(xchg, answer), answers')
      BY <1>1, <3>2, LastAnswers DEF Beat
    <3>4. QED BY <1>2, <1>5, <2>3, <3>3 DEF Answered
  <2>4. QED BY <2>2, <2>3
<1>6. CASE stall /\ ~miss
  <2>1. Owed(xchg) \in {<<Refilled>>, <<Ack, Refilled>>}
    BY <1>6 DEF IInv, OwedForMiss, Owed
  <2>2. EndsMiss(Beat(xchg, answer), answers')
    BY <1>1, <2>1, LastAnswers DEF Beat
  <2>3. QED BY <1>2, <1>6, <2>2 DEF Answered
<1>7. QED BY <1>3, <1>4, <1>5, <1>6

-------------------------------------------------------------------------------
(* What every edge does, in terms of the exchange with the back end and of *)
(* the beat it answers with.                                               *)
Edge(xchg, beat, r) ==
  /\ xchg \in BOOLEAN /\ (xchg => miss)
  /\ beat \in {None, Ack, Refilled}
  /\ Answered(xchg, beat, answers')
  /\ LatchAccess /\ Stall(beat) /\ DataMemory(beat) /\ TagMemory(xchg) /\ DirtyMemory(xchg)
  /\ Respond /\ Present(r) /\ History
  /\ mem' = IF xchg /\ be_req.op = "Put" THEN [mem EXCEPT ![be_req.blk] = be_req.data] ELSE mem
  /\ r \in Request \cup {None}

(* Forwarding: the ports show the memories after the edge too. *)
LEMMA PortsFollow ==
  ASSUME Assumptions, IInv, NEW xchg, NEW beat, NEW r, Edge(xchg, beat, r)
  PROVE  /\ access_idx_q' = lookup
         /\ beat # None => stall
         /\ Shape'
         /\ ReadPorts'
<1> USE DEF IInv
<1>0. beat # None => stall
  BY DEF Edge, Answered
<1>1. access_idx_q' = lookup
  BY DEF Edge, LatchAccess, OwedForMiss, access_idx_q, lookup, Accessing
<1>2. /\ access_q' \in Request \cup {None} /\ access_idx_q_q' \in Idx /\ stall_q' \in BOOLEAN
      /\ fe_req' \in Request \cup {None}
  BY Addressed DEF Edge, LatchAccess, Stall, Present, Shape, stall, miss
<1>3. /\ beat # None => beat.data \in Line
      /\ putHit => access_q \in Request /\ access_q.mask \in SUBSET Lanes /\ access_q.data \in Line
  BY <1>0, BeatTypes, Addressed, RequestType DEF Edge, OwedForMiss, stall, miss, putHit, hit
<1>4. write_q' \in [wen: BOOLEAN, mask: SUBSET Lanes, data: Line]
  BY <1>3 DEF Edge, DataMemory, AllLanes, Line, JunkLine, Assumptions, putHit, hit, miss, Accessing, stall
<1>5. data_mem' = IF write_q'.wen
                  THEN [data_mem EXCEPT ![access_idx_q] = Merge(write_q'.mask, write_q'.data, @)]
                  ELSE data_mem
  BY DEF Edge, DataMemory
<1>6. data_mem' \in [Idx -> Line] /\ data_rdata_raw' \in Line /\ data_rdata_raw' = data_mem[lookup]
  BY <1>4, <1>5, Addressed, MergeType DEF Edge, DataMemory, Shape
<1>7. data_rdata' = data_mem'[access_idx_q']
  <2>1. access_idx_q_q' = access_idx_q
    BY DEF Edge, LatchAccess
  <2>2. data_rdata' = IF write_q'.wen /\ lookup = access_idx_q
                      THEN Merge(write_q'.mask, write_q'.data, data_mem[lookup])
                      ELSE data_mem[lookup]
    BY <1>1, <1>6, <2>1 DEF data_rdata
  <2>3. QED BY <1>1, <1>5, <2>2, Addressed DEF Shape
<1>8. /\ tag_mem' \in [Idx -> Tag] /\ tag_rdata' \in Tag /\ tag_rdata' = tag_mem'[access_idx_q']
  <2>1. CASE xchg /\ be_req.op = "Get"
    <3>1. miss /\ lookup = access_idx_q /\ access_q.blk.tag \in Tag
      BY <2>1, Addressed, RequestType DEF Edge, lookup, stall, miss
    <3>2. QED BY <1>1, <2>1, <3>1, Addressed DEF Edge, TagMemory, Shape
  <2>2. CASE ~(xchg /\ be_req.op = "Get")
    BY <1>1, <2>2, Addressed DEF Edge, TagMemory, Shape
  <2>3. QED BY <2>1, <2>2
<1>9. /\ dirty_mem' \in [Idx -> BOOLEAN] /\ dirty_rdata' \in BOOLEAN
      /\ dirty_mem'[access_idx_q'] => dirty_rdata'
  <2>1. CASE xchg /\ dirty_rdata
    <3>1. miss /\ lookup = access_idx_q
      BY <2>1 DEF Edge, lookup, stall
    <3>2. QED BY <1>1, <2>1, <3>1, Addressed DEF Edge, DirtyMemory, Shape
  <2>2. CASE ~(xchg /\ dirty_rdata)
    BY <1>1, <2>2, Addressed DEF Edge, DirtyMemory, Shape, putHit, hit, Accessing, stall, miss
  <2>3. QED BY <2>1, <2>2
<1>10. mem' \in [BlockAddr -> Line]
  <2>1. xchg => be_req.blk \in BlockAddr /\ (be_req.op = "Put" => be_req.data \in Line)
    BY Addressed, RequestType DEF Edge, be_req, WriteBack, Refill, Shape, BlockAddr, miss
  <2>2. QED BY <2>1 DEF Edge, Shape
<1>11. last' \in [Blocks -> [Lanes -> Val \cup {Unwritten}]]
  BY <1>3, RequestType DEF Edge, History, Shape, Merge, Line
<1>12. Shape'
  BY <1>2, <1>4, <1>6, <1>8, <1>9, <1>10, <1>11 DEF Shape
<1>13. QED BY <1>0, <1>1, <1>7, <1>8, <1>9, <1>12 DEF ReadPorts
(* The line of the access after the edge: gone, or about to be read in. *)
Evicted(xchg) == miss /\ xchg = dirty_rdata
Refilling(xchg) == stall /\ (miss => xchg /\ ~dirty_rdata)

(* While the refill is under way the stall ends with its beat, no earlier. *)
LEMMA RefillOwed ==
  ASSUME Assumptions, Shape, NEW beat, Stall(beat), EndsMiss(beat, answers'),
         stall, Accessing, access_q' = access_q, mem' = mem, ~miss', ~dirty_mem'[access_idx_q']
  PROVE  OwedForMiss' /\ (beat # Refilled => stall')
<1>1. Refilled' = Refilled /\ Ack' = Ack /\ Accessing'
  BY DEF Refilled, Ack, JunkLine, Accessing
<1>2. CASE beat \in {None, Ack} /\ answers' \in {<<Refilled>>, <<Ack, Refilled>>}
  <2>1. stall_q' /\ stall'
    BY <1>2, BeatTypes DEF Stall, stall
  <2>2. QED BY <1>1, <1>2, <2>1 DEF OwedForMiss
<1>3. CASE beat = Refilled /\ answers' = <<>>
  <2>1. ~stall_q' /\ ~stall'
    BY <1>3, BeatTypes DEF Stall, stall
  <2>2. QED BY <1>3, <2>1 DEF OwedForMiss
<1>4. QED BY <1>2, <1>3 DEF EndsMiss

(* A miss moves from phase to phase and not back. *)
LEMMA OwedFollows ==
  ASSUME Assumptions, IInv, NEW xchg, NEW beat, NEW r, Edge(xchg, beat, r)
  PROVE  /\ OwedForMiss'
         /\ Evicted(xchg) => miss' /\ ~dirty_rdata'
         /\ Refilling(xchg) /\ beat # Refilled => stall' /\ ~miss'
<1> USE DEF IInv
<1>1. access_idx_q' = lookup /\ ReadPorts' /\ Shape' /\ access_idx_q \in Idx
  BY PortsFollow, Addressed
<1>2. ~stall => answers' = <<>> /\ stall_q' = FALSE
  BY DEF Edge, Answered, Stall
<1>3. stall => /\ Accessing /\ access_q' = access_q /\ Accessing' /\ lookup = access_idx_q
               /\ access_q.blk.idx = access_idx_q
  BY DEF Edge, LatchAccess, OwedForMiss, Accessing, lookup, stall, miss, access_idx_q
<1>4. CASE ~stall
  BY <1>2, <1>4 DEF OwedForMiss, stall, miss, Evicted, Refilling
<1>5. CASE miss /\ dirty_rdata
  <2>1. stall /\ be_req.op = "Put"
    BY <1>5 DEF stall, be_req, WriteBack
  <2>2. tag_rdata' = tag_rdata /\ miss'
    BY <1>1, <1>3, <1>5, <2>1 DEF Edge, TagMemory, ReadPorts, miss
  <2>3. xchg => ~dirty_rdata'
    BY <1>5 DEF Edge, DirtyMemory
  <2>4. answers' \in IF dirty_rdata' THEN {<<>>} ELSE {<<>>, <<Ack>>}
    BY <1>5, <2>3 DEF Edge, Answered
  <2>5. QED BY <1>3, <1>5, <2>1, <2>2, <2>3, <2>4 DEF OwedForMiss, stall, Ack, JunkLine,
                                                        Evicted, Refilling
<1>6. CASE miss /\ ~dirty_rdata
  <2>1. stall /\ be_req = Refill /\ be_req.op = "Get" /\ ~putHit /\ ~dirty_mem[access_idx_q]
    BY <1>6 DEF stall, be_req, Refill, putHit, hit, ReadPorts
  <2>2. dirty_mem' = dirty_mem /\ ~dirty_rdata' /\ mem' = mem
    BY <1>3, <1>6, <2>1 DEF Edge, DirtyMemory
  <2>3. CASE ~xchg
    <3>1. miss'
      BY <1>1, <1>3, <1>6, <2>1, <2>3 DEF Edge, TagMemory, ReadPorts, miss
    <3>2. answers' \in {<<>>, <<Ack>>}
      BY <1>6, <2>3 DEF Edge, Answered
    <3>3. QED BY <1>3, <1>6, <2>2, <2>3, <3>1, <3>2 DEF OwedForMiss, stall, Ack, JunkLine,
                                                        Evicted, Refilling
  <2>4. CASE xchg
    <3>1. ~miss'
      BY <1>3, <2>1, <2>4 DEF Edge, TagMemory, miss
    <3>2. EndsMiss(beat, answers')
      BY <1>6, <2>4 DEF Edge, Answered
    <3>3. OwedForMiss' /\ (beat # Refilled => stall')
      BY <1>1, <1>3, <2>1, <2>2, <3>1, <3>2, RefillOwed DEF Edge
    <3>4. QED BY <1>6, <2>4, <3>1, <3>3 DEF Evicted, Refilling
  <2>5. QED BY <2>3, <2>4
<1>7. CASE stall /\ ~miss
  <2>1. EndsMiss(beat, answers') /\ ~xchg /\ ~putHit
    BY <1>7 DEF Edge, Answered, putHit, hit
  <2>2. ~miss' /\ dirty_mem' = dirty_mem /\ mem' = mem
    BY <1>1, <1>3, <1>7, <2>1 DEF Edge, TagMemory, DirtyMemory, ReadPorts, miss
  <2>3. ~dirty_mem'[access_idx_q']
    BY <1>1, <1>3, <1>7, <2>2 DEF OwedForMiss
  <2>4. OwedForMiss' /\ (beat # Refilled => stall')
    BY <1>3, <1>7, <2>1, <2>2, <2>3, RefillOwed DEF Edge
  <2>5. QED BY <1>7, <2>2, <2>4 DEF Evicted, Refilling
<1>8. QED BY <1>4, <1>5, <1>6, <1>7 DEF stall

(* The block a line holds is the block of the access if set and tag match. *)
LEMMA SameBlock ==
  ASSUME Assumptions, NEW b \in Blocks, NEW c \in Blocks, b.idx = c.idx, b.tag = c.tag
  PROVE  b = c
  BY DEF Assumptions

(* Lines after the edge: hit by a write, refilled, or left alone. *)
LEMMA LinesFollow ==
  ASSUME Assumptions, IInv, NEW xchg, NEW beat, NEW r, Edge(xchg, beat, r)
  PROVE  LinesAgree'
<1> USE DEF IInv
<1> SUFFICES ASSUME NEW b \in Blocks, tag_mem'[b.idx] = b.tag, ~Replaced(b.idx)'
             PROVE  Agrees(data_mem[b.idx], b)'
  BY DEF LinesAgree
<1>0. b.idx \in Idx /\ b.tag \in Tag
  BY DEF Assumptions
<1>1. CASE ~stall /\ ~putHit
  <2>1. /\ data_mem' = data_mem /\ tag_mem' = tag_mem /\ last' = last
        /\ ~Replaced(b.idx)
    BY <1>1 DEF Edge, Answered, DataMemory, TagMemory, History, Replaced, stall
  <2>2. Agrees(data_mem[b.idx], b)
    BY <2>1 DEF LinesAgree
  <2>3. QED BY <2>1, <2>2 DEF Agrees
<1>2. CASE putHit
  <2>1. /\ ~stall /\ ~miss /\ beat = None /\ Accessing /\ tag_rdata = access_q.blk.tag
        /\ access_q \in Request /\ access_q.op = "Put" /\ access_idx_q = access_q.blk.idx
    BY <1>2, Addressed DEF Edge, Answered, putHit, hit, stall, miss, access_idx_q
  <2>2. /\ access_q.blk \in Blocks /\ access_q.data \in Line /\ access_q.mask \in SUBSET Lanes
        /\ access_idx_q \in Idx
    BY <2>1, RequestType, Addressed
  <2>3. /\ tag_mem' = tag_mem
        /\ data_mem' = [data_mem EXCEPT ![access_idx_q] = Merge(access_q.mask, access_q.data, @)]
        /\ last' = [last EXCEPT ![access_q.blk] = Merge(access_q.mask, access_q.data, @)]
    BY <1>2, <2>1 DEF Edge, DataMemory, TagMemory, History
  <2>4. Agrees(data_mem[b.idx], b)
    BY <2>1, <2>3 DEF LinesAgree, Replaced
  <2>5. CASE b = access_q.blk
    BY <1>0, <2>2, <2>3, <2>4, <2>5, <2>1 DEF Agrees, Merge, Shape, Line
  <2>6. CASE b # access_q.blk
    <3>1. b.idx # access_idx_q
      BY <2>1, <2>2, <2>3, <2>6, SameBlock DEF ReadPorts
    <3>2. QED BY <1>0, <2>2, <2>3, <2>4, <2>6, <3>1 DEF Agrees, Shape
  <2>7. QED BY <2>5, <2>6
<1>3. CASE stall
  <2>1. /\ Accessing /\ access_q \in Request /\ access_idx_q = access_q.blk.idx /\ access_idx_q \in Idx
        /\ access_q.blk \in Blocks /\ access_idx_q' = access_idx_q /\ ~putHit /\ last' = last
    BY <1>3, Addressed, RequestType, PortsFollow
       DEF OwedForMiss, stall, miss, access_idx_q, lookup, putHit, hit, Edge, History
  <2>2. CASE b.idx # access_idx_q
    <3>1. data_mem'[b.idx] = data_mem[b.idx] /\ tag_mem'[b.idx] = tag_mem[b.idx]
      BY <1>0, <2>1, <2>2 DEF Edge, DataMemory, TagMemory, Shape
    <3>2. Agrees(data_mem[b.idx], b)
      BY <2>2, <3>1 DEF LinesAgree, Replaced
    <3>3. QED BY <2>1, <3>1, <3>2 DEF Agrees
  <2>3. CASE b.idx = access_idx_q
    <3>1. ~Evicted(xchg) /\ (Refilling(xchg) => beat = Refilled)
      <4>1. ~stall' \/ (miss' /\ dirty_rdata')
        BY <2>1, <2>3 DEF Replaced
      <4>2. miss' => stall'
        BY DEF stall
      <4>3. QED BY <4>1, <4>2, OwedFollows
    <3>2. CASE Refilling(xchg)
      <4>1. Agrees(mem[access_q.blk], access_q.blk)
        <5>1. miss => ~dirty_rdata /\ tag_rdata # access_q.blk.tag
          BY <3>2 DEF Refilling, miss
        <5>2. tag_mem[access_idx_q] # access_q.blk.tag \/ ~dirty_mem[access_idx_q]
          BY <1>3, <5>1 DEF ReadPorts, OwedForMiss
        <5>3. QED BY <2>1, <5>2 DEF NoWriteLost
      <4>2. data_mem'[access_idx_q] = mem[access_q.blk]
        <5>1. beat = Refilled /\ beat # None /\ Refilled.data = mem[access_q.blk] /\ Refilled.data \in Line
          BY <2>1, <3>1, <3>2, BeatTypes DEF Refilled
        <5>2. data_mem'[access_idx_q] = Merge(AllLanes, Refilled.data, data_mem[access_idx_q])
          BY <2>1, <5>1 DEF Edge, DataMemory, Shape
        <5>3. QED BY <5>1, <5>2 DEF Merge, AllLanes, Line
      <4>3. b = access_q.blk
        <5>1. CASE miss
          <6>1. xchg /\ be_req.op = "Get"
            BY <3>2, <5>1 DEF Refilling, be_req, Refill
          <6>2. tag_mem'[access_idx_q] = access_q.blk.tag
            BY <2>1, <6>1 DEF Edge, TagMemory, Shape
          <6>3. QED BY <2>1, <2>3, <6>2, SameBlock
        <5>2. CASE ~miss
          <6>1. tag_mem' = tag_mem /\ tag_rdata = access_q.blk.tag
            BY <2>1, <5>2 DEF Edge, TagMemory, miss
          <6>2. QED BY <2>1, <2>3, <6>1, SameBlock DEF ReadPorts
        <5>3. QED BY <5>1, <5>2
      <4>4. QED BY <2>1, <4>1, <4>2, <4>3 DEF Agrees
    <3>3. CASE ~Refilling(xchg)
      <4>1. miss /\ dirty_rdata /\ ~xchg
        BY <1>3, <3>1, <3>3 DEF Refilling, Evicted, Edge, Shape
      <4>2. beat = None
        BY <4>1 DEF Edge, Answered
      <4>3. data_mem' = data_mem /\ tag_mem' = tag_mem
        BY <2>1, <4>1, <4>2 DEF Edge, DataMemory, TagMemory
      <4>4. Agrees(data_mem[b.idx], b)
        BY <4>1, <4>3 DEF LinesAgree, Replaced
      <4>5. QED BY <2>1, <4>3, <4>4 DEF Agrees
    <3>4. QED BY <3>2, <3>3
  <2>4. QED BY <2>2, <2>3
<1>4. QED BY <1>1, <1>2, <1>3

(* The DDR after the edge: written back to the block the line held. *)
LEMMA MemFollows ==
  ASSUME Assumptions, IInv, NEW xchg, NEW beat, NEW r, Edge(xchg, beat, r)
  PROVE  NoWriteLost'
<1> USE DEF IInv
<1> SUFFICES ASSUME NEW b \in Blocks, tag_mem'[b.idx] # b.tag \/ ~dirty_mem'[b.idx]
             PROVE  Agrees(mem[b], b)'
  BY DEF NoWriteLost
<1>0. b.idx \in Idx /\ b.tag \in Tag /\ b \in BlockAddr /\ b = [idx |-> b.idx, tag |-> b.tag]
  BY DEF Assumptions, BlockAddr
<1>1. CASE ~miss /\ ~putHit
  <2>1. ~xchg /\ mem' = mem /\ tag_mem' = tag_mem /\ dirty_mem' = dirty_mem /\ last' = last
    BY <1>1 DEF Edge, TagMemory, DirtyMemory, History
  <2>2. Agrees(mem[b], b)
    BY <2>1 DEF NoWriteLost
  <2>3. QED BY <2>1, <2>2 DEF Agrees
<1>2. CASE putHit
  <2>1. /\ ~miss /\ ~xchg /\ Accessing /\ tag_rdata = access_q.blk.tag /\ access_q \in Request
        /\ access_idx_q = access_q.blk.idx /\ access_q.blk \in Blocks /\ access_idx_q \in Idx
    BY <1>2, Addressed, RequestType DEF Edge, putHit, hit, miss, access_idx_q
  <2>2. /\ mem' = mem /\ tag_mem' = tag_mem /\ dirty_mem' = [dirty_mem EXCEPT ![access_idx_q] = TRUE]
        /\ last' = [last EXCEPT ![access_q.blk] = Merge(access_q.mask, access_q.data, @)]
    BY <1>2, <2>1 DEF Edge, TagMemory, DirtyMemory, History
  <2>3. b # access_q.blk
    BY <1>0, <2>1, <2>2 DEF ReadPorts, Shape
  <2>4. tag_mem[b.idx] # b.tag \/ ~dirty_mem[b.idx]
    BY <1>0, <2>1, <2>2 DEF Shape
  <2>5. Agrees(mem[b], b)
    BY <2>4 DEF NoWriteLost
  <2>6. QED BY <2>2, <2>3, <2>5 DEF Agrees, Shape
<1>3. CASE miss
  <2>1. /\ Accessing /\ access_idx_q \in Idx /\ stall /\ ~putHit /\ last' = last
    BY <1>3, Addressed DEF stall, miss, putHit, hit, Edge, History
  <2>2. CASE xchg /\ dirty_rdata
    <3>1. /\ be_req = WriteBack /\ tag_mem' = tag_mem
          /\ dirty_mem' = [dirty_mem EXCEPT ![access_idx_q] = FALSE]
          /\ mem' = [mem EXCEPT ![[idx |-> access_idx_q, tag |-> tag_rdata]] = data_rdata]
      BY <2>2 DEF Edge, TagMemory, DirtyMemory, be_req, WriteBack
    <3>2. CASE b.idx = access_idx_q /\ b.tag = tag_rdata
      <4>1. mem'[b] = data_mem[b.idx]
        BY <1>0, <3>1, <3>2 DEF Shape, ReadPorts
      <4>2. Agrees(data_mem[b.idx], b)
        BY <1>3, <2>2, <3>2 DEF LinesAgree, Replaced, ReadPorts
      <4>3. QED BY <2>1, <4>1, <4>2 DEF Agrees
    <3>3. CASE ~(b.idx = access_idx_q /\ b.tag = tag_rdata)
      <4>1. mem'[b] = mem[b]
        BY <1>0, <3>1, <3>3 DEF Shape
      <4>2. tag_mem[b.idx] # b.tag \/ ~dirty_mem[b.idx]
        BY <1>0, <2>1, <3>1, <3>3 DEF Shape, ReadPorts
      <4>3. Agrees(mem[b], b)
        BY <4>2 DEF NoWriteLost
      <4>4. QED BY <2>1, <4>1, <4>3 DEF Agrees
    <3>4. QED BY <3>2, <3>3
  <2>3. CASE ~(xchg /\ dirty_rdata)
    <3>1. mem' = mem /\ dirty_mem' = dirty_mem
      BY <2>1, <2>3 DEF Edge, DirtyMemory, be_req, Refill
    <3>2. tag_mem[b.idx] # b.tag \/ ~dirty_mem[b.idx]
      <4>1. CASE tag_mem' = tag_mem
        BY <3>1, <4>1
      <4>2. CASE tag_mem' # tag_mem
        <5>1. ~dirty_rdata /\ \A i \in Idx : i # access_idx_q => tag_mem'[i] = tag_mem[i]
          BY <2>1, <2>3, <4>2 DEF Edge, TagMemory, Shape
        <5>2. QED BY <1>0, <3>1, <5>1 DEF ReadPorts
      <4>3. QED BY <4>1, <4>2
    <3>3. Agrees(mem[b], b)
      BY <3>2 DEF NoWriteLost
    <3>4. QED BY <2>1, <3>1, <3>3 DEF Agrees
  <2>4. QED BY <2>2, <2>3
<1>4. QED BY <1>1, <1>2, <1>3

(* A hit answers with the line it looked up. *)
LEMMA ReadFollows ==
  ASSUME Assumptions, IInv, NEW xchg, NEW beat, NEW r, Edge(xchg, beat, r)
  PROVE  ReadsLastWrite'
<1> USE DEF IInv
<1> SUFFICES ASSUME fe_rsp' # None, fe_rsp'.op = "Get"
             PROVE  Agrees(fe_rsp.data, fe_rsp.blk)'
  BY DEF ReadsLastWrite
<1>1. /\ hit /\ access_q.op = "Get" /\ fe_rsp'.data = data_rdata /\ fe_rsp'.blk = access_q.blk
  BY DEF Edge, Respond
<1>2. /\ ~stall /\ Accessing /\ access_q.blk \in Blocks /\ tag_mem[access_q.blk.idx] = access_q.blk.tag
      /\ data_rdata = data_mem[access_q.blk.idx]
  BY <1>1, Addressed, RequestType DEF hit, ReadPorts, access_idx_q
<1>3. Agrees(data_mem[access_q.blk.idx], access_q.blk)
  BY <1>2 DEF LinesAgree, Replaced
<1>4. last' = last
  BY <1>1 DEF Edge, History, putHit
<1>5. QED BY <1>1, <1>2, <1>3, <1>4 DEF Agrees

-------------------------------------------------------------------------------
(* The memories start with nothing written. *)
LEMMA InitInvariant ==
  ASSUME Assumptions, CacheInit
  PROVE  IInv
<1>1. access_idx_q = 0 /\ ~Accessing /\ ~miss /\ ~stall
  BY DEF CacheInit, access_idx_q, Accessing, miss, stall
<1>2. ZeroLine \in Line /\ JunkLine \in Line
  BY DEF ZeroLine, JunkLine, Line, Assumptions
<1>3. Shape
  BY <1>2 DEF CacheInit, Shape, Assumptions, BlockAddr, Line, Request
<1>4. ReadPorts /\ OwedForMiss
  BY <1>1, <1>2 DEF CacheInit, ReadPorts, OwedForMiss, data_rdata, Assumptions
<1>5. LinesAgree /\ NoWriteLost /\ ReadsLastWrite
  BY DEF CacheInit, LinesAgree, NoWriteLost, ReadsLastWrite, Agrees
<1>6. QED BY <1>3, <1>4, <1>5 DEF IInv

(* One clock edge keeps the invariant. *)
LEMMA NextInvariant ==
  ASSUME Assumptions, IInv, [CacheNext]_cacheVars
  PROVE  IInv'
<1>1. CASE CacheNext
  <2>1. PICK be_a_ready \in BOOLEAN, answer \in BOOLEAN, r \in Request \cup {None} :
          CacheClock(be_a_ready, answer, r)
    BY <1>1 DEF CacheNext
  <2> DEFINE xchg == miss /\ be_a_ready
             beat == Beat(xchg, answer)
  <2>2. Memory(xchg, answer)
    BY <2>1 DEF CacheClock
  <2>3. xchg \in BOOLEAN /\ (xchg => miss)
    OBVIOUS
  <2>4. Answered(xchg, beat, answers')
    BY <2>2, <2>3, BeatCases
  <2>5. beat \in {None, Ack, Refilled}
    BY <2>4 DEF Answered, EndsMiss, stall
  <2>6. Edge(xchg, beat, r)
    BY <2>1, <2>3, <2>4, <2>5 DEF CacheClock, Edge, Memory, Beat
  <2>7. QED
    BY <2>6, PortsFollow, OwedFollows, LinesFollow, MemFollows, ReadFollows DEF IInv
<1>2. CASE UNCHANGED cacheVars
  BY <1>2 DEF cacheVars, pipeline, IInv, Shape, ReadPorts, OwedForMiss, LinesAgree, NoWriteLost,
     ReadsLastWrite, Agrees, Replaced, Accessing, access_idx_q, miss, stall, data_rdata,
     Ack, Refilled
<1>3. QED BY <1>1, <1>2

(***************************************************************************)
(* The invariant holds in every state (rvlab_ddr_block_cache.sv:84-204).   *)
(***************************************************************************)
THEOREM Invariant == ASSUME Assumptions PROVE CacheSpec => []IInv
<1>1. CacheInit => IInv
  BY InitInvariant
<1>2. IInv /\ [CacheNext]_cacheVars => IInv'
  BY NextInvariant
<1>3. QED BY <1>1, <1>2, PTL DEF CacheSpec

(***************************************************************************)
(* Every read is answered with the words last written, through any         *)
(* sequence of hits, partial writes, evictions and refills.                *)
(***************************************************************************)
THEOREM CacheReadsLastWrite == ASSUME Assumptions PROVE CacheSpec => []ReadsLastWrite
<1>1. IInv => ReadsLastWrite
  BY DEF IInv
<1>2. QED BY <1>1, Invariant, PTL

(***************************************************************************)
(* Every block the cache does not hold, or holds clean, has its last words *)
(* in the DDR, at every moment of a miss too.                              *)
(***************************************************************************)
THEOREM CacheLosesNoWrite == ASSUME Assumptions PROVE CacheSpec => []NoWriteLost
<1>1. IInv => NoWriteLost
  BY DEF IInv
<1>2. QED BY <1>1, Invariant, PTL
===============================================================================
