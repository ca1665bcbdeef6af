----------------------------- MODULE DdrBusProofs -----------------------------
(***************************************************************************)
(* The two ends of the path to the DDR: the block manager, which offers    *)
(* one port and splits a block's request into accesses of the controller,  *)
(* and the multiplexer, which shares the port among the hosts.             *)
(***************************************************************************)
EXTENDS DdrMux, DdrBlkMgr, SequenceTheorems, TLAPS

(***************************************************************************)
(* For a ring of any size, any half-blocks and any schedule of the         *)
(* controller's stalls and acknowledgements: the accesses of a buffer add  *)
(* up to what its state waits for, and the block manager is the block      *)
(* memory of DdrMemory, so it answers every request once, in order, with   *)
(* the block as the request found it.                                      *)
(*                                                                         *)
(* The argument.  The controller's queue holds, of every buffer, exactly   *)
(* the halves it waits for, low before high (Halves); an acknowledgement   *)
(* may overtake those of other buffers and shortens the queue anywhere in  *)
(* the middle (the Drop lemmas), an accepted access lengthens it at the    *)
(* end (the Put lemmas).  The buffers in use are the ring's stretch from   *)
(* rptr, one for each answer owed, oldest first (Ring).  And what was      *)
(* promised is kept in pieces: of the data of an owed answer each half is  *)
(* in the buffer, on its way back, or still in the memory because its      *)
(* access is the next one offered (Keeps).                                 *)
(***************************************************************************)

State == {"Invalid", "PendingLow", "PendingHigh", "Valid"}
Access == [slot: Buffers, half: {LowLanes, HighLanes}, rdata: Block]
Answer == [op: {"AccessAckData"}, anc: BlkAnc, data: Block] \cup [op: {"AccessAck"}, anc: BlkAnc]
Split == [addr: BlkAddr, data: Block, mask: SUBSET Lanes]

Shape ==
  /\ reqbuf_state \in [Buffers -> State] /\ reqbuf_type \in [Buffers -> {"Read", "Write"}]
  /\ reqbuf_data \in [Buffers -> Block] /\ reqbuf_anc \in [Buffers -> BlkAnc]
  /\ reqbuf_wptr \in Buffers /\ reqbuf_wptr_q \in Buffers /\ reqbuf_rptr \in Buffers
  /\ req_i \in BlkRequest \cup {Nothing}
  /\ mem \in [BlkAddr -> Block] /\ wb \in Seq(Access) /\ owed \in Seq(Answer)
  /\ \/ state_q = "Primed"
     \/ state_q = "ReadHigh" /\ req_q \in Split /\ reqbuf_type[reqbuf_wptr_q] = "Read"
     \/ state_q = "WriteHigh" /\ req_q \in Split /\ reqbuf_type[reqbuf_wptr_q] = "Write"

(* The accesses of a buffer in the controller's queue.                     *)
Unasked(q, s) == \A x \in 1 .. Len(q) : q[x].slot # s
WaitsOne(q, s, H) ==
  \E j \in 1 .. Len(q) :
    q[j].half \in H /\ \A x \in 1 .. Len(q) : q[x].slot = s <=> x = j
WaitsTwo(q, s) ==
  \E j, k \in 1 .. Len(q) :
    /\ j < k /\ q[j].half = LowLanes /\ q[k].half = HighLanes
    /\ \A x \in 1 .. Len(q) : q[x].slot = s <=> x = j \/ x = k

(* What a buffer waits for: st is its state, offer whether its second half *)
(* is still to be offered.                                                 *)
Progress(q, s, st, type, offer) ==
  /\ st = "PendingLow" => IF offer THEN WaitsOne(q, s, {LowLanes}) ELSE WaitsTwo(q, s)
  /\ st = "PendingHigh" =>
       IF offer THEN Unasked(q, s)
       ELSE WaitsOne(q, s, IF type = "Read" THEN {HighLanes} ELSE {LowLanes, HighLanes})
  /\ st \in {"Invalid", "Valid"} => ~offer /\ Unasked(q, s)

Offering(s) == state_q # "Primed" /\ reqbuf_wptr_q = s
Halves == \A s \in Buffers : Progress(wb, s, reqbuf_state[s], reqbuf_type[s], Offering(s))

(* The buffers in use are those from rptr to wptr, one for each answer owed. *)
BufferAt(p, i) == (p + i) % REQBUF_SIZE
Ring ==
  /\ Len(owed) <= REQBUF_SIZE
  /\ reqbuf_wptr = BufferAt(reqbuf_rptr, Len(owed))
  /\ \A d \in 0 .. REQBUF_SIZE - 1 :
       reqbuf_state[BufferAt(reqbuf_rptr, d)] = "Invalid" <=> d >= Len(owed)

Same(lanes, x, y) == \A l \in lanes : x[l] = y[l]
Keeps(s, answer) ==
  /\ reqbuf_anc[s] = answer.anc
  /\ answer.op = IF reqbuf_type[s] = "Read" THEN "AccessAckData" ELSE "AccessAck"
  /\ reqbuf_type[s] = "Read" =>
       /\ reqbuf_state[s] \in {"PendingHigh", "Valid"} => Same(LowLanes, reqbuf_data[s], answer.data)
       /\ reqbuf_state[s] = "Valid" => Same(HighLanes, reqbuf_data[s], answer.data)
       /\ \A k \in 1 .. Len(wb) : wb[k].slot = s => Same(wb[k].half, wb[k].rdata, answer.data)
       /\ Offering(s) => Same(HighLanes, mem[req_q.addr], answer.data)
Promised == \A i \in 1 .. Len(owed) : Keeps(BufferAt(reqbuf_rptr, i - 1), owed[i])

BlkInv == Shape /\ Halves /\ Ring /\ Promised

-------------------------------------------------------------------------------
(* Counting around the ring: p is REQBUF_SIZE steps from p and no sooner.  *)
LEMMA SlotFacts ==
  ASSUME Assumptions, NEW p \in Buffers, NEW i \in 0 .. REQBUF_SIZE
  PROVE  /\ REQBUF_SIZE \in Nat \ {0}
         /\ BufferAt(p, i) \in Buffers /\ BufferAt(p, 0) = p /\ BufferAt(p, REQBUF_SIZE) = p /\ NextBuf(p) \in Buffers
         /\ i < REQBUF_SIZE => BufferAt(NextBuf(p), i) = BufferAt(p, i + 1)
         /\ i < REQBUF_SIZE => NextBuf(BufferAt(p, i)) = BufferAt(p, i + 1)
         /\ \A j \in 0 .. REQBUF_SIZE - 1 :
              j < i /\ i < REQBUF_SIZE => BufferAt(p, j) # BufferAt(p, i)
  BY DEF Assumptions, BufferAt, Buffers, NextBuf

(* The queue without its k-th access.                                      *)
Without(q, k) == SubSeq(q, 1, k - 1) \o SubSeq(q, k + 1, Len(q))

(* Taking the k-th access out moves the later ones up by one.              *)
LEMMA WithoutFacts ==
  ASSUME NEW S, NEW q \in Seq(S), NEW k \in 1 .. Len(q)
  PROVE  /\ Without(q, k) \in Seq(S) /\ Len(q) \in Nat /\ Len(Without(q, k)) = Len(q) - 1
         /\ \A x \in 1 .. Len(q) - 1 : Without(q, k)[x] = IF x < k THEN q[x] ELSE q[x + 1]
<1> DEFINE front == SubSeq(q, 1, k - 1)
           back == SubSeq(q, k + 1, Len(q))
           n == Len(q)
<1>1. n \in Nat /\ k \in 1 .. n /\ \A x \in 1 .. n : q[x] \in S
  BY ElementOfSeq, LenProperties
<1>2. /\ front \in Seq(S) /\ Len(front) = k - 1
      /\ \A x \in 1 .. k - 1 : front[x] = q[x]
  <2>1. \A x \in 1 .. k - 1 : q[x] \in S
    BY <1>1
  <2>2. /\ front \in Seq(S) /\ Len(front) = IF 1 <= k - 1 THEN k - 1 - 1 + 1 ELSE 0
        /\ \A x \in 1 .. k - 1 - 1 + 1 : front[x] = q[1 + x - 1]
    BY <1>1, <2>1, SubSeqProperties
  <2> HIDE DEF front
  <2>3. QED BY <1>1, <2>2
<1>3. /\ back \in Seq(S) /\ Len(back) = n - k
      /\ \A x \in 1 .. n - k : back[x] = q[k + x]
  <2>1. \A x \in k + 1 .. n : q[x] \in S
    BY <1>1
  <2>2. /\ back \in Seq(S) /\ Len(back) = IF k + 1 <= n THEN n - (k + 1) + 1 ELSE 0
        /\ \A x \in 1 .. n - (k + 1) + 1 : back[x] = q[k + 1 + x - 1]
    BY <1>1, <2>1, SubSeqProperties
  <2> HIDE DEF back
  <2>3. QED BY <1>1, <2>2
<1> HIDE DEF front, back
<1>4. ASSUME NEW u \in Seq(S), NEW v \in Seq(S), Len(u) = k - 1, Len(v) = n - k
      PROVE  /\ u \o v \in Seq(S) /\ Len(u \o v) = n - 1
             /\ \A x \in 1 .. n - 1 : (u \o v)[x] = IF x <= k - 1 THEN u[x] ELSE v[x - (k - 1)]
  <2>1. /\ u \o v \in Seq(S) /\ Len(u \o v) = Len(u) + Len(v)
        /\ \A x \in 1 .. Len(u) + Len(v) :
             (u \o v)[x] = IF x <= Len(u) THEN u[x] ELSE v[x - Len(u)]
    BY ConcatProperties
  <2>2. Len(u) + Len(v) = n - 1
    BY <1>1, <1>4
  <2>3. QED BY <2>1, <2>2, <1>4
<1> DEFINE both == front \o back
<1>7. /\ both \in Seq(S) /\ Len(both) = n - 1
      /\ \A x \in 1 .. n - 1 : both[x] = IF x <= k - 1 THEN front[x] ELSE back[x - (k - 1)]
  BY <1>2, <1>3, <1>4, Zenon
<1> HIDE DEF both
<1>5. ASSUME NEW x \in 1 .. n - 1
      PROVE  both[x] = IF x < k THEN q[x] ELSE q[x + 1]
  <2>1. CASE x < k
    BY <1>1, <1>2, <1>7, <2>1
  <2>2. CASE ~(x < k)
    <3>1. x - (k - 1) \in 1 .. n - k /\ ~(x <= k - 1) /\ k + (x - (k - 1)) = x + 1
      BY <1>1, <2>2
    <3>2. QED BY <1>3, <1>7, <2>2, <3>1
  <2>3. QED BY <2>1, <2>2
<1>6. QED BY <1>1, <1>7, <1>5 DEF Without, both, front, back

(* The state an acknowledgement takes a buffer to.                         *)
Later(st) == IF st = "PendingLow" THEN "PendingHigh" ELSE "Valid"
InOrder(q, k) == \A j \in 1 .. k - 1 : q[j].slot # q[k].slot

(* It leaves only accesses that were there.                                *)
LEMMA DropElements ==
  ASSUME NEW S, NEW q \in Seq(S), NEW k \in 1 .. Len(q)
  PROVE  \A x \in 1 .. Len(Without(q, k)) : \E y \in 1 .. Len(q) : y # k /\ Without(q, k)[x] = q[y]
<1> DEFINE r == Without(q, k)
<1>1. /\ Len(q) \in Nat /\ k \in 1 .. Len(q) /\ Len(r) = Len(q) - 1
      /\ \A x \in 1 .. Len(q) - 1 : r[x] = IF x < k THEN q[x] ELSE q[x + 1]
  BY WithoutFacts
<1> HIDE DEF r
<1>2. \A x \in 1 .. Len(r) : \E y \in 1 .. Len(q) : y # k /\ r[x] = q[y]
  BY <1>1
<1>3. QED BY <1>2 DEF r

(* A buffer without accesses is not acknowledged and stays without.        *)
LEMMA DropIdle ==
  ASSUME NEW q \in Seq(Access), NEW k \in 1 .. Len(q), NEW s, Unasked(q, s)
  PROVE  Unasked(Without(q, k), s) /\ q[k].slot # s
<1>1. \A x \in 1 .. Len(Without(q, k)) : \E y \in 1 .. Len(q) : Without(q, k)[x] = q[y]
  BY DropElements
<1>2. QED BY <1>1 DEF Unasked

(* A buffer with one access loses it or keeps it.                          *)
LEMMA DropOne ==
  ASSUME NEW q \in Seq(Access), NEW k \in 1 .. Len(q), NEW s, NEW H, WaitsOne(q, s, H)
  PROVE  IF q[k].slot = s THEN q[k].half \in H /\ Unasked(Without(q, k), s)
         ELSE WaitsOne(Without(q, k), s, H)
<1> DEFINE r == Without(q, k)
           n == Len(q)
<1>1. /\ n \in Nat /\ k \in 1 .. n /\ Len(r) = n - 1
      /\ \A x \in 1 .. n - 1 : r[x] = IF x < k THEN q[x] ELSE q[x + 1]
  BY WithoutFacts
<1>2. PICK j \in 1 .. n : q[j].half \in H /\ \A x \in 1 .. n : q[x].slot = s <=> x = j
  BY DEF WaitsOne
<1> HIDE DEF r, n
<1>3. CASE q[k].slot = s
  <2>1. j = k
    BY <1>1, <1>2, <1>3
  <2>2. \A x \in 1 .. n - 1 : r[x].slot # s
    BY <1>1, <1>2, <2>1
  <2>3. QED BY <1>1, <1>2, <1>3, <2>1, <2>2 DEF Unasked, r
<1>4. CASE q[k].slot # s /\ j < k
  <2>1. j \in 1 .. n - 1 /\ r[j] = q[j]
    BY <1>1, <1>4
  <2>2. \A x \in 1 .. n - 1 : r[x].slot = s <=> x = j
    BY <1>1, <1>2, <1>4
  <2>3. QED BY <1>1, <1>2, <1>4, <2>1, <2>2 DEF WaitsOne, r
<1>5. CASE q[k].slot # s /\ ~(j < k)
  <2>0. j # k
    BY <1>2, <1>5
  <2>1. j - 1 \in 1 .. n - 1 /\ r[j - 1] = q[j]
    BY <1>1, <1>5, <2>0
  <2>2. ASSUME NEW x \in 1 .. n - 1 PROVE r[x].slot = s <=> x = j - 1
    <3>1. CASE x < k
      <4>1. x \in 1 .. n /\ r[x] = q[x] /\ (x = j <=> x = j - 1)
        BY <1>1, <1>2, <1>5, <2>0, <3>1
      <4>2. QED BY <1>2, <4>1
    <3>2. CASE ~(x < k)
      <4>1. x + 1 \in 1 .. n /\ r[x] = q[x + 1] /\ (x + 1 = j <=> x = j - 1)
        BY <1>1, <1>2, <3>2
      <4>2. QED BY <1>2, <4>1
    <3>3. QED BY <3>1, <3>2
  <2>3. QED BY <1>1, <1>2, <1>5, <2>1, <2>2 DEF WaitsOne, r
<1>6. QED BY <1>3, <1>4, <1>5

(* Of two accesses the low half is acknowledged first.                     *)
LEMMA DropTwo ==
  ASSUME NEW q \in Seq(Access), NEW k \in 1 .. Len(q), NEW s, WaitsTwo(q, s), InOrder(q, k)
  PROVE  IF q[k].slot = s THEN q[k].half = LowLanes /\ WaitsOne(Without(q, k), s, {HighLanes})
         ELSE WaitsTwo(Without(q, k), s)
<1> DEFINE r == Without(q, k)
           n == Len(q)
<1>1. /\ n \in Nat /\ k \in 1 .. n /\ Len(r) = n - 1
      /\ \A x \in 1 .. n - 1 : r[x] = IF x < k THEN q[x] ELSE q[x + 1]
  BY WithoutFacts
<1>2. PICK i, j \in 1 .. n :
        /\ i < j /\ q[i].half = LowLanes /\ q[j].half = HighLanes
        /\ \A x \in 1 .. n : q[x].slot = s <=> x = i \/ x = j
  BY DEF WaitsTwo
<1> HIDE DEF r, n
<1>3. CASE q[k].slot = s
  <2>1. i = k
    <3>1. k = i \/ k = j
      BY <1>1, <1>2, <1>3
    <3>2. ASSUME k = j PROVE FALSE
      <4>1. i \in 1 .. k - 1 /\ q[i].slot = s
        BY <1>2, <3>2
      <4>2. QED BY <1>3, <4>1 DEF InOrder
    <3>3. QED BY <3>1, <3>2
  <2>2. j - 1 \in 1 .. n - 1 /\ r[j - 1] = q[j]
    BY <1>1, <1>2, <2>1
  <2>3. ASSUME NEW x \in 1 .. n - 1 PROVE r[x].slot = s <=> x = j - 1
    <3>1. CASE x < k
      <4>1. x \in 1 .. n /\ r[x] = q[x] /\ x # i /\ x # j /\ x # j - 1
        BY <1>1, <1>2, <2>1, <3>1
      <4>2. QED BY <1>2, <4>1
    <3>2. CASE ~(x < k)
      <4>1. x + 1 \in 1 .. n /\ r[x] = q[x + 1] /\ x + 1 # i /\ (x + 1 = j <=> x = j - 1)
        BY <1>1, <1>2, <2>1, <3>2
      <4>2. QED BY <1>2, <4>1
    <3>3. QED BY <3>1, <3>2
  <2>4. QED BY <1>1, <1>2, <1>3, <2>1, <2>2, <2>3 DEF WaitsOne, r
<1>4. ASSUME q[k].slot # s, NEW a \in 1 .. n - 1, NEW b \in 1 .. n - 1, a < b,
             r[a] = q[i], r[b] = q[j], \A x \in 1 .. n - 1 : r[x].slot = s <=> x = a \/ x = b
      PROVE  WaitsTwo(r, s)
  BY <1>1, <1>2, <1>4 DEF WaitsTwo
<1>5. CASE q[k].slot # s
  <2>1. i # k /\ j # k
    BY <1>2, <1>5
  <2>2. CASE k < i
    <3>0. k < j
      BY <1>1, <1>2, <2>2
    <3>4. /\ i - 1 \in 1 .. n - 1 /\ j - 1 \in 1 .. n - 1 /\ i - 1 < j - 1
          /\ ~(i - 1 < k) /\ ~(j - 1 < k) /\ i - 1 + 1 = i /\ j - 1 + 1 = j
      BY <1>1, <1>2, <2>2, <3>0
    <3>1. /\ i - 1 \in 1 .. n - 1 /\ j - 1 \in 1 .. n - 1 /\ i - 1 < j - 1
          /\ r[i - 1] = q[i] /\ r[j - 1] = q[j]
      BY <1>1, <3>4
    <3>2. ASSUME NEW x \in 1 .. n - 1 PROVE r[x].slot = s <=> x = i - 1 \/ x = j - 1
      <4>1. CASE x < k
        <5>1. x \in 1 .. n /\ r[x] = q[x] /\ (x = i \/ x = j <=> x = i - 1 \/ x = j - 1)
          BY <1>1, <1>2, <2>1, <2>2, <4>1
        <5>2. QED BY <1>2, <5>1
      <4>2. CASE ~(x < k)
        <5>1. x + 1 \in 1 .. n /\ r[x] = q[x + 1] /\ (x + 1 = i \/ x + 1 = j <=> x = i - 1 \/ x = j - 1)
          BY <1>1, <1>2, <2>1, <2>2, <4>2
        <5>2. QED BY <1>2, <5>1
      <4>3. QED BY <4>1, <4>2
    <3>3. QED BY <1>4, <1>5, <3>1, <3>2 DEF r
  <2>3. CASE i < k /\ k < j
    <3>1. /\ i \in 1 .. n - 1 /\ j - 1 \in 1 .. n - 1 /\ i < j - 1
          /\ r[i] = q[i] /\ r[j - 1] = q[j]
      BY <1>1, <1>2, <2>1, <2>3
    <3>2. ASSUME NEW x \in 1 .. n - 1 PROVE r[x].slot = s <=> x = i \/ x = j - 1
      <4>1. CASE x < k
        <5>1. x \in 1 .. n /\ r[x] = q[x] /\ (x = i \/ x = j <=> x = i \/ x = j - 1)
          BY <1>1, <1>2, <2>1, <2>3, <4>1
        <5>2. QED BY <1>2, <5>1
      <4>2. CASE ~(x < k)
        <5>1. x + 1 \in 1 .. n /\ r[x] = q[x + 1] /\ (x + 1 = i \/ x + 1 = j <=> x = i \/ x = j - 1)
          BY <1>1, <1>2, <2>1, <2>3, <4>2
        <5>2. QED BY <1>2, <5>1
      <4>3. QED BY <4>1, <4>2
    <3>3. QED BY <1>4, <1>5, <3>1, <3>2 DEF r
  <2>4. CASE j < k
    <3>1. /\ i \in 1 .. n - 1 /\ j \in 1 .. n - 1 /\ i < j
          /\ r[i] = q[i] /\ r[j] = q[j]
      BY <1>1, <1>2, <2>1, <2>4
    <3>2. ASSUME NEW x \in 1 .. n - 1 PROVE r[x].slot = s <=> x = i \/ x = j
      <4>1. CASE x < k
        <5>1. x \in 1 .. n /\ r[x] = q[x] /\ (x = i \/ x = j <=> x = i \/ x = j)
          BY <1>1, <1>2, <2>1, <2>4, <4>1
        <5>2. QED BY <1>2, <5>1
      <4>2. CASE ~(x < k)
        <5>1. x + 1 \in 1 .. n /\ r[x] = q[x + 1] /\ (x + 1 = i \/ x + 1 = j <=> x = i \/ x = j)
          BY <1>1, <1>2, <2>1, <2>4, <4>2
        <5>2. QED BY <1>2, <5>1
      <4>3. QED BY <4>1, <4>2
    <3>3. QED BY <1>4, <1>5, <3>1, <3>2 DEF r
  <2>5. QED BY <1>1, <1>2, <2>1, <2>2, <2>3, <2>4
<1>6. QED BY <1>3, <1>5

(* So an acknowledgement takes a buffer's state where its accesses are:    *)
(* PendingLow to PendingHigh, PendingHigh to Valid, and it brings the half *)
(* the buffer writes (rvlab_ddr_blkmgr.sv:216-248).                        *)
LEMMA DropProgress ==
  ASSUME NEW q \in Seq(Access), NEW k \in 1 .. Len(q), InOrder(q, k),
         NEW s, NEW st \in State, NEW type, NEW offer \in BOOLEAN,
         Progress(q, s, st, type, offer)
  PROVE  IF q[k].slot = s
         THEN /\ st \in {"PendingLow", "PendingHigh"} /\ (type = "Read" => q[k].half = HalfOf(st))
              /\ Progress(Without(q, k), s, Later(st), type, offer)
         ELSE Progress(Without(q, k), s, st, type, offer)
<1>1. CASE st = "PendingLow" /\ offer
  <2>1. WaitsOne(q, s, {LowLanes})
    BY <1>1 DEF Progress
  <2>2. QED BY <1>1, <2>1, DropOne DEF Progress, Later, HalfOf
<1>2. CASE st = "PendingLow" /\ ~offer
  <2>1. WaitsTwo(q, s)
    BY <1>2 DEF Progress
  <2>2. IF q[k].slot = s THEN q[k].half = LowLanes /\ WaitsOne(Without(q, k), s, {HighLanes})
        ELSE WaitsTwo(Without(q, k), s)
    BY <2>1, DropTwo
  <2>3. WaitsOne(Without(q, k), s, {HighLanes}) => WaitsOne(Without(q, k), s, {LowLanes, HighLanes})
    BY DEF WaitsOne
  <2>4. QED BY <1>2, <2>2, <2>3 DEF Progress, Later, HalfOf
<1>3. CASE st = "PendingHigh" /\ offer
  <2>1. Unasked(q, s)
    BY <1>3 DEF Progress
  <2>2. QED BY <1>3, <2>1, DropIdle DEF Progress, Later, HalfOf
<1>4. CASE st = "PendingHigh" /\ ~offer
  <2> DEFINE H == IF type = "Read" THEN {HighLanes} ELSE {LowLanes, HighLanes}
  <2>1. WaitsOne(q, s, H)
    BY <1>4 DEF Progress
  <2>2. IF q[k].slot = s THEN q[k].half \in H /\ Unasked(Without(q, k), s)
        ELSE WaitsOne(Without(q, k), s, H)
    BY <2>1, DropOne
  <2>3. QED BY <1>4, <2>2 DEF Progress, Later, HalfOf
<1>5. CASE st \in {"Invalid", "Valid"}
  <2>1. ~offer /\ Unasked(q, s)
    BY <1>5 DEF Progress
  <2>2. QED BY <1>5, <2>1, DropIdle DEF Progress
<1>6. QED BY <1>1, <1>2, <1>3, <1>4, <1>5 DEF State

(* An accepted access goes to the end of the queue.                        *)
LEMMA PutFacts ==
  ASSUME NEW S, NEW q \in Seq(S), NEW item \in S
  PROVE  /\ Append(q, item) \in Seq(S) /\ Len(q) \in Nat /\ Len(Append(q, item)) = Len(q) + 1
         /\ \A x \in 1 .. Len(q) : Append(q, item)[x] = q[x]
         /\ Append(q, item)[Len(q) + 1] = item
         /\ \A x \in 1 .. Len(q) + 1 : x \in 1 .. Len(q) \/ x = Len(q) + 1
  BY AppendProperties, LenProperties

(* The buffers it is not for keep their accesses.                          *)
LEMMA PutOther ==
  ASSUME NEW q \in Seq(Access), NEW item \in Access, NEW s, item.slot # s,
         NEW st, NEW type, NEW offer, Progress(q, s, st, type, offer)
  PROVE  Progress(Append(q, item), s, st, type, offer)
<1> DEFINE p == Append(q, item)
           n == Len(q)
<1>1. /\ n \in Nat /\ Len(p) = n + 1 /\ \A x \in 1 .. n : p[x] = q[x]
      /\ p[n + 1] = item /\ \A x \in 1 .. n + 1 : x \in 1 .. n \/ x = n + 1
  BY PutFacts
<1> HIDE DEF p, n
<1>2. Unasked(q, s) => Unasked(p, s)
  BY <1>1 DEF Unasked, n
<1>3. ASSUME NEW H, WaitsOne(q, s, H) PROVE WaitsOne(p, s, H)
  <2>1. PICK j \in 1 .. n : q[j].half \in H /\ \A x \in 1 .. n : q[x].slot = s <=> x = j
    BY <1>3 DEF WaitsOne, n
  <2>2. j \in 1 .. n + 1 /\ j # n + 1
    BY <1>1
  <2>3. \A x \in 1 .. n + 1 : p[x].slot = s <=> x = j
    BY <1>1, <2>1, <2>2
  <2>4. QED BY <1>1, <2>1, <2>2, <2>3 DEF WaitsOne
<1>4. ASSUME WaitsTwo(q, s) PROVE WaitsTwo(p, s)
  <2>1. PICK i, j \in 1 .. n :
          /\ i < j /\ q[i].half = LowLanes /\ q[j].half = HighLanes
          /\ \A x \in 1 .. n : q[x].slot = s <=> x = i \/ x = j
    BY <1>4 DEF WaitsTwo, n
  <2>2. i \in 1 .. n + 1 /\ i # n + 1 /\ j \in 1 .. n + 1 /\ j # n + 1
    BY <1>1
  <2>3. \A x \in 1 .. n + 1 : p[x].slot = s <=> x = i \/ x = j
    BY <1>1, <2>1, <2>2
  <2>4. QED BY <1>1, <2>1, <2>2, <2>3 DEF WaitsTwo
<1>5. QED BY <1>2, <1>3, <1>4 DEF Progress, p

(* The first access of a buffer that had none.                             *)
LEMMA PutFirst ==
  ASSUME NEW q \in Seq(Access), NEW item \in Access, Unasked(q, item.slot)
  PROVE  WaitsOne(Append(q, item), item.slot, {item.half})
<1> DEFINE p == Append(q, item)
           n == Len(q)
<1>1. /\ n \in Nat /\ Len(p) = n + 1 /\ \A x \in 1 .. n : p[x] = q[x]
      /\ p[n + 1] = item /\ \A x \in 1 .. n + 1 : x \in 1 .. n \/ x = n + 1
  BY PutFacts
<1>2. n + 1 \in 1 .. n + 1 /\ \A x \in 1 .. n : x # n + 1
  BY <1>1
<1> HIDE DEF p, n
<1>3. \A x \in 1 .. n + 1 : p[x].slot = item.slot <=> x = n + 1
  BY <1>1, <1>2 DEF Unasked, n
<1>4. QED BY <1>1, <1>2, <1>3 DEF WaitsOne, p

(* The high half behind the low one.                                       *)
LEMMA PutSecond ==
  ASSUME NEW q \in Seq(Access), NEW item \in Access,
         WaitsOne(q, item.slot, {LowLanes}), item.half = HighLanes
  PROVE  WaitsTwo(Append(q, item), item.slot)
<1> DEFINE p == Append(q, item)
           n == Len(q)
<1>1. /\ n \in Nat /\ Len(p) = n + 1 /\ \A x \in 1 .. n : p[x] = q[x]
      /\ p[n + 1] = item /\ \A x \in 1 .. n + 1 : x \in 1 .. n \/ x = n + 1
  BY PutFacts
<1>2. n + 1 \in 1 .. n + 1 /\ \A x \in 1 .. n : x # n + 1
  BY <1>1
<1> HIDE DEF p, n
<1>3. PICK j \in 1 .. n :
        q[j].half = LowLanes /\ \A x \in 1 .. n : q[x].slot = item.slot <=> x = j
  BY DEF WaitsOne, n
<1>4. j \in 1 .. n + 1 /\ j < n + 1
  BY <1>1
<1>5. \A x \in 1 .. n + 1 : p[x].slot = item.slot <=> x = j \/ x = n + 1
  BY <1>1, <1>2, <1>3
<1>6. p[j].half = LowLanes /\ p[n + 1].half = HighLanes
  BY <1>1, <1>3
<1>7. QED BY <1>1, <1>2, <1>4, <1>5, <1>6 DEF WaitsTwo, p

-------------------------------------------------------------------------------
(* What every edge does; accepted is a_ready, popped the answer taken.     *)
ClockEdge(taken, accepted, popped, ack, r) ==
  /\ taken \in BOOLEAN /\ accepted = (taken /\ state_q = "Primed") /\ popped \in BOOLEAN
  /\ ack \in {0} \cup Ackable /\ r \in BlkRequest \cup {Nothing}
  /\ taken /\ state_q = "Primed" =>
       req_i \in BlkRequest /\ reqbuf_state[reqbuf_wptr] = "Invalid"
  /\ popped => reqbuf_state[reqbuf_rptr] = "Valid"
  /\ StateMachine(taken) /\ Latch(accepted) /\ BufferStates(accepted, ack, popped)
  /\ BufferData(ack) /\ Respond(popped) /\ Controller(taken, ack)
  /\ HostPresents(accepted, r) /\ Owe(accepted, popped)

(* Every step is a clock edge, on which a request is accepted only into a  *)
(* free buffer and only a Valid buffer is answered from.                   *)
LEMMA NextIsClockEdge ==
  ASSUME Shape, BlkNext
  PROVE  \E taken, accepted, popped \in BOOLEAN, ack \in {0} \cup Ackable,
            r \in BlkRequest \cup {Nothing} : ClockEdge(taken, accepted, popped, ack, r)
<1>1. PICK wb_stall, d_ready \in BOOLEAN, r \in BlkRequest \cup {Nothing}, ack \in {0} \cup Ackable :
        BlkClock(wb_stall, ack, d_ready, r)
  BY DEF BlkNext
<1> DEFINE taken == wb_stb /\ ~wb_stall
           accepted == taken /\ state_q = "Primed"
           popped == reqbuf_state[reqbuf_rptr] = "Valid" /\ d_ready
<1>2. /\ StateMachine(taken) /\ Latch(accepted) /\ BufferStates(accepted, ack, popped)
      /\ BufferData(ack) /\ Respond(popped) /\ Controller(taken, ack)
      /\ HostPresents(accepted, r) /\ Owe(accepted, popped)
  BY <1>1 DEF BlkClock
<1>3. taken /\ state_q = "Primed" =>
        req_i \in BlkRequest /\ reqbuf_state[reqbuf_wptr] = "Invalid"
  BY DEF Shape, wb_stb, reqbuf_full
<1>4. taken \in BOOLEAN /\ accepted \in BOOLEAN /\ popped \in BOOLEAN
  BY DEF wb_stb
<1>5. popped => reqbuf_state[reqbuf_rptr] = "Valid"
  OBVIOUS
<1>6. accepted = (taken /\ state_q = "Primed")
  OBVIOUS
<1> HIDE DEF taken, accepted, popped
<1>7. ClockEdge(taken, accepted, popped, ack, r)
  BY <1>2, <1>3, <1>4, <1>5, <1>6 DEF ClockEdge
<1>8. QED BY <1>4, <1>7

(* The queue and a buffer's state once the acknowledgement is taken off.   *)
Rest(ack) == IF ack = 0 THEN wb ELSE Without(wb, ack)
AckState(ack, s) == IF Acked(ack, s) THEN Later(reqbuf_state[s]) ELSE reqbuf_state[s]

(* The acknowledgement alone: the rest of the queue agrees with the        *)
(* buffers' states.                                                        *)
LEMMA AckStep ==
  ASSUME Shape, Halves, NEW ack \in {0} \cup Ackable
  PROVE  /\ Rest(ack) \in Seq(Access)
         /\ \A x \in 1 .. Len(Rest(ack)) : \E y \in 1 .. Len(wb) : Rest(ack)[x] = wb[y]
         /\ \A s \in Buffers :
              /\ Progress(Rest(ack), s, AckState(ack, s), reqbuf_type[s], Offering(s))
              /\ Acked(ack, s) =>
                   /\ reqbuf_state[s] \in {"PendingLow", "PendingHigh"}
                   /\ reqbuf_type[s] = "Read" => wb[ack].half = HalfOf(reqbuf_state[s])
<1>1. CASE ack = 0
  BY <1>1 DEF Rest, AckState, Acked, Halves, Shape
<1>2. CASE ack # 0
  <2>1. wb \in Seq(Access) /\ ack \in 1 .. Len(wb) /\ InOrder(wb, ack)
    BY <1>2 DEF Ackable, InOrder, Shape
  <2>2. Without(wb, ack) \in Seq(Access)
    BY <2>1, WithoutFacts
  <2>3. \A x \in 1 .. Len(Without(wb, ack)) : \E y \in 1 .. Len(wb) : Without(wb, ack)[x] = wb[y]
    BY <2>1, DropElements
  <2>4. ASSUME NEW s \in Buffers
        PROVE  /\ Progress(Without(wb, ack), s, AckState(ack, s), reqbuf_type[s], Offering(s))
               /\ Acked(ack, s) =>
                   /\ reqbuf_state[s] \in {"PendingLow", "PendingHigh"}
                   /\ reqbuf_type[s] = "Read" => wb[ack].half = HalfOf(reqbuf_state[s])
    <3>1. reqbuf_state[s] \in State /\ Offering(s) \in BOOLEAN
      BY DEF Shape, Offering
    <3>2. Progress(wb, s, reqbuf_state[s], reqbuf_type[s], Offering(s))
      BY DEF Halves
    <3>3. IF wb[ack].slot = s
          THEN /\ reqbuf_state[s] \in {"PendingLow", "PendingHigh"}
               /\ (reqbuf_type[s] = "Read" => wb[ack].half = HalfOf(reqbuf_state[s]))
               /\ Progress(Without(wb, ack), s, Later(reqbuf_state[s]), reqbuf_type[s], Offering(s))
          ELSE Progress(Without(wb, ack), s, reqbuf_state[s], reqbuf_type[s], Offering(s))
      BY <2>1, <3>1, <3>2, DropProgress
    <3>4. QED BY <1>2, <3>3, Zenon DEF AckState, Acked
  <2>5. QED BY <1>2, <2>2, <2>3, <2>4 DEF Rest
<1>3. QED BY <1>1, <1>2

(* The state of a buffer after the edge: accepted into, answered from, or  *)
(* moved on by the acknowledgement alone.                                  *)
LEMMA StateStep ==
  ASSUME Shape, Halves, NEW taken, NEW accepted, NEW popped, NEW ack, NEW r,
         ClockEdge(taken, accepted, popped, ack, r), NEW s \in Buffers
  PROVE  /\ accepted /\ s = reqbuf_wptr =>
              /\ reqbuf_state[s] = "Invalid" /\ AckState(ack, s) = "Invalid"
              /\ reqbuf_state'[s] = IF req_i.op = "PutPartialData" THEN "PendingHigh"
                                    ELSE "PendingLow"
         /\ popped /\ s = reqbuf_rptr =>
              /\ reqbuf_state[s] = "Valid" /\ AckState(ack, s) = "Valid"
              /\ reqbuf_state'[s] = "Invalid"
         /\ ~(accepted /\ s = reqbuf_wptr) /\ ~(popped /\ s = reqbuf_rptr) =>
              reqbuf_state'[s] = AckState(ack, s)
<1>1. ack \in {0} \cup Ackable
  BY DEF ClockEdge
<1>2. Acked(ack, s) => reqbuf_state[s] \in {"PendingLow", "PendingHigh"}
  BY <1>1, AckStep
<1>3. accepted /\ s = reqbuf_wptr => reqbuf_state[s] = "Invalid"
  BY DEF ClockEdge
<1>4. popped /\ s = reqbuf_rptr => reqbuf_state[s] = "Valid"
  BY DEF ClockEdge
<1>5. reqbuf_state'[s] =
    CASE popped /\ s = reqbuf_rptr -> "Invalid"
      [] Acked(ack, s) /\ reqbuf_state[s] = "PendingLow" -> "PendingHigh"
      [] Acked(ack, s) /\ reqbuf_state[s] = "PendingHigh" -> "Valid"
      [] accepted /\ s = reqbuf_wptr ->
           IF req_i.op = "PutPartialData" THEN "PendingHigh" ELSE "PendingLow"
      [] OTHER -> reqbuf_state[s]
  BY DEF ClockEdge, BufferStates
<1>6. QED BY <1>2, <1>3, <1>4, <1>5 DEF AckState, Later

(* The access the controller takes, in its queue.                          *)
Item == [slot |-> access.slot, half |-> access.half,
         rdata |-> IF access.we THEN [l \in Lanes |-> Junk] ELSE mem[access.addr]]

(* The controller's queue after the edge, and what the accepted access is. *)
LEMMA QueueStep ==
  ASSUME Assumptions, Shape, NEW taken, NEW accepted, NEW popped, NEW ack, NEW r,
         ClockEdge(taken, accepted, popped, ack, r)
  PROVE  /\ taken => Item \in Access
         /\ taken /\ state_q = "Primed" =>
              /\ Item.slot = reqbuf_wptr
              /\ Item.half = IF req_i.op = "PutPartialData" THEN PartialHalf(req_i) ELSE LowLanes
              /\ req_i.op = "Get" => Item.rdata = mem[req_i.addr]
         /\ taken /\ state_q # "Primed" =>
              /\ Item.slot = reqbuf_wptr_q /\ Item.half = HighLanes
              /\ state_q = "ReadHigh" => Item.rdata = mem[req_q.addr]
         /\ wb' = IF taken THEN Append(Rest(ack), Item) ELSE Rest(ack)
<1>1. [l \in Lanes |-> Junk] \in Block
  BY DEF Assumptions, Block
<1>2. ASSUME taken, state_q = "Primed"
      PROVE  /\ Item \in Access /\ Item.slot = reqbuf_wptr
             /\ Item.half = IF req_i.op = "PutPartialData" THEN PartialHalf(req_i) ELSE LowLanes
             /\ req_i.op = "Get" => Item.rdata = mem[req_i.addr]
  <2>1. req_i \in BlkRequest /\ req_i.addr \in BlkAddr
    BY <1>2 DEF ClockEdge, Assumptions
  <2>2. mem[req_i.addr] \in Block /\ reqbuf_wptr \in Buffers
    BY <2>1 DEF Shape
  <2>3. access = FirstHalf(req_i)
    BY <1>2 DEF access
  <2> DEFINE h == IF req_i.op = "PutPartialData" THEN PartialHalf(req_i) ELSE LowLanes
             d == IF req_i.op # "Get" THEN [l \in Lanes |-> Junk] ELSE mem[req_i.addr]
  <2>4. Item = [slot |-> reqbuf_wptr, half |-> h, rdata |-> d]
    BY <2>3 DEF Item, FirstHalf
  <2>5. h \in {LowLanes, HighLanes} /\ d \in Block
    BY <1>1, <2>2 DEF PartialHalf
  <2> HIDE DEF h, d
  <2>6. Item \in Access /\ Item.slot = reqbuf_wptr /\ Item.half = h /\ Item.rdata = d
    BY <2>2, <2>4, <2>5 DEF Access
  <2>7. QED BY <2>6 DEF h, d
<1>3. ASSUME taken, state_q # "Primed"
      PROVE  /\ Item \in Access /\ Item.slot = reqbuf_wptr_q /\ Item.half = HighLanes
             /\ state_q = "ReadHigh" => Item.rdata = mem[req_q.addr]
  <2>1. reqbuf_wptr_q \in Buffers /\ mem[req_q.addr] \in Block
    BY <1>3 DEF Shape, Split
  <2>2. access = SecondHalf
    BY <1>3 DEF access
  <2> DEFINE d == IF state_q = "WriteHigh" THEN [l \in Lanes |-> Junk] ELSE mem[req_q.addr]
  <2>3. Item = [slot |-> reqbuf_wptr_q, half |-> HighLanes, rdata |-> d]
    BY <2>2 DEF Item, SecondHalf
  <2>4. d \in Block
    BY <1>1, <2>1
  <2>5. Item \in Access /\ Item.slot = reqbuf_wptr_q /\ Item.half = HighLanes /\ Item.rdata = d
    BY <2>1, <2>3, <2>4 DEF Access
  <2>6. QED BY <2>5
<1>4. wb' = IF taken THEN Append(Rest(ack), Item) ELSE Rest(ack)
  BY DEF ClockEdge, Controller, Rest, Without, Item
<1>5. QED BY <1>2, <1>3, <1>4

(* What the controller has to do once a request is accepted, or its second *)
(* half taken.                                                             *)
LEMMA OfferStep ==
  ASSUME Shape, NEW taken, NEW accepted, NEW popped, NEW ack, NEW r,
         ClockEdge(taken, accepted, popped, ack, r), NEW s \in Buffers
  PROVE  /\ ~taken => /\ state_q' = state_q /\ req_q' = req_q /\ reqbuf_wptr_q' = reqbuf_wptr_q
                      /\ mem' = mem /\ Offering(s)' = Offering(s)
         /\ taken /\ state_q # "Primed" => state_q' = "Primed" /\ ~Offering(s)'
         /\ accepted => /\ state_q = "Primed" /\ taken /\ reqbuf_wptr_q' = reqbuf_wptr
                        /\ req_q' = [addr |-> req_i.addr, data |-> req_i.data, mask |-> req_i.mask]
                        /\ ~Offering(s)
                        /\ req_i.op = "Get" => state_q' = "ReadHigh"
                        /\ req_i.op = "PutFullData" => state_q' = "WriteHigh"
                        /\ req_i.op = "PutPartialData" => state_q' = "Primed"
         /\ ~accepted => reqbuf_wptr_q' = reqbuf_wptr_q
<1>1. state_q' = IF ~taken THEN state_q
             ELSE CASE state_q = "Primed" /\ req_i.op = "Get" -> "ReadHigh"
                    [] state_q = "Primed" /\ req_i.op = "PutFullData" -> "WriteHigh"
                    [] OTHER -> "Primed"
  BY DEF ClockEdge, StateMachine
<1>2. /\ taken \in BOOLEAN /\ accepted = (taken /\ state_q = "Primed")
      /\ req_q' = IF accepted THEN [addr |-> req_i.addr, data |-> req_i.data, mask |-> req_i.mask]
                  ELSE req_q
      /\ reqbuf_wptr_q' = IF accepted THEN reqbuf_wptr ELSE reqbuf_wptr_q
  BY DEF ClockEdge, Latch
<1>3. ~taken => mem' = mem
  BY DEF ClockEdge, Controller
<1>4. QED BY <1>1, <1>2, <1>3 DEF Offering

(* The halves add up after every edge.                                     *)
LEMMA HalvesStep ==
  ASSUME Assumptions, Shape, Halves, NEW taken, NEW accepted, NEW popped, NEW ack, NEW r,
         ClockEdge(taken, accepted, popped, ack, r)
  PROVE  Halves'
<1> SUFFICES ASSUME NEW s \in Buffers
             PROVE  Progress(wb', s, reqbuf_state'[s], reqbuf_type'[s], Offering(s)')
  BY DEF Halves, Buffers
<1> DEFINE q == Rest(ack)
<1>1. /\ q \in Seq(Access)
      /\ Progress(q, s, AckState(ack, s), reqbuf_type[s], Offering(s))
  <2>1. ack \in {0} \cup Ackable
    BY DEF ClockEdge
  <2>2. QED BY <2>1, AckStep
<1>2. taken \in BOOLEAN /\ accepted = (taken /\ state_q = "Primed")
  BY DEF ClockEdge
<1>3. /\ accepted /\ s = reqbuf_wptr =>
           /\ AckState(ack, s) = "Invalid"
           /\ reqbuf_state'[s] = IF req_i.op = "PutPartialData" THEN "PendingHigh"
                                 ELSE "PendingLow"
      /\ popped /\ s = reqbuf_rptr => AckState(ack, s) = "Valid" /\ reqbuf_state'[s] = "Invalid"
      /\ ~(accepted /\ s = reqbuf_wptr) /\ ~(popped /\ s = reqbuf_rptr) =>
           reqbuf_state'[s] = AckState(ack, s)
  BY StateStep
<1>4. reqbuf_type'[s] = IF accepted /\ s = reqbuf_wptr
                        THEN IF req_i.op = "Get" THEN "Read" ELSE "Write"
                        ELSE reqbuf_type[s]
  BY DEF ClockEdge, Latch, Shape
<1>5. wb' = IF taken THEN Append(q, Item) ELSE q
  BY QueueStep
<1> HIDE DEF q
<1>6. CASE accepted /\ s = reqbuf_wptr
  <2>1. Item \in Access /\ Item.slot = s
        /\ Item.half = IF req_i.op = "PutPartialData" THEN PartialHalf(req_i) ELSE LowLanes
    BY <1>2, <1>6, QueueStep
  <2>2. Unasked(q, s)
    BY <1>1, <1>3, <1>6 DEF Progress
  <2>3. WaitsOne(wb', s, {Item.half})
    BY <1>1, <1>2, <1>5, <1>6, <2>1, <2>2, PutFirst
  <2>4. req_i.op \in {"Get", "PutFullData", "PutPartialData"}
    BY <1>2, <1>6 DEF ClockEdge, Assumptions
  <2>5. reqbuf_state'[s] = IF req_i.op = "PutPartialData" THEN "PendingHigh" ELSE "PendingLow"
    BY <1>3, <1>6
  <2>6. Offering(s)' = (req_i.op # "PutPartialData")
    BY <1>6, <2>4, OfferStep DEF Offering
  <2>7. CASE req_i.op = "PutPartialData"
    <3>1. Item.half \in {LowLanes, HighLanes}
      BY <2>1 DEF PartialHalf
    <3>2. WaitsOne(wb', s, {LowLanes, HighLanes})
      BY <2>3, <3>1 DEF WaitsOne
    <3>3. QED BY <1>4, <1>6, <2>5, <2>6, <2>7, <3>2 DEF Progress
  <2>8. CASE req_i.op # "PutPartialData"
    <3>1. WaitsOne(wb', s, {LowLanes})
      BY <2>1, <2>3, <2>8
    <3>2. QED BY <2>5, <2>6, <2>8, <3>1 DEF Progress
  <2>9. QED BY <2>7, <2>8
<1>7. CASE taken /\ state_q # "Primed" /\ s = reqbuf_wptr_q
  <2>1. Item \in Access /\ Item.slot = s /\ Item.half = HighLanes
    BY <1>7, QueueStep
  <2>2. Offering(s) /\ ~Offering(s)' /\ ~accepted /\ wb' = Append(q, Item)
    BY <1>2, <1>5, <1>7, OfferStep DEF Offering
  <2>3. AckState(ack, s) \in {"PendingLow", "PendingHigh"}
    <3>1. AckState(ack, s) \in State
      BY DEF AckState, Later, State, Shape
    <3>2. QED BY <1>1, <2>2, <3>1 DEF Progress, State
  <2>4. reqbuf_state'[s] = AckState(ack, s)
    BY <1>3, <2>2, <2>3, Zenon
  <2>5. CASE AckState(ack, s) = "PendingLow"
    <3>1. WaitsOne(q, s, {LowLanes})
      BY <1>1, <2>2, <2>5 DEF Progress
    <3>2. WaitsTwo(wb', s)
      BY <1>1, <2>1, <2>2, <3>1, PutSecond
    <3>3. QED BY <2>2, <2>4, <2>5, <3>2 DEF Progress
  <2>6. CASE AckState(ack, s) = "PendingHigh"
    <3>1. Unasked(q, s)
      BY <1>1, <2>2, <2>6 DEF Progress
    <3>2. WaitsOne(wb', s, {HighLanes})
      BY <1>1, <2>1, <2>2, <3>1, PutFirst
    <3>3. WaitsOne(wb', s, {LowLanes, HighLanes})
      BY <3>2 DEF WaitsOne
    <3>4. QED BY <2>2, <2>4, <2>6, <3>2, <3>3 DEF Progress
  <2>7. QED BY <2>3, <2>5, <2>6
<1>8. CASE ~(accepted /\ s = reqbuf_wptr) /\ ~(taken /\ state_q # "Primed" /\ s = reqbuf_wptr_q)
  <2>1. reqbuf_type'[s] = reqbuf_type[s] /\ Offering(s)' = Offering(s)
    BY <1>2, <1>4, <1>8, OfferStep DEF Offering
  <2>2. Progress(wb', s, AckState(ack, s), reqbuf_type[s], Offering(s))
    <3>1. CASE taken
      <4>1. Item \in Access /\ Item.slot # s
        BY <1>2, <1>8, <3>1, QueueStep
      <4>2. QED BY <1>1, <1>5, <3>1, <4>1, PutOther
    <3>2. CASE ~taken
      BY <1>1, <1>5, <3>2
    <3>3. QED BY <3>1, <3>2
  <2>3. CASE popped /\ s = reqbuf_rptr
    <3>1. AckState(ack, s) = "Valid" /\ reqbuf_state'[s] = "Invalid"
      BY <1>3, <2>3
    <3>2. QED BY <2>1, <2>2, <3>1 DEF Progress
  <2>4. CASE ~(popped /\ s = reqbuf_rptr)
    <3>1. reqbuf_state'[s] = AckState(ack, s)
      BY <1>3, <1>8, <2>4
    <3>2. QED BY <2>1, <2>2, <3>1
  <2>5. QED BY <2>3, <2>4
<1>9. QED BY <1>2, <1>6, <1>7, <1>8

-------------------------------------------------------------------------------
(* The ring, with F the free buffers, p its first buffer in use and n the  *)
(* number in use.                                                          *)
RingOf(F, p, n) == \A d \in 0 .. REQBUF_SIZE - 1 : BufferAt(p, d) \in F <=> d >= n

(* Answering from the oldest buffer frees it.                              *)
LEMMA RingPop ==
  ASSUME Assumptions, NEW p \in Buffers, NEW n \in 1 .. REQBUF_SIZE, NEW F, RingOf(F, p, n)
  PROVE  RingOf(F \cup {p}, NextBuf(p), n - 1) /\ BufferAt(NextBuf(p), n - 1) = BufferAt(p, n)
<1>1. REQBUF_SIZE \in Nat \ {0} /\ NextBuf(p) \in Buffers /\ BufferAt(p, 0) = p /\ BufferAt(p, REQBUF_SIZE) = p
  BY SlotFacts DEF Assumptions
<1>2. ASSUME NEW d \in 0 .. REQBUF_SIZE - 1 PROVE BufferAt(NextBuf(p), d) = BufferAt(p, d + 1)
  <2>1. d \in 0 .. REQBUF_SIZE /\ d < REQBUF_SIZE
    BY <1>1
  <2>2. QED BY <2>1, SlotFacts
<1>3. ASSUME NEW d \in 0 .. REQBUF_SIZE - 1
      PROVE  BufferAt(NextBuf(p), d) \in F \cup {p} <=> d >= n - 1
  <2>1. CASE d = REQBUF_SIZE - 1
    <3>1. d + 1 = REQBUF_SIZE /\ d >= n - 1
      BY <1>1, <2>1
    <3>2. QED BY <1>1, <1>2, <3>1
  <2>2. CASE d # REQBUF_SIZE - 1
    <3>1. d + 1 \in 0 .. REQBUF_SIZE - 1 /\ d + 1 \in 0 .. REQBUF_SIZE /\ d + 1 < REQBUF_SIZE
          /\ 0 \in 0 .. REQBUF_SIZE - 1 /\ 0 < d + 1
      BY <1>1, <2>2
    <3>2. BufferAt(p, 0) # BufferAt(p, d + 1)
      BY <3>1, SlotFacts
    <3>3. BufferAt(p, d + 1) \in F <=> d + 1 >= n
      BY <3>1 DEF RingOf
    <3>4. d + 1 >= n <=> d >= n - 1
      BY <1>1
    <3>5. QED BY <1>1, <1>2, <3>2, <3>3, <3>4
  <2>3. QED BY <2>1, <2>2
<1>4. n - 1 \in 0 .. REQBUF_SIZE - 1 /\ n - 1 + 1 = n
  BY <1>1
<1>5. QED BY <1>2, <1>3, <1>4 DEF RingOf

(* Accepting a request takes the next free buffer.                         *)
LEMMA RingAccept ==
  ASSUME Assumptions, NEW p \in Buffers, NEW n \in 0 .. REQBUF_SIZE - 1, NEW F, RingOf(F, p, n)
  PROVE  RingOf(F \ {BufferAt(p, n)}, p, n + 1) /\ NextBuf(BufferAt(p, n)) = BufferAt(p, n + 1)
<1>1. REQBUF_SIZE \in Nat \ {0} /\ n \in 0 .. REQBUF_SIZE /\ n < REQBUF_SIZE
  BY DEF Assumptions
<1>2. ASSUME NEW d \in 0 .. REQBUF_SIZE - 1, d # n PROVE BufferAt(p, d) # BufferAt(p, n)
  <2>1. d \in 0 .. REQBUF_SIZE /\ d < REQBUF_SIZE
    BY <1>1
  <2>2. CASE d < n
    BY <1>1, <2>2, SlotFacts
  <2>3. CASE n < d
    BY <2>1, <2>3, SlotFacts
  <2>4. QED BY <1>1, <1>2, <2>2, <2>3
<1>3. ASSUME NEW d \in 0 .. REQBUF_SIZE - 1
      PROVE  BufferAt(p, d) \in F \ {BufferAt(p, n)} <=> d >= n + 1
  <2>1. BufferAt(p, d) \in F <=> d >= n
    BY DEF RingOf
  <2>2. QED BY <1>1, <1>2, <2>1
<1>4. NextBuf(BufferAt(p, n)) = BufferAt(p, n + 1)
  BY <1>1, SlotFacts
<1>5. QED BY <1>3, <1>4 DEF RingOf

(* Only a buffer in use is answered from, and a full ring accepts nothing. *)
LEMMA OwedStep ==
  ASSUME Assumptions, Shape, Ring, NEW taken, NEW accepted, NEW popped, NEW ack, NEW r,
         ClockEdge(taken, accepted, popped, ack, r)
  PROVE  /\ Len(owed) \in 0 .. REQBUF_SIZE /\ (popped => owed # <<>> /\ Len(owed) >= 1)
         /\ accepted => Len(owed) < REQBUF_SIZE
<1>1. Len(owed) \in 0 .. REQBUF_SIZE
  <2>1. Len(owed) \in Nat
    BY LenProperties DEF Shape
  <2>2. QED BY <2>1 DEF Ring, Assumptions
<1>2. reqbuf_rptr \in Buffers /\ BufferAt(reqbuf_rptr, 0) = reqbuf_rptr
      /\ BufferAt(reqbuf_rptr, REQBUF_SIZE) = reqbuf_rptr
  <2>1. reqbuf_rptr \in Buffers
    BY DEF Shape
  <2>2. QED BY <1>1, <2>1, SlotFacts
<1>3. reqbuf_state[reqbuf_rptr] = "Invalid" <=> 0 >= Len(owed)
  <2>1. 0 \in 0 .. REQBUF_SIZE - 1
    BY DEF Assumptions
  <2>2. QED BY <1>2, <2>1 DEF Ring
<1>4. popped => owed # <<>> /\ Len(owed) >= 1
  <2>1. popped => reqbuf_state[reqbuf_rptr] # "Invalid"
    BY DEF ClockEdge
  <2>2. popped => Len(owed) >= 1
    BY <1>1, <1>3, <2>1
  <2>3. Len(<<>>) = 0
    BY EmptySeq
  <2>4. QED BY <2>2, <2>3
<1>5. ASSUME accepted, Len(owed) = REQBUF_SIZE PROVE FALSE
  <2>1. reqbuf_state[reqbuf_wptr] = "Invalid"
    BY <1>5 DEF ClockEdge
  <2>2. reqbuf_wptr = reqbuf_rptr
    BY <1>2, <1>5 DEF Ring
  <2>3. QED BY <1>3, <1>5, <2>1, <2>2 DEF Assumptions
<1>6. REQBUF_SIZE \in Nat
  BY DEF Assumptions
<1>7. Len(owed) # REQBUF_SIZE => Len(owed) < REQBUF_SIZE
  BY <1>1, <1>6
<1>8. QED BY <1>1, <1>4, <1>5, <1>7

Kept(popped) == IF popped THEN Tail(owed) ELSE owed

(* The answers still owed after the edge's answer is taken.                *)
LEMMA KeptFacts ==
  ASSUME Shape, NEW popped \in BOOLEAN, popped => owed # <<>>
  PROVE  /\ Kept(popped) \in Seq(Answer) /\ Len(Kept(popped)) \in Nat
         /\ popped => /\ Len(Kept(popped)) = Len(owed) - 1
                      /\ \A i \in 1 .. Len(owed) - 1 : Kept(popped)[i] = owed[i + 1]
         /\ ~popped => Kept(popped) = owed
<1>1. owed \in Seq(Answer)
  BY DEF Shape
<1>2. popped => /\ Tail(owed) \in Seq(Answer) /\ Len(Tail(owed)) = Len(owed) - 1
                /\ \A i \in 1 .. Len(owed) - 1 : Tail(owed)[i] = owed[i + 1]
  BY <1>1, HeadTailProperties
<1>3. Kept(popped) \in Seq(Answer)
  BY <1>1, <1>2 DEF Kept
<1>4. Len(Kept(popped)) \in Nat
  BY <1>3, LenProperties
<1>5. QED BY <1>2, <1>3, <1>4 DEF Kept

(* The answer promised to a request is an answer.                          *)
LEMMA AnswerToType ==
  ASSUME Assumptions, Shape, NEW req \in BlkRequest
  PROVE  Promise!AnswerTo(BlockMem, req) \in Answer
<1>1. req.addr \in BlkAddr /\ req.anc \in BlkAnc
  BY DEF Assumptions
<1>2. BlockMem[req.addr] \in Block
  BY <1>1 DEF BlockMem, Shape, Merge, Split, Block, Lanes
<1>3. QED BY <1>1, <1>2 DEF Promise!AnswerTo, Answer

(* The buffers in use stay one stretch of the ring, one for each answer    *)
(* owed.                                                                   *)
LEMMA RingStep ==
  ASSUME Assumptions, Shape, Halves, Ring, NEW taken, NEW accepted, NEW popped, NEW ack, NEW r,
         ClockEdge(taken, accepted, popped, ack, r), owed' \in Seq(Answer)
  PROVE  Ring'
<1> DEFINE n == Len(owed)
           F == {s \in Buffers : reqbuf_state[s] = "Invalid"}
           p == reqbuf_rptr
<1>1. /\ n \in 0 .. REQBUF_SIZE /\ (popped => n >= 1) /\ (accepted => n < REQBUF_SIZE)
      /\ p \in Buffers /\ reqbuf_wptr = BufferAt(p, n) /\ (popped => owed # <<>>)
  BY OwedStep DEF Ring, Shape
<1>2. \A q \in Buffers, d \in 0 .. REQBUF_SIZE - 1 : BufferAt(q, d) \in Buffers
  <2>1. \A d \in 0 .. REQBUF_SIZE - 1 : d \in 0 .. REQBUF_SIZE
    BY DEF Assumptions
  <2>2. QED BY <2>1, SlotFacts
<1>3. RingOf(F, p, n)
  BY <1>1, <1>2 DEF Ring, RingOf
<1>4. /\ popped \in BOOLEAN /\ accepted \in BOOLEAN
      /\ reqbuf_rptr' = IF popped THEN NextBuf(p) ELSE p
      /\ reqbuf_wptr' = IF accepted THEN NextBuf(reqbuf_wptr) ELSE reqbuf_wptr
      /\ owed' = IF accepted THEN Append(Kept(popped), Promise!AnswerTo(BlockMem, req_i))
                 ELSE Kept(popped)
  BY DEF ClockEdge, Respond, Latch, Owe, Kept
<1> DEFINE F1 == IF popped THEN F \cup {p} ELSE F
           p1 == IF popped THEN NextBuf(p) ELSE p
           n1 == IF popped THEN n - 1 ELSE n
<1>5. RingOf(F1, p1, n1) /\ reqbuf_wptr = BufferAt(p1, n1) /\ p1 \in Buffers
  <2>1. CASE popped
    <3>1. n \in 1 .. REQBUF_SIZE
      BY <1>1, <2>1
    <3>2. RingOf(F \cup {p}, NextBuf(p), n - 1) /\ BufferAt(NextBuf(p), n - 1) = BufferAt(p, n)
      BY <1>1, <1>3, <3>1, RingPop
    <3>3. NextBuf(p) \in Buffers
      BY <1>1, SlotFacts
    <3>4. QED BY <1>1, <2>1, <3>2, <3>3
  <2>2. CASE ~popped
    BY <1>1, <1>3, <2>2
  <2>3. QED BY <2>1, <2>2
<1>6. n1 \in 0 .. REQBUF_SIZE /\ (accepted => n1 \in 0 .. REQBUF_SIZE - 1) /\ REQBUF_SIZE \in Nat
  BY <1>1, <1>4 DEF Assumptions
<1>7. Kept(popped) \in Seq(Answer) /\ Len(Kept(popped)) = n1
  BY <1>1, <1>4, KeptFacts
<1> DEFINE F2 == IF accepted THEN F1 \ {reqbuf_wptr} ELSE F1
           n2 == IF accepted THEN n1 + 1 ELSE n1
<1>8. RingOf(F2, p1, n2) /\ reqbuf_wptr' = BufferAt(p1, n2)
  <2> HIDE DEF F1, p1, n1, n, F, p
  <2>1. CASE accepted
    <3>1. RingOf(F1 \ {BufferAt(p1, n1)}, p1, n1 + 1) /\ NextBuf(BufferAt(p1, n1)) = BufferAt(p1, n1 + 1)
      BY <1>5, <1>6, <2>1, RingAccept
    <3>2. QED BY <1>4, <1>5, <2>1, <3>1
  <2>2. CASE ~accepted
    BY <1>4, <1>5, <2>2
  <2>3. QED BY <2>1, <2>2
<1>9. Len(owed') = n2
  <2> HIDE DEF n1
  <2>1. CASE accepted
    <3>1. req_i \in BlkRequest
      BY <2>1 DEF ClockEdge
    <3>2. Promise!AnswerTo(BlockMem, req_i) \in Answer
      BY <3>1, AnswerToType
    <3>3. \A e \in Answer : Len(Append(Kept(popped), e)) = n1 + 1
      BY <1>7, AppendProperties
    <3>4. QED BY <1>4, <2>1, <3>2, <3>3
  <2>2. CASE ~accepted
    BY <1>4, <1>7, <2>2
  <2>3. QED BY <2>1, <2>2
<1>10. ASSUME NEW s \in Buffers PROVE reqbuf_state'[s] = "Invalid" <=> s \in F2
  <2>1. /\ accepted /\ s = reqbuf_wptr =>
             reqbuf_state'[s] = IF req_i.op = "PutPartialData" THEN "PendingHigh" ELSE "PendingLow"
        /\ popped /\ s = reqbuf_rptr => reqbuf_state'[s] = "Invalid" /\ reqbuf_state[s] = "Valid"
        /\ accepted /\ s = reqbuf_wptr => reqbuf_state[s] = "Invalid"
        /\ ~(accepted /\ s = reqbuf_wptr) /\ ~(popped /\ s = reqbuf_rptr) =>
             reqbuf_state'[s] = AckState(ack, s)
    BY StateStep
  <2>2. ack \in {0} \cup Ackable
    BY DEF ClockEdge
  <2>3. AckState(ack, s) = "Invalid" <=> reqbuf_state[s] = "Invalid"
    BY <2>2, AckStep DEF AckState, Later
  <2>4. QED BY <2>1, <2>3
<1>11. /\ n2 \in Nat /\ n2 <= REQBUF_SIZE
  BY <1>4, <1>6
<1>12. reqbuf_rptr' = p1
  BY <1>4
<1> HIDE DEF F2, n2, p1, n1, F1, n, F, p
<1>13. \A d \in 0 .. REQBUF_SIZE - 1 : reqbuf_state'[BufferAt(p1, d)] = "Invalid" <=> d >= n2
  BY <1>2, <1>5, <1>8, <1>10 DEF RingOf
<1>14. QED BY <1>8, <1>9, <1>11, <1>12, <1>13 DEF Ring, BufferAt

(* A promise to an earlier request survives the edge: a half that leaves   *)
(* the memory is in the queue, one that leaves the queue is in the buffer. *)
LEMMA KeptPromise ==
  ASSUME Assumptions, Shape, Halves, NEW taken, NEW accepted, NEW popped, NEW ack, NEW r,
         ClockEdge(taken, accepted, popped, ack, r),
         NEW s \in Buffers, ~(accepted /\ s = reqbuf_wptr), ~(popped /\ s = reqbuf_rptr),
         NEW answer, Keeps(s, answer)
  PROVE  Keeps(s, answer)'
<1>1. /\ reqbuf_type'[s] = reqbuf_type[s] /\ reqbuf_anc'[s] = reqbuf_anc[s]
      /\ accepted = (taken /\ state_q = "Primed") /\ taken \in BOOLEAN
      /\ ack \in {0} \cup Ackable
  BY DEF ClockEdge, Latch, Shape
<1>2. reqbuf_state'[s] = AckState(ack, s)
  BY StateStep
<1> SUFFICES ASSUME reqbuf_type[s] = "Read"
    PROVE  /\ reqbuf_state'[s] \in {"PendingHigh", "Valid"} =>
                Same(LowLanes, reqbuf_data'[s], answer.data)
           /\ reqbuf_state'[s] = "Valid" => Same(HighLanes, reqbuf_data'[s], answer.data)
           /\ \A k \in 1 .. Len(wb') : wb'[k].slot = s => Same(wb'[k].half, wb'[k].rdata, answer.data)
           /\ Offering(s)' => Same(HighLanes, mem'[req_q'.addr], answer.data)
  BY <1>1 DEF Keeps, Same
<1>3. \A k \in 1 .. Len(wb) : wb[k].slot = s => Same(wb[k].half, wb[k].rdata, answer.data)
  BY DEF Keeps
<1>4. Offering(s) => Same(HighLanes, mem[req_q.addr], answer.data) /\ state_q = "ReadHigh"
  BY DEF Keeps, Offering, Shape
<1>5. /\ reqbuf_state'[s] \in {"PendingHigh", "Valid"} =>
           Same(LowLanes, reqbuf_data'[s], answer.data)
      /\ reqbuf_state'[s] = "Valid" => Same(HighLanes, reqbuf_data'[s], answer.data)
  <2>1. reqbuf_data'[s] =
          IF Acked(ack, s) THEN Merge(HalfOf(reqbuf_state[s]), Readback(wb[ack]), reqbuf_data[s])
          ELSE reqbuf_data[s]
    BY DEF ClockEdge, BufferData
  <2>2. /\ reqbuf_state[s] \in {"PendingHigh", "Valid"} => Same(LowLanes, reqbuf_data[s], answer.data)
        /\ reqbuf_state[s] = "Valid" => Same(HighLanes, reqbuf_data[s], answer.data)
    BY DEF Keeps
  <2>3. CASE ~Acked(ack, s)
    BY <1>2, <2>1, <2>2, <2>3 DEF AckState
  <2>4. CASE Acked(ack, s)
    <3>1. /\ reqbuf_state[s] \in {"PendingLow", "PendingHigh"}
          /\ wb[ack].half = HalfOf(reqbuf_state[s])
      BY <1>1, <2>4, AckStep
    <3>2. ack \in 1 .. Len(wb) /\ wb[ack].slot = s
      BY <1>1, <2>4 DEF Acked, Ackable
    <3>3. Same(wb[ack].half, wb[ack].rdata, answer.data)
      BY <1>3, <3>2
    <3>4. LowLanes \subseteq Lanes /\ HighLanes \subseteq Lanes
      BY DEF Lanes
    <3>5. CASE reqbuf_state[s] = "PendingLow"
      <4>1. wb[ack].half = LowLanes /\ HalfOf(reqbuf_state[s]) = LowLanes
        BY <3>1, <3>5 DEF HalfOf
      <4>2. \A l \in LowLanes : reqbuf_data'[s][l] = wb[ack].rdata[l]
        BY <2>1, <2>4, <3>4, <4>1 DEF Merge, Readback
      <4>3. reqbuf_state'[s] = "PendingHigh"
        BY <1>2, <2>4, <3>5 DEF AckState, Later
      <4>4. QED BY <3>3, <4>1, <4>2, <4>3 DEF Same
    <3>6. CASE reqbuf_state[s] = "PendingHigh"
      <4>1. wb[ack].half = HighLanes /\ HalfOf(reqbuf_state[s]) = HighLanes
        BY <3>1, <3>6 DEF HalfOf
      <4>2. \A l \in HighLanes : reqbuf_data'[s][l] = wb[ack].rdata[l]
        BY <2>1, <2>4, <3>4, <4>1 DEF Merge, Readback
      <4>3. \A l \in LowLanes : reqbuf_data'[s][l] = reqbuf_data[s][l]
        <5>1. \A l \in LowLanes : l \in Lanes /\ l \notin HighLanes
          BY <3>4 DEF Assumptions
        <5>2. QED BY <2>1, <2>4, <4>1, <5>1 DEF Merge
      <4>4. QED BY <2>2, <3>3, <3>6, <4>1, <4>2, <4>3 DEF Same
    <3>7. QED BY <3>1, <3>5, <3>6
  <2>5. QED BY <2>3, <2>4
<1>6. ASSUME NEW k \in 1 .. Len(wb'), wb'[k].slot = s
      PROVE  Same(wb'[k].half, wb'[k].rdata, answer.data)
  <2>1. Rest(ack) \in Seq(Access)
        /\ \A x \in 1 .. Len(Rest(ack)) : \E y \in 1 .. Len(wb) : Rest(ack)[x] = wb[y]
    BY <1>1, AckStep
  <2>2. ASSUME NEW x \in 1 .. Len(Rest(ack)), wb'[k] = Rest(ack)[x]
        PROVE  Same(wb'[k].half, wb'[k].rdata, answer.data)
    BY <1>3, <1>6, <2>1, <2>2
  <2>3. CASE ~taken
    <3>1. wb' = Rest(ack)
      BY <2>3, QueueStep
    <3>2. QED BY <2>2, <3>1
  <2>4. CASE taken
    <3>1. wb' = Append(Rest(ack), Item) /\ Item \in Access
      BY <2>4, QueueStep
    <3>2. \A e \in Access : \A x \in 1 .. Len(Append(Rest(ack), e)) :
            \/ x \in 1 .. Len(Rest(ack)) /\ Append(Rest(ack), e)[x] = Rest(ack)[x]
            \/ Append(Rest(ack), e)[x] = e
      <4>1. ASSUME NEW e \in Access
            PROVE  /\ Len(Append(Rest(ack), e)) = Len(Rest(ack)) + 1
                   /\ \A x \in 1 .. Len(Rest(ack)) : Append(Rest(ack), e)[x] = Rest(ack)[x]
                   /\ Append(Rest(ack), e)[Len(Rest(ack)) + 1] = e
                   /\ \A x \in 1 .. Len(Rest(ack)) + 1 :
                        x \in 1 .. Len(Rest(ack)) \/ x = Len(Rest(ack)) + 1
        BY <2>1, PutFacts
      <4>2. QED BY <4>1, Zenon
    <3>3. CASE wb'[k] = Item
      <4>1. state_q # "Primed" /\ s = reqbuf_wptr_q
        BY <1>1, <1>6, <2>4, <3>3, QueueStep
      <4>2. state_q = "ReadHigh" /\ Same(HighLanes, mem[req_q.addr], answer.data)
        BY <1>4, <4>1 DEF Offering
      <4>3. Item.half = HighLanes /\ Item.rdata = mem[req_q.addr]
        BY <2>4, <4>1, <4>2, QueueStep
      <4>4. QED BY <3>3, <4>2, <4>3
    <3>4. QED BY <2>2, <3>1, <3>2, <3>3
  <2>5. QED BY <1>1, <2>3, <2>4
<1>7. Offering(s)' => Same(HighLanes, mem'[req_q'.addr], answer.data)
  <2>1. CASE accepted
    <3>1. reqbuf_wptr_q' = reqbuf_wptr
      BY <2>1, OfferStep
    <3>2. QED BY <2>1, <3>1 DEF Offering
  <2>2. CASE taken /\ ~accepted
    BY <1>1, <2>2, OfferStep
  <2>3. CASE ~taken
    BY <1>4, <2>3, OfferStep
  <2>4. QED BY <1>1, <2>1, <2>2, <2>3
<1>8. QED BY <1>5, <1>6, <1>7

(* What is promised to the request accepted on this edge holds at once.    *)
LEMMA NewPromise ==
  ASSUME Assumptions, Shape, Halves, NEW taken, NEW accepted, NEW popped, NEW ack, NEW r,
         ClockEdge(taken, accepted, popped, ack, r), accepted,
         NEW s, s = reqbuf_wptr, NEW answer, answer = Promise!AnswerTo(BlockMem, req_i)
  PROVE  Keeps(s, answer)'
<1>1. s \in Buffers /\ req_i \in BlkRequest /\ state_q = "Primed" /\ taken /\ ack \in {0} \cup Ackable
  BY DEF ClockEdge, Shape
<1>2. /\ reqbuf_type'[s] = IF req_i.op = "Get" THEN "Read" ELSE "Write"
      /\ reqbuf_anc'[s] = req_i.anc
  BY <1>1 DEF ClockEdge, Latch, Shape
<1>3. BlockMem = mem
  BY <1>1 DEF BlockMem
<1>4. CASE req_i.op # "Get"
  <2>1. answer = [op |-> "AccessAck", anc |-> req_i.anc]
    BY <1>4 DEF Promise!AnswerTo
  <2>2. reqbuf_type'[s] = "Write"
    BY <1>2, <1>4
  <2>3. QED BY <1>2, <2>1, <2>2 DEF Keeps
<1>5. CASE req_i.op = "Get"
  <2>1. answer = [op |-> "AccessAckData", anc |-> req_i.anc, data |-> mem[req_i.addr]]
    BY <1>3, <1>5 DEF Promise!AnswerTo
  <2>2. reqbuf_type'[s] = "Read" /\ answer.op = "AccessAckData" /\ answer.anc = req_i.anc
        /\ answer.data = mem[req_i.addr]
    BY <1>2, <1>5, <2>1
  <2>3. reqbuf_state'[s] = "PendingLow"
    BY <1>1, <1>5, StateStep
  <2>4. Item \in Access /\ Item.half = LowLanes /\ Item.rdata = mem[req_i.addr]
        /\ wb' = Append(Rest(ack), Item)
    BY <1>1, <1>5, QueueStep
  <2>5. Rest(ack) \in Seq(Access) /\ Unasked(Rest(ack), s)
    <3>1. Progress(Rest(ack), s, AckState(ack, s), reqbuf_type[s], Offering(s))
          /\ Rest(ack) \in Seq(Access)
      BY <1>1, AckStep
    <3>2. AckState(ack, s) = "Invalid"
      <4>1. reqbuf_state[s] = "Invalid"
        BY <1>1 DEF ClockEdge
      <4>2. ~Acked(ack, s)
        BY <1>1, <4>1, AckStep
      <4>3. QED BY <4>1, <4>2 DEF AckState
    <3>3. QED BY <3>1, <3>2 DEF Progress
  <2>6. \A k \in 1 .. Len(wb') : wb'[k].slot = s => Same(wb'[k].half, wb'[k].rdata, answer.data)
    <3>1. /\ Len(wb') = Len(Rest(ack)) + 1
          /\ \A x \in 1 .. Len(Rest(ack)) : wb'[x] = Rest(ack)[x]
          /\ wb'[Len(Rest(ack)) + 1] = Item
          /\ \A x \in 1 .. Len(Rest(ack)) + 1 : x \in 1 .. Len(Rest(ack)) \/ x = Len(Rest(ack)) + 1
      BY <2>4, <2>5, PutFacts
    <3>2. QED BY <2>2, <2>4, <2>5, <3>1 DEF Unasked, Same
  <2>7. mem'[req_q'.addr] = mem[req_i.addr]
    <3>1. req_q' = [addr |-> req_i.addr, data |-> req_i.data, mask |-> req_i.mask]
      BY <1>1, OfferStep
    <3>2. access.we = FALSE
      BY <1>1, <1>5 DEF access, FirstHalf
    <3>3. mem' = mem
      BY <3>2 DEF ClockEdge, Controller
    <3>4. QED BY <3>1, <3>3
  <2>8. QED BY <1>2, <2>2, <2>3, <2>6, <2>7 DEF Keeps, Same
<1>6. QED BY <1>4, <1>5

(* All promises, with the index of each moving down when one is kept.      *)
LEMMA PromisedStep ==
  ASSUME Assumptions, Shape, Halves, Ring, Promised,
         NEW taken, NEW accepted, NEW popped, NEW ack, NEW r,
         ClockEdge(taken, accepted, popped, ack, r)
  PROVE  Promised' /\ owed' \in Seq(Answer)
<1> DEFINE n == Len(owed)
           p == reqbuf_rptr
           kept == Kept(popped)
<1>1. /\ n \in 0 .. REQBUF_SIZE /\ (popped => n >= 1) /\ (accepted => n < REQBUF_SIZE)
      /\ p \in Buffers /\ reqbuf_wptr = BufferAt(p, n) /\ (popped => owed # <<>>)
      /\ REQBUF_SIZE \in Nat
  BY OwedStep DEF Ring, Shape, Assumptions
<1>2. /\ popped \in BOOLEAN /\ accepted \in BOOLEAN
      /\ reqbuf_rptr' = IF popped THEN NextBuf(p) ELSE p
      /\ owed' = IF accepted THEN Append(kept, Promise!AnswerTo(BlockMem, req_i)) ELSE kept
  BY DEF ClockEdge, Respond, Owe, Kept
<1>3. /\ kept \in Seq(Answer) /\ Len(kept) \in Nat
      /\ popped => Len(kept) = n - 1 /\ \A i \in 1 .. n - 1 : kept[i] = owed[i + 1]
      /\ ~popped => kept = owed
  BY <1>1, <1>2, KeptFacts
<1> HIDE DEF kept
<1>4. ASSUME NEW i \in 1 .. n, popped => i > 1
      PROVE  /\ BufferAt(p, i - 1) \in Buffers /\ ~(accepted /\ BufferAt(p, i - 1) = reqbuf_wptr)
             /\ ~(popped /\ BufferAt(p, i - 1) = p)
  <2>1. i - 1 \in 0 .. REQBUF_SIZE - 1 /\ i - 1 \in 0 .. REQBUF_SIZE /\ i - 1 < REQBUF_SIZE
        /\ i - 1 < n
    BY <1>1
  <2>2. BufferAt(p, i - 1) \in Buffers /\ BufferAt(p, 0) = p
    BY <1>1, <2>1, SlotFacts
  <2>3. accepted => BufferAt(p, i - 1) # BufferAt(p, n)
    BY <1>1, <2>1, SlotFacts
  <2>4. popped => BufferAt(p, i - 1) # BufferAt(p, 0)
    <3>1. popped => 0 \in 0 .. REQBUF_SIZE - 1 /\ 0 < i - 1
      BY <1>1, <1>4
    <3>2. QED BY <1>1, <2>1, <3>1, SlotFacts
  <2>5. QED BY <1>1, <2>2, <2>3, <2>4
<1>5. ASSUME NEW i \in 1 .. Len(kept), NEW s, s = BufferAt(reqbuf_rptr', i - 1),
             NEW answer, answer = kept[i]
      PROVE  Keeps(s, answer)'
  <2>1. CASE popped
    <3>1. i + 1 \in 1 .. n /\ i + 1 > 1 /\ i + 1 - 1 = i /\ kept[i] = owed[i + 1]
      BY <1>1, <1>3, <2>1
    <3>2. BufferAt(NextBuf(p), i - 1) = BufferAt(p, i)
      <4>1. i - 1 \in 0 .. REQBUF_SIZE /\ i - 1 < REQBUF_SIZE /\ i - 1 + 1 = i
        BY <1>1, <3>1
      <4>2. QED BY <1>1, <4>1, SlotFacts
    <3>3. s = BufferAt(p, i + 1 - 1)
      BY <1>2, <1>5, <2>1, <3>1, <3>2
    <3>4. Keeps(s, answer)
      BY <1>5, <3>1, <3>3 DEF Promised
    <3>5. s \in Buffers /\ ~(accepted /\ s = reqbuf_wptr) /\ ~(popped /\ s = reqbuf_rptr)
      BY <1>4, <3>1, <3>3
    <3>6. QED BY <3>4, <3>5, KeptPromise
  <2>2. CASE ~popped
    <3>1. i \in 1 .. n /\ kept[i] = owed[i] /\ s = BufferAt(p, i - 1)
      BY <1>1, <1>2, <1>3, <1>5, <2>2
    <3>2. Keeps(s, answer)
      BY <1>5, <3>1 DEF Promised
    <3>3. s \in Buffers /\ ~(accepted /\ s = reqbuf_wptr) /\ ~(popped /\ s = reqbuf_rptr)
      BY <1>4, <2>2, <3>1
    <3>4. QED BY <3>2, <3>3, KeptPromise
  <2>3. QED BY <1>2, <2>1, <2>2
<1>6. CASE ~accepted
  <2>1. owed' = kept
    BY <1>2, <1>6
  <2>2. \A i \in 1 .. Len(owed') : \A s, answer :
          s = BufferAt(reqbuf_rptr', i - 1) /\ answer = owed'[i] => Keeps(s, answer)'
    BY <1>5, <2>1
  <2>3. QED BY <1>3, <2>1, <2>2 DEF Promised, Keeps, BufferAt, Same, Offering
<1>7. CASE accepted
  <2>1. req_i \in BlkRequest
    BY <1>7 DEF ClockEdge
  <2>2. PICK new \in Answer : new = Promise!AnswerTo(BlockMem, req_i)
    BY <2>1, AnswerToType
  <2>3. /\ owed' \in Seq(Answer) /\ Len(owed') = Len(kept) + 1
        /\ \A i \in 1 .. Len(kept) : owed'[i] = kept[i]
        /\ owed'[Len(kept) + 1] = new
        /\ \A i \in 1 .. Len(kept) + 1 : i \in 1 .. Len(kept) \/ i = Len(kept) + 1
    <3>1. owed' = Append(kept, new)
      BY <1>2, <1>7, <2>2
    <3>2. QED BY <1>3, <3>1, PutFacts
  <2>4. reqbuf_wptr = BufferAt(reqbuf_rptr', Len(kept))
    <3>1. CASE popped
      <4>1. n - 1 \in 0 .. REQBUF_SIZE /\ n - 1 < REQBUF_SIZE /\ n - 1 + 1 = n
        BY <1>1, <3>1
      <4>2. BufferAt(NextBuf(p), n - 1) = BufferAt(p, n)
        BY <1>1, <4>1, SlotFacts
      <4>3. QED BY <1>1, <1>2, <1>3, <3>1, <4>2
    <3>2. CASE ~popped
      BY <1>1, <1>2, <1>3, <3>2
    <3>3. QED BY <1>2, <3>1, <3>2
  <2>5. \A i \in 1 .. Len(owed') : \A s, answer :
          s = BufferAt(reqbuf_rptr', i - 1) /\ answer = owed'[i] => Keeps(s, answer)'
    <3>1. ASSUME NEW i \in 1 .. Len(owed'), NEW s, NEW answer,
                 s = BufferAt(reqbuf_rptr', i - 1), answer = owed'[i]
          PROVE  Keeps(s, answer)'
      <4>1. CASE i \in 1 .. Len(kept)
        BY <1>5, <2>3, <3>1, <4>1
      <4>2. CASE i = Len(kept) + 1
        <5>1. s = reqbuf_wptr /\ answer = Promise!AnswerTo(BlockMem, req_i)
          <6>1. Len(kept) + 1 - 1 = Len(kept)
            BY <1>3
          <6>2. QED BY <2>2, <2>3, <2>4, <3>1, <4>2, <6>1
        <5>2. QED BY <1>7, <5>1, NewPromise
      <4>3. QED BY <2>3, <4>1, <4>2
    <3>2. QED BY <3>1
  <2>6. QED BY <2>3, <2>5 DEF Promised, Keeps, BufferAt, Same, Offering
<1>8. QED BY <1>2, <1>6, <1>7

(* An accepted write changes its half of its block, under its mask, and    *)
(* nothing else does.                                                      *)
LEMMA WrittenHalf ==
  ASSUME Assumptions, Shape, NEW taken, NEW accepted, NEW popped, NEW ack, NEW r,
         ClockEdge(taken, accepted, popped, ack, r)
  PROVE  /\ mem' \in [BlkAddr -> Block]
         /\ ~taken \/ ~access.we => mem' = mem
         /\ taken /\ access.we =>
              mem' = [mem EXCEPT ![access.addr] =
                        Merge(access.half \cap access.mask, access.data, mem[access.addr])]
<1>1. mem' = IF taken /\ access.we
             THEN [mem EXCEPT ![access.addr] =
                     Merge(access.half \cap access.mask, access.data, mem[access.addr])]
             ELSE mem
  BY DEF ClockEdge, Controller
<1>2. ASSUME taken PROVE access.data \in Block /\ mem[access.addr] \in Block
  <2>1. CASE state_q = "Primed"
    <3>1. req_i \in BlkRequest /\ req_i.addr \in BlkAddr /\ req_i.data \in Block
      BY <1>2, <2>1 DEF ClockEdge, Assumptions
    <3>2. access = FirstHalf(req_i)
      BY <2>1 DEF access
    <3>3. QED BY <3>1, <3>2 DEF FirstHalf, Shape
  <2>2. CASE state_q # "Primed"
    <3>1. req_q \in Split /\ access = SecondHalf
      BY <2>2 DEF Shape, access
    <3>2. QED BY <3>1 DEF SecondHalf, Shape, Split
  <2>3. QED BY <2>1, <2>2
<1>3. ASSUME taken
      PROVE  Merge(access.half \cap access.mask, access.data, mem[access.addr]) \in Block
  BY <1>2, <1>3 DEF Merge, Block
<1>4. mem \in [BlkAddr -> Block]
  BY DEF Shape
<1> HIDE DEF Merge
<1>5. QED BY <1>1, <1>3, <1>4

(* The types are kept.                                                     *)
LEMMA ShapeStep ==
  ASSUME Assumptions, Shape, Halves, Ring, Promised,
         NEW taken, NEW accepted, NEW popped, NEW ack, NEW r,
         ClockEdge(taken, accepted, popped, ack, r)
  PROVE  Shape'
<1>1. /\ taken \in BOOLEAN /\ accepted = (taken /\ state_q = "Primed") /\ popped \in BOOLEAN
      /\ ack \in {0} \cup Ackable
      /\ accepted => /\ req_i \in BlkRequest /\ req_i.anc \in BlkAnc
                     /\ req_i.addr \in BlkAddr /\ req_i.data \in Block /\ req_i.mask \in SUBSET Lanes
                     /\ req_i.op \in {"Get", "PutFullData", "PutPartialData"}
  BY DEF ClockEdge, Assumptions
<1>2. reqbuf_state' \in [Buffers -> State]
  <2>1. reqbuf_state' = [s \in Buffers |-> reqbuf_state'[s]]
    BY DEF ClockEdge, BufferStates
  <2>2. ASSUME NEW s \in Buffers PROVE reqbuf_state'[s] \in State
    <3>1. AckState(ack, s) \in State
      BY DEF AckState, Later, State, Shape
    <3>2. reqbuf_state'[s] \in {"Invalid", "PendingHigh", "PendingLow", AckState(ack, s)}
      <4>1. /\ accepted /\ s = reqbuf_wptr =>
               reqbuf_state'[s] = IF req_i.op = "PutPartialData" THEN "PendingHigh" ELSE "PendingLow"
            /\ popped /\ s = reqbuf_rptr => reqbuf_state'[s] = "Invalid"
            /\ ~(accepted /\ s = reqbuf_wptr) /\ ~(popped /\ s = reqbuf_rptr) =>
                 reqbuf_state'[s] = AckState(ack, s)
        BY StateStep
      <4>2. QED BY <4>1
    <3>3. QED BY <3>1, <3>2 DEF State
  <2>3. QED BY <2>1, <2>2
<1>3. /\ reqbuf_type' \in [Buffers -> {"Read", "Write"}] /\ reqbuf_anc' \in [Buffers -> BlkAnc]
  BY <1>1 DEF ClockEdge, Latch, Shape
<1>4. reqbuf_data' \in [Buffers -> Block]
  <2>1. reqbuf_data' = [s \in Buffers |->
          IF Acked(ack, s) THEN Merge(HalfOf(reqbuf_state[s]), Readback(wb[ack]), reqbuf_data[s])
          ELSE reqbuf_data[s]]
    BY DEF ClockEdge, BufferData
  <2>2. ASSUME NEW s \in Buffers, Acked(ack, s)
        PROVE  Merge(HalfOf(reqbuf_state[s]), Readback(wb[ack]), reqbuf_data[s]) \in Block
    <3>1. wb \in Seq(Access) /\ ack \in 1 .. Len(wb)
      BY <1>1, <2>2 DEF Acked, Ackable, Shape
    <3>2. wb[ack] \in Access
      BY <3>1, ElementOfSeq
    <3>3. wb[ack].rdata \in Block
      BY <3>2 DEF Access
    <3>4. Readback(wb[ack]) \in Block
      BY <3>3 DEF Readback, Block, Assumptions
    <3>5. reqbuf_data[s] \in Block
      BY DEF Shape
    <3>6. \A d, e \in Block : \A H : Merge(H, d, e) \in Block
      BY DEF Merge, Block
    <3>7. QED BY <3>4, <3>5, <3>6
  <2>3. reqbuf_data \in [Buffers -> Block]
    BY DEF Shape
  <2>4. QED BY <2>1, <2>2, <2>3
<1>5. reqbuf_wptr' \in Buffers /\ reqbuf_wptr_q' \in Buffers /\ reqbuf_rptr' \in Buffers
  <2>1. \A p \in Buffers : NextBuf(p) \in Buffers
    BY DEF NextBuf, Buffers, Assumptions
  <2>2. QED BY <2>1 DEF ClockEdge, Latch, Respond, Shape
<1>6. req_i' \in BlkRequest \cup {Nothing}
  BY DEF ClockEdge, HostPresents, Shape
<1>7. mem' \in [BlkAddr -> Block]
  BY WrittenHalf
<1>8. wb' \in Seq(Access)
  <2>1. Rest(ack) \in Seq(Access)
    BY <1>1, AckStep
  <2>2. wb' = IF taken THEN Append(Rest(ack), Item) ELSE Rest(ack)
    BY QueueStep
  <2>3. taken => Item \in Access
    BY QueueStep
  <2>4. \A e \in Access : Append(Rest(ack), e) \in Seq(Access)
    BY <2>1, AppendProperties
  <2>5. QED BY <2>1, <2>2, <2>3, <2>4
<1>9. owed' \in Seq(Answer)
  BY PromisedStep
<1>10. \/ state_q' = "Primed"
       \/ state_q' = "ReadHigh" /\ req_q' \in Split /\ reqbuf_type'[reqbuf_wptr_q'] = "Read"
       \/ state_q' = "WriteHigh" /\ req_q' \in Split /\ reqbuf_type'[reqbuf_wptr_q'] = "Write"
  <2>0. reqbuf_wptr \in Buffers
    BY DEF Shape
  <2>1. CASE accepted
    <3>1. /\ reqbuf_wptr_q' = reqbuf_wptr
          /\ req_q' = [addr |-> req_i.addr, data |-> req_i.data, mask |-> req_i.mask]
          /\ req_i.op = "Get" => state_q' = "ReadHigh"
          /\ req_i.op = "PutFullData" => state_q' = "WriteHigh"
          /\ req_i.op = "PutPartialData" => state_q' = "Primed"
      BY <2>0, <2>1, OfferStep
    <3>2. req_q' \in Split
      BY <1>1, <2>1, <3>1 DEF Split
    <3>3. reqbuf_type'[reqbuf_wptr] = IF req_i.op = "Get" THEN "Read" ELSE "Write"
      BY <2>0, <2>1 DEF ClockEdge, Latch, Shape
    <3>4. QED BY <1>1, <2>1, <3>1, <3>2, <3>3
  <2>2. CASE taken /\ ~accepted
    BY <1>1, <2>0, <2>2, OfferStep
  <2>3. CASE ~taken
    <3>1. state_q' = state_q /\ req_q' = req_q /\ reqbuf_wptr_q' = reqbuf_wptr_q
      BY <2>0, <2>3, OfferStep
    <3>2. reqbuf_type' = reqbuf_type
      BY <1>1, <2>3 DEF ClockEdge, Latch
    <3>3. QED BY <3>1, <3>2 DEF Shape
  <2>4. QED BY <1>1, <2>1, <2>2, <2>3
<1>11. QED BY <1>2, <1>3, <1>4, <1>5, <1>6, <1>7, <1>8, <1>9, <1>10 DEF Shape

-------------------------------------------------------------------------------
(* The invariant holds after reset.                                        *)
LEMMA InitIInv ==
  ASSUME Assumptions, BlkInit
  PROVE  BlkInv
<1>1. wb \in Seq(Access) /\ Len(wb) = 0 /\ owed \in Seq(Answer) /\ Len(owed) = 0
  <2>1. <<>> \in Seq(Access) /\ <<>> \in Seq(Answer) /\ Len(<<>>) = 0
    BY EmptySeq
  <2>2. QED BY <2>1 DEF BlkInit
<1>2. 0 \in Buffers /\ REQBUF_SIZE \in Nat /\ REQBUF_SIZE >= 2
  BY DEF Assumptions, Buffers
<1>3. Shape
  <2>1. [l \in Lanes |-> Junk] \in Block
    BY DEF Assumptions, Block
  <2>2. (CHOOSE a \in BlkAnc : TRUE) \in BlkAnc
    BY DEF Assumptions
  <2>3. InitialMem \in [BlkAddr -> Block]
    BY DEF Assumptions
  <2>4. QED BY <1>1, <1>2, <2>1, <2>2, <2>3 DEF BlkInit, Shape, State
<1>4. Halves
  BY <1>1 DEF BlkInit, Halves, Progress, Offering, Unasked
<1>5. Ring
  <2>1. BufferAt(0, 0) = 0
    BY <1>2, SlotFacts
  <2>2. \A d \in 0 .. REQBUF_SIZE - 1 : BufferAt(0, d) \in Buffers
    BY <1>2 DEF BufferAt, Buffers
  <2>3. QED BY <1>1, <1>2, <2>1, <2>2 DEF BlkInit, Ring
<1>6. Promised
  BY <1>1 DEF Promised
<1>7. QED BY <1>3, <1>4, <1>5, <1>6 DEF BlkInv

(* Every step keeps the invariant.                                         *)
LEMMA NextIInv ==
  ASSUME Assumptions, BlkInv, [BlkNext]_blkVars
  PROVE  BlkInv'
<1>1. CASE BlkNext
  <2>1. PICK taken, accepted, popped \in BOOLEAN, ack \in {0} \cup Ackable,
             r \in BlkRequest \cup {Nothing} : ClockEdge(taken, accepted, popped, ack, r)
    BY <1>1, NextIsClockEdge DEF BlkInv
  <2>2. Shape /\ Halves /\ Ring /\ Promised
    BY DEF BlkInv
  <2>3. Shape'
    BY <2>1, <2>2, ShapeStep
  <2>4. Halves'
    BY <2>1, <2>2, HalvesStep
  <2>5. Promised' /\ owed' \in Seq(Answer)
    BY <2>1, <2>2, PromisedStep
  <2>6. Ring'
    BY <2>1, <2>2, <2>5, RingStep
  <2>7. QED BY <2>3, <2>4, <2>5, <2>6 DEF BlkInv
<1>2. CASE UNCHANGED blkVars
  BY <1>2 DEF BlkInv, Shape, Halves, Ring, Promised, Keeps, Offering, Same, blkVars, buffers
<1>3. QED BY <1>1, <1>2

(***************************************************************************)
(* The invariant holds in every state (rvlab_ddr_blkmgr.sv:79-249).        *)
(***************************************************************************)
THEOREM BlkInvariant ==
  ASSUME Assumptions
  PROVE  BlkSpec => []BlkInv
<1>1. BlkInit => BlkInv
  BY InitIInv
<1>2. BlkInv /\ [BlkNext]_blkVars => BlkInv'
  BY NextIInv
<1>3. QED BY <1>1, <1>2, PTL DEF BlkSpec

(* Two accesses, one or none, as the state says.                           *)
LEMMA InvAddsUp ==
  ASSUME Halves, Shape
  PROVE  HalvesAddUp
<1> SUFFICES ASSUME NEW s \in Buffers
    PROVE  Count(Outstanding(s)) + ToOffer(s) =
             CASE reqbuf_state[s] = "PendingLow" -> 2
               [] reqbuf_state[s] = "PendingHigh" -> 1
               [] OTHER -> 0
  BY DEF HalvesAddUp
<1>1. Progress(wb, s, reqbuf_state[s], reqbuf_type[s], Offering(s)) /\ reqbuf_state[s] \in State
  BY DEF Halves, Shape
<1>2. Unasked(wb, s) => Count(Outstanding(s)) = 0
  BY DEF Unasked, Outstanding, Count
<1>3. ASSUME NEW H, WaitsOne(wb, s, H) PROVE Count(Outstanding(s)) = 1
  <2>1. PICK j \in 1 .. Len(wb) : \A x \in 1 .. Len(wb) : wb[x].slot = s <=> x = j
    BY <1>3 DEF WaitsOne
  <2>2. Outstanding(s) = {j}
    BY <2>1 DEF Outstanding
  <2>3. QED BY <2>2 DEF Count
<1>4. ASSUME WaitsTwo(wb, s) PROVE Count(Outstanding(s)) = 2
  <2>1. PICK j, k \in 1 .. Len(wb) :
          j < k /\ \A x \in 1 .. Len(wb) : wb[x].slot = s <=> x = j \/ x = k
    BY <1>4 DEF WaitsTwo
  <2>2. Outstanding(s) = {j, k} /\ j # k
    BY <2>1 DEF Outstanding
  <2>3. QED BY <2>2 DEF Count
<1>5. ToOffer(s) = IF Offering(s) THEN 1 ELSE 0
  BY DEF ToOffer, Offering
<1>6. CASE reqbuf_state[s] = "PendingLow"
  <2>1. IF Offering(s) THEN Count(Outstanding(s)) = 1 ELSE Count(Outstanding(s)) = 2
    BY <1>1, <1>3, <1>4, <1>6 DEF Progress
  <2>2. QED BY <1>5, <1>6, <2>1
<1>7. CASE reqbuf_state[s] = "PendingHigh"
  <2>1. IF Offering(s) THEN Count(Outstanding(s)) = 0 ELSE Count(Outstanding(s)) = 1
    BY <1>1, <1>2, <1>3, <1>7 DEF Progress
  <2>2. QED BY <1>5, <1>7, <2>1
<1>8. CASE reqbuf_state[s] \in {"Invalid", "Valid"}
  <2>1. Count(Outstanding(s)) = 0 /\ ~Offering(s)
    BY <1>1, <1>2, <1>8 DEF Progress
  <2>2. QED BY <1>5, <1>8, <2>1
<1>9. QED BY <1>1, <1>6, <1>7, <1>8 DEF State

(***************************************************************************)
(* A buffer has as many accesses outstanding as its state waits for: the   *)
(* "ERROR" branches (rvlab_ddr_blkmgr.sv:217-221) are unreachable and no   *)
(* buffer is answered early or waits for an access nobody made.            *)
(***************************************************************************)
THEOREM HalvesAlwaysAddUp ==
  ASSUME Assumptions
  PROVE  BlkSpec => []HalvesAddUp
<1>1. BlkInv => HalvesAddUp
  BY InvAddsUp DEF BlkInv
<1>2. QED BY <1>1, BlkInvariant, PTL

-------------------------------------------------------------------------------
(* The answer taken is the oldest one owed.                                *)
LEMMA AnswerGiven ==
  ASSUME Assumptions, BlkInv, NEW taken, NEW accepted, NEW popped, NEW ack, NEW r,
         ClockEdge(taken, accepted, popped, ack, r)
  PROVE  rsp' = IF popped THEN Head(owed) ELSE Nothing
<1>1. rsp' = IF ~popped THEN Nothing
            ELSE IF reqbuf_type[reqbuf_rptr] = "Read"
            THEN [op |-> "AccessAckData", anc |-> reqbuf_anc[reqbuf_rptr],
                  data |-> reqbuf_data[reqbuf_rptr]]
            ELSE [op |-> "AccessAck", anc |-> reqbuf_anc[reqbuf_rptr]]
  BY DEF ClockEdge, Respond
<1>2. CASE popped
  <2>1. owed \in Seq(Answer) /\ Len(owed) >= 1 /\ Len(owed) \in Nat /\ reqbuf_rptr \in Buffers
    BY <1>2, OwedStep, LenProperties DEF BlkInv, Shape
  <2> DEFINE a == owed[1]
  <2>2. Head(owed) = a /\ a \in Answer
    BY <2>1, ElementOfSeq
  <2>3. BufferAt(reqbuf_rptr, 0) = reqbuf_rptr /\ 1 - 1 = 0 /\ 1 \in 1 .. Len(owed)
    BY <2>1, SlotFacts DEF Assumptions
  <2>4. Keeps(reqbuf_rptr, a)
    BY <2>3, Zenon DEF BlkInv, Promised
  <2>5. reqbuf_state[reqbuf_rptr] = "Valid"
    BY <1>2 DEF ClockEdge
  <2> HIDE DEF a
  <2>6. CASE reqbuf_type[reqbuf_rptr] = "Read"
    <3>1. /\ a \in [op: {"AccessAckData"}, anc: BlkAnc, data: Block]
          /\ a.anc = reqbuf_anc[reqbuf_rptr] /\ a.op = "AccessAckData"
      BY <2>2, <2>4, <2>6 DEF Keeps, Answer
    <3>2. a.data \in Block /\ reqbuf_data[reqbuf_rptr] \in Block
      BY <2>1, <3>1 DEF BlkInv, Shape
    <3>3. \A l \in Lanes : reqbuf_data[reqbuf_rptr][l] = a.data[l]
      BY <2>4, <2>5, <2>6 DEF Keeps, Same, Lanes
    <3>4. reqbuf_data[reqbuf_rptr] = a.data
      BY <3>2, <3>3 DEF Block
    <3>5. a = [op |-> a.op, anc |-> a.anc, data |-> a.data]
      BY <3>1
    <3>6. QED BY <1>1, <1>2, <2>2, <2>6, <3>1, <3>4, <3>5
  <2>7. CASE reqbuf_type[reqbuf_rptr] # "Read"
    <3>1. /\ a \in [op: {"AccessAck"}, anc: BlkAnc]
          /\ a.anc = reqbuf_anc[reqbuf_rptr] /\ a.op = "AccessAck"
      BY <2>2, <2>4, <2>7 DEF Keeps, Answer
    <3>2. a = [op |-> a.op, anc |-> a.anc]
      BY <3>1
    <3>3. QED BY <1>1, <1>2, <2>2, <2>7, <3>1, <3>2
  <2>8. QED BY <2>6, <2>7
<1>3. CASE ~popped
  BY <1>1, <1>3
<1>4. QED BY <1>2, <1>3

(* Seen from the host a request takes effect whole on the edge it is       *)
(* accepted: while the second half of a write is to be offered, BlockMem   *)
(* has it already.                                                         *)
LEMMA BlocksWritten ==
  ASSUME Assumptions, BlkInv, NEW taken, NEW accepted, NEW popped, NEW ack, NEW r,
         ClockEdge(taken, accepted, popped, ack, r)
  PROVE  BlockMem' = IF accepted /\ req_i.op # "Get"
                     THEN Promise!Written(BlockMem, req_i) ELSE BlockMem
<1>1. /\ Shape /\ taken \in BOOLEAN /\ accepted = (taken /\ state_q = "Primed")
      /\ state_q \in {"Primed", "ReadHigh", "WriteHigh"}
  BY DEF BlkInv, ClockEdge, Shape
<1>2. /\ mem \in [BlkAddr -> Block]
      /\ ~taken \/ ~access.we => mem' = mem
      /\ taken /\ access.we =>
           mem' = [mem EXCEPT ![access.addr] =
                     Merge(access.half \cap access.mask, access.data, mem[access.addr])]
  <2>1. mem \in [BlkAddr -> Block]
    BY <1>1 DEF Shape
  <2>2. /\ mem' \in [BlkAddr -> Block]
        /\ ~taken \/ ~access.we => mem' = mem
        /\ taken /\ access.we =>
             mem' = [mem EXCEPT ![access.addr] =
                       Merge(access.half \cap access.mask, access.data, mem[access.addr])]
    BY <1>1, WrittenHalf
  <2>3. QED BY <2>1, <2>2
<1>3. BlockMem' = IF state_q' = "WriteHigh"
                  THEN [mem' EXCEPT ![req_q'.addr] =
                          Merge(HighLanes \cap req_q'.mask, req_q'.data, mem'[req_q'.addr])]
                  ELSE mem'
  BY DEF BlockMem, Merge
<1>4. PICK s \in Buffers : TRUE
  BY <1>1 DEF Shape
<1>5. CASE ~taken
  <2>1. state_q' = state_q /\ req_q' = req_q /\ mem' = mem
    BY <1>1, <1>4, <1>5, OfferStep
  <2>2. QED BY <1>1, <1>3, <1>5, <2>1 DEF BlockMem
<1>6. CASE taken /\ state_q # "Primed"
  <2>1. state_q' = "Primed" /\ access = SecondHalf /\ ~accepted
    BY <1>1, <1>4, <1>6, OfferStep DEF access
  <2>2. CASE state_q = "ReadHigh"
    BY <1>2, <1>3, <2>1, <2>2 DEF BlockMem, SecondHalf
  <2>3. CASE state_q = "WriteHigh"
    BY <1>2, <1>3, <1>6, <2>1, <2>3 DEF BlockMem, SecondHalf
  <2>4. QED BY <1>1, <1>6, <2>2, <2>3
<1>7. CASE accepted
  <2>1. /\ req_i \in BlkRequest /\ req_i.addr \in BlkAddr /\ req_i.data \in Block
        /\ req_i.op \in {"Get", "PutFullData", "PutPartialData"}
        /\ req_i.mask \subseteq Lanes
        /\ req_i.op = "PutPartialData" => req_i.mask \subseteq PartialHalf(req_i)
    BY <1>1, <1>7 DEF ClockEdge, Assumptions, PartialHalf
  <2>2. /\ BlockMem = mem /\ access = FirstHalf(req_i) /\ mem[req_i.addr] \in Block
        /\ req_q' = [addr |-> req_i.addr, data |-> req_i.data, mask |-> req_i.mask]
        /\ req_i.op = "Get" => state_q' = "ReadHigh"
        /\ req_i.op = "PutFullData" => state_q' = "WriteHigh"
        /\ req_i.op = "PutPartialData" => state_q' = "Primed"
    BY <1>1, <1>2, <1>4, <1>7, <2>1, OfferStep DEF BlockMem, access
  <2> DEFINE whole == [l \in Lanes |-> IF l \in req_i.mask THEN req_i.data[l] ELSE mem[req_i.addr][l]]
  <2>3. Promise!Written(BlockMem, req_i) = [mem EXCEPT ![req_i.addr] = whole]
    BY <2>2 DEF Promise!Written
  <2>4. CASE req_i.op = "Get"
    <3>1. ~access.we
      BY <2>2, <2>4 DEF FirstHalf
    <3>2. QED BY <1>2, <1>3, <2>2, <2>4, <3>1
  <2>5. CASE req_i.op = "PutFullData"
    <3>1. access.we /\ access.half = LowLanes /\ access.mask = req_i.mask
          /\ access.data = req_i.data /\ access.addr = req_i.addr
      BY <2>2, <2>5 DEF FirstHalf
    <3> DEFINE low == Merge(LowLanes \cap req_i.mask, req_i.data, mem[req_i.addr])
    <3>2. mem' = [mem EXCEPT ![req_i.addr] = low]
      BY <1>1, <1>2, <1>7, <3>1
    <3>3. BlockMem' = [mem' EXCEPT ![req_i.addr] =
                         Merge(HighLanes \cap req_i.mask, req_i.data, mem'[req_i.addr])]
      BY <1>3, <2>2, <2>5
    <3>4. mem'[req_i.addr] = low
      BY <1>2, <2>1, <3>2
    <3>5. Merge(HighLanes \cap req_i.mask, req_i.data, low) = whole
      BY DEF Merge, Lanes
    <3> HIDE DEF low, whole
    <3>6. BlockMem' = [mem EXCEPT ![req_i.addr] = whole]
      BY <1>2, <2>1, <3>2, <3>3, <3>4, <3>5
    <3>7. QED BY <1>7, <2>3, <2>5, <3>6
  <2>6. CASE req_i.op = "PutPartialData"
    <3>1. access.we /\ access.half = PartialHalf(req_i) /\ access.mask = req_i.mask
          /\ access.data = req_i.data /\ access.addr = req_i.addr
      BY <2>2, <2>6 DEF FirstHalf
    <3>2. PartialHalf(req_i) \cap req_i.mask = req_i.mask
      BY <2>1, <2>6
    <3>3. Merge(req_i.mask, req_i.data, mem[req_i.addr]) = whole
      BY DEF Merge
    <3>4. mem' = [mem EXCEPT ![req_i.addr] = whole]
      BY <1>1, <1>2, <1>7, <3>1, <3>2, <3>3
    <3>5. QED BY <1>3, <1>7, <2>2, <2>3, <2>6, <3>4
  <2>7. QED BY <2>1, <2>4, <2>5, <2>6
<1>8. QED BY <1>1, <1>5, <1>6, <1>7

(* Every step of the block manager is a step of the memory or a stutter.   *)
LEMMA StepRefines ==
  ASSUME Assumptions, BlkInv, [BlkNext]_blkVars
  PROVE  [Promise!Next]_<<BlockMem, owed, rsp>>
<1>1. CASE BlkNext
  <2>1. PICK taken, accepted, popped \in BOOLEAN, ack \in {0} \cup Ackable,
             r \in BlkRequest \cup {Nothing} : ClockEdge(taken, accepted, popped, ack, r)
    BY <1>1, NextIsClockEdge DEF BlkInv
  <2> DEFINE new == IF accepted THEN {req_i} ELSE {}
  <2>2. new \in {{}} \cup {{q} : q \in BlkRequest}
    BY <2>1 DEF ClockEdge
  <2>3. popped => owed # <<>>
    BY <2>1, OwedStep DEF BlkInv
  <2>4. rsp' = IF popped THEN Head(owed) ELSE Nothing
    BY <2>1, AnswerGiven
  <2>5. BlockMem' = IF accepted /\ req_i.op # "Get"
                    THEN Promise!Written(BlockMem, req_i) ELSE BlockMem
    BY <2>1, BlocksWritten
  <2>6. owed' = IF accepted
                THEN Append(IF popped THEN Tail(owed) ELSE owed, Promise!AnswerTo(BlockMem, req_i))
                ELSE IF popped THEN Tail(owed) ELSE owed
    BY <2>1 DEF ClockEdge, Owe
  <2>7. Promise!Edge(new, popped)
    BY <2>3, <2>4, <2>5, <2>6 DEF Promise!Edge, Nothing, Promise!Nothing
  <2>8. QED BY <2>2, <2>7 DEF Promise!Next
<1>2. CASE UNCHANGED blkVars
  BY <1>2 DEF blkVars, buffers, BlockMem
<1>3. QED BY <1>1, <1>2

(***************************************************************************)
(* The block manager is a block memory: requests take effect whole, in the *)
(* order they are accepted, and are answered once each in that order with  *)
(* the data of their own block, however the controller stalls and          *)
(* acknowledges.                                                           *)
(***************************************************************************)
THEOREM BlockManagerIsMemory ==
  ASSUME Assumptions
  PROVE  BlkSpec => ImplementsMemory
<1>1. BlkInit => Promise!Init
  BY DEF BlkInit, Promise!Init, BlockMem, Nothing, Promise!Nothing
<1>2. BlkInv /\ [BlkNext]_blkVars => [Promise!Next]_<<BlockMem, owed, rsp>>
  BY StepRefines
<1>3. QED BY <1>1, <1>2, BlkInvariant, PTL DEF BlkSpec, ImplementsMemory, Promise!Spec

-------------------------------------------------------------------------------
(***************************************************************************)
(* For any number of hosts and any size of the route ring: rvlab_ddr_mux   *)
(* keeps its ring in step with the device, no answer reaches a host that   *)
(* did not send the request, and every host is served as DdrBus promises.  *)
(*                                                                         *)
(* The argument: RouteMatchesDevice, with the types, is inductive.  An     *)
(* accept writes the slot behind the youngest request, which is free since *)
(* the request is only offered while the ring is not full; an answer moves *)
(* rptr past the oldest.                                                   *)
(*                                                                         *)
(* For the refinement the requests in flight, taken over all hosts, are    *)
(* the device's queue in another order: Matched pairs every place of the   *)
(* queue with the place its host knows it by, keeping each host's order.   *)
(* So the oldest request of the device is the oldest of its host.          *)
(***************************************************************************)
USE NAssumption, MaxOutstandingAssumption, RequestAssumption

InFlight == [addr: Addr, anc: Anc, src: Hosts]
MuxInv == TypeOK /\ RouteMatchesDevice

-------------------------------------------------------------------------------
(* The device after an edge: what it drops and what it takes. *)
Dropped(q, response_fire) == IF response_fire THEN Tail(q) ELSE q

(* Dropping the oldest request keeps the others in order. *)
LEMMA DropOldest ==
  ASSUME NEW S, NEW q \in Seq(S), NEW f \in BOOLEAN, f => q # <<>>
  PROVE  /\ Dropped(q, f) \in Seq(S)
         /\ Len(Dropped(q, f)) = IF f THEN Len(q) - 1 ELSE Len(q)
         /\ Len(Dropped(q, f)) \in Nat
         /\ \A i \in 1 .. Len(Dropped(q, f)) :
              Dropped(q, f)[i] = IF f THEN q[i + 1] ELSE q[i]
<1>1. CASE f
  <2>1. q \in Seq(S) /\ q # <<>>
    BY <1>1
  <2>2. /\ Tail(q) \in Seq(S) /\ Len(Tail(q)) = Len(q) - 1
        /\ \A i \in 1 .. Len(Tail(q)) : Tail(q)[i] = q[i + 1]
    BY <2>1, HeadTailProperties
  <2>3. QED BY <1>1, <2>2, LenProperties DEF Dropped
<1>2. CASE ~f
  BY <1>2, LenProperties DEF Dropped
<1>3. QED BY <1>1, <1>2

(* Ring arithmetic: slots closer together than the ring is long differ. *)
LEMMA SlotProperties ==
  ASSUME NEW p \in Slots, NEW i \in 0 .. MaxOutstanding
  PROVE  /\ Slot(p, i) \in Slots
         /\ Slot(p, 0) = p
         /\ Succ(p) \in Slots
         /\ i < MaxOutstanding => Slot(p, i + 1) = Slot(Succ(p), i)
         /\ i < MaxOutstanding => Succ(Slot(p, i)) = Slot(p, i + 1)
         /\ \A j \in 0 .. MaxOutstanding - 1 : j < i /\ i < MaxOutstanding => Slot(p, j) # Slot(p, i)
  BY DEF Slot, Slots, Succ

(* What every edge does, in terms of whether a request fires and an answer. *)
Fires(sel, rq, rs) ==
  /\ rq \in BOOLEAN /\ rs \in BOOLEAN /\ sel \in Hosts
  /\ rq => Valid(sel) /\ outstanding_q # MaxOutstanding
  /\ rs => devq # <<>> /\ outstanding_q # 0
  /\ RoutePointers(rq, rs)
  /\ RouteMemories(rq, sel)
  /\ Device(rq, rs, sel)
  /\ Deliver(rs)
  /\ History(rq, rs, sel)
  /\ Present(rq, sel)

(* Every clock edge is one of those, whatever the device and the hosts do. *)
LEMMA EdgeFires ==
  ASSUME NEW sel \in Hosts, NEW ar \in BOOLEAN, NEW dv \in BOOLEAN, NEW dr \in BOOLEAN,
         Clock(sel, ar, dv, dr)
  PROVE  \E rq, rs \in BOOLEAN : Fires(sel, rq, rs)
<1> DEFINE rq == dev_o_valid(sel) /\ ar
           rs == dv /\ ~route_empty /\ dr
<1>1. rq \in BOOLEAN /\ rs \in BOOLEAN
  OBVIOUS
<1>2. Fires(sel, rq, rs)
  BY <1>1 DEF Clock, Fires, dev_o_valid, route_empty, route_full
<1>3. QED BY <1>1, <1>2

(* What a host knows after an edge: one request less if it took an answer,  *)
(* one more at the end if its request was accepted.                         *)
Taken(p, rs) ==
  [h \in Hosts |-> IF rs /\ h = response_host_id THEN SubSeq(p[h], 2, Len(p[h])) ELSE p[h]]

(* All but the first of a sequence: one shorter, its elements moved up.    *)
LEMMA SecondOn ==
  ASSUME NEW S, NEW q \in Seq(S)
  PROVE  /\ SubSeq(q, 2, Len(q)) \in Seq(S)
         /\ q # <<>> => /\ Len(SubSeq(q, 2, Len(q))) = Len(q) - 1 /\ Len(q) - 1 \in Nat
                        /\ \A k \in 1 .. Len(q) - 1 : SubSeq(q, 2, Len(q))[k] = q[k + 1]
                        /\ SubSeq(q, 2, Len(q)) = Tail(q)
<1>1. Len(q) \in Nat /\ \A i \in 2 .. Len(q) : q[i] \in S
  BY LenProperties, ElementOfSeq
<1>2. /\ SubSeq(q, 2, Len(q)) \in Seq(S)
      /\ Len(SubSeq(q, 2, Len(q))) = IF 2 <= Len(q) THEN Len(q) - 2 + 1 ELSE 0
      /\ \A i \in 1 .. Len(q) - 2 + 1 : SubSeq(q, 2, Len(q))[i] = q[2 + i - 1]
  BY <1>1, SubSeqProperties
<1>3. q # <<>> => Len(q) >= 1
  BY EmptySeq
<1>4. q # <<>> => SubSeq(q, 2, Len(q)) = Tail(q)
  BY TailIsSubSeq
<1> DEFINE r == SubSeq(q, 2, Len(q))
<1> HIDE DEF r
<1>5. r \in Seq(S) /\ Len(r) = (IF 2 <= Len(q) THEN Len(q) - 2 + 1 ELSE 0)
      /\ \A i \in 1 .. Len(q) - 2 + 1 : r[i] = q[2 + i - 1]
  BY <1>2 DEF r
<1>6. ASSUME q # <<>>
      PROVE  /\ Len(r) = Len(q) - 1 /\ Len(q) - 1 \in Nat
             /\ \A k \in 1 .. Len(q) - 1 : r[k] = q[k + 1]
  <2>1. Len(r) = Len(q) - 1 /\ Len(q) - 1 \in Nat
    <3>1. Len(q) >= 1 /\ Len(q) \in Nat
      BY <1>1, <1>3, <1>6
    <3>2. CASE 2 <= Len(q)
      BY <1>5, <3>1, <3>2
    <3>3. CASE ~(2 <= Len(q))
      <4>1. \A n \in Nat : n >= 1 => n = 1 \/ 2 <= n
        OBVIOUS
      <4>2. Len(q) = 1
        BY <3>1, <3>3, <4>1
      <4>3. Len(r) = 0
        BY <1>5, <3>3
      <4>4. QED BY <4>2, <4>3
    <3>4. QED BY <3>2, <3>3
  <2>2. ASSUME NEW k \in 1 .. Len(q) - 1 PROVE r[k] = q[k + 1]
    <3>1. k \in 1 .. Len(q) - 2 + 1 /\ 2 + k - 1 = k + 1
      BY <1>1
    <3>2. QED BY <1>5, <3>1
  <2>3. QED BY <2>1, <2>2
<1>7. QED BY <1>4, <1>5, <1>6 DEF r

(* What each host waits for after an edge, and that it stays well-typed.   *)
LEMMA HistoryStep ==
  ASSUME TypeOK, NEW sel, NEW rq, NEW rs, Fires(sel, rq, rs)
  PROVE  /\ Taken(pend, rs) \in [Hosts -> Seq(Request)]
         /\ pend' \in [Hosts -> Seq(Request)]
         /\ rq => host_i[sel] \in Request
         /\ \A h \in Hosts : pend'[h] = IF rq /\ h = sel THEN Append(Taken(pend, rs)[h], host_i[sel])
                                        ELSE Taken(pend, rs)[h]
<1>1. pend \in [Hosts -> Seq(Request)] /\ sel \in Hosts
  BY DEF TypeOK, Fires
<1>2. \A h \in Hosts : SubSeq(pend[h], 2, Len(pend[h])) \in Seq(Request)
  BY <1>1, SecondOn
<1>3. Taken(pend, rs) \in [Hosts -> Seq(Request)]
  BY <1>1, <1>2 DEF Taken
<1>4. rq => host_i[sel] \in Request
  BY DEF TypeOK, Fires, Valid
<1>5. pend' = [h \in Hosts |-> IF rq /\ h = sel THEN Append(Taken(pend, rs)[h], host_i[h])
                              ELSE Taken(pend, rs)[h]]
  BY DEF Fires, History, Taken
<1>6. rq => \A h \in Hosts : Append(Taken(pend, rs)[h], host_i[sel]) \in Seq(Request)
  BY <1>3, <1>4, AppendProperties
<1> HIDE DEF Taken
<1>7. QED BY <1>3, <1>4, <1>5, <1>6

-------------------------------------------------------------------------------
(* The invariant holds in reset, when the device holds nothing.            *)
LEMMA InitInvariant == Init => MuxInv
<1> SUFFICES ASSUME Init PROVE MuxInv
  OBVIOUS
<1>1. devq \in Seq([addr: Addr, anc: Anc, src: Hosts]) /\ Len(devq) = 0
      /\ pend \in [Hosts -> Seq(Request)]
  BY EmptySeq DEF Init
<1>2. QED
  BY <1>1 DEF Init, MuxInv, TypeOK, RouteMatchesDevice, Slot, Slots, Hosts, Idle

(* One edge keeps the types and the agreement of ring and device. *)
LEMMA EdgeInvariant ==
  ASSUME MuxInv, NEW sel, NEW rq, NEW rs, Fires(sel, rq, rs)
  PROVE  MuxInv'
<1> DEFINE rest == Dropped(devq, rs)
           new  == [addr |-> host_i[sel].addr, src |-> sel, anc |-> host_i[sel].anc]
<1> USE DEF MuxInv
<1>1. /\ rest \in Seq(InFlight) /\ Len(rest) \in Nat
      /\ Len(rest) = IF rs THEN Len(devq) - 1 ELSE Len(devq)
      /\ \A i \in 1 .. Len(rest) : rest[i] = IF rs THEN devq[i + 1] ELSE devq[i]
  <2>1. devq \in Seq(InFlight) /\ rs \in BOOLEAN /\ (rs => devq # <<>>)
    BY DEF Fires, TypeOK, InFlight
  <2>2. QED BY <2>1, DropOldest, Zenon
<1>2. devq' = IF rq THEN Append(rest, new) ELSE rest
  BY DEF Fires, Device, Dropped
<1>3. rq => new \in InFlight /\ host_i[sel].anc \in Anc
  <2> SUFFICES ASSUME rq PROVE new \in InFlight /\ host_i[sel].anc \in Anc
    OBVIOUS
  <2>1. sel \in Hosts /\ host_i[sel] \in Request
    BY DEF Fires, TypeOK, Valid
  <2>2. host_i[sel] \in [addr: Addr, anc: Anc]
    BY <2>1
  <2>3. QED BY <2>1, <2>2 DEF InFlight
<1> HIDE DEF rest, new
<1>4. /\ devq' \in Seq(InFlight) /\ Len(devq') \in Nat
      /\ Len(devq') = IF rq THEN Len(rest) + 1 ELSE Len(rest)
      /\ \A i \in 1 .. Len(rest) : devq'[i] = rest[i]
      /\ rq => devq'[Len(rest) + 1] = new
  <2>1. CASE rq
    <3>1. /\ Append(rest, new) \in Seq(InFlight)
          /\ Len(Append(rest, new)) = Len(rest) + 1
          /\ \A i \in 1 .. Len(rest) : Append(rest, new)[i] = rest[i]
          /\ Append(rest, new)[Len(rest) + 1] = new
      BY <1>1, <1>3, <2>1, AppendProperties
    <3>2. QED BY <2>1, <3>1, <1>1, <1>2
  <2>2. CASE ~rq
    BY <2>2, <1>1, <1>2
  <2>3. rq \in BOOLEAN
    BY DEF Fires
  <2>4. QED BY <2>1, <2>2, <2>3
<1>5. /\ outstanding_q = Len(devq) /\ Len(devq) \in 0 .. MaxOutstanding
      /\ rptr \in Slots /\ wptr \in Slots
      /\ wptr = Slot(rptr, Len(devq))
      /\ rq \in BOOLEAN /\ rs \in BOOLEAN
      /\ rq => Len(devq) < MaxOutstanding
      /\ rs => Len(devq) > 0
  BY DEF TypeOK, RouteMatchesDevice, Fires
<1>6. /\ rptr' = IF rs THEN Succ(rptr) ELSE rptr
      /\ wptr' = IF rq THEN Succ(wptr) ELSE wptr
      /\ outstanding_q' = Len(devq')
      /\ outstanding_q' \in 0 .. MaxOutstanding
  BY <1>1, <1>4, <1>5 DEF Fires, RoutePointers
<1>7. /\ rptr' \in Slots /\ wptr' \in Slots
      /\ Slot(rptr', Len(rest)) = wptr
      /\ wptr' = Slot(rptr', Len(devq'))
  <2>1. rptr' \in Slots /\ wptr' \in Slots
    BY <1>5, <1>6, SlotProperties
  <2>2. Slot(rptr', Len(rest)) = wptr
    <3>1. CASE rs
      <4>1. /\ rptr' = Succ(rptr) /\ Len(rest) \in 0 .. MaxOutstanding - 1
            /\ Len(devq) = Len(rest) + 1
        BY <3>1, <1>1, <1>5, <1>6
      <4>2. Slot(rptr, Len(rest) + 1) = Slot(Succ(rptr), Len(rest))
        BY <4>1, <1>5, SlotProperties
      <4>3. QED BY <4>1, <4>2, <1>5
    <3>2. CASE ~rs
      BY <3>2, <1>1, <1>5, <1>6
    <3>3. QED BY <3>1, <3>2
  <2>3. Len(rest) \in 0 .. MaxOutstanding /\ (rq => Len(rest) < MaxOutstanding)
    BY <1>1, <1>5
  <2>4. rq => Succ(wptr) = Slot(rptr', Len(rest) + 1)
    <3>1. rq => Succ(Slot(rptr', Len(rest))) = Slot(rptr', Len(rest) + 1)
      BY <2>1, <2>3, SlotProperties
    <3>2. QED BY <2>2, <3>1
  <2>5. QED BY <2>1, <2>2, <2>4, <1>4, <1>6
<1>8. ASSUME NEW i \in 1 .. Len(rest)
      PROVE  /\ Slot(rptr', i - 1) \in Slots
             /\ Slot(rptr', i - 1) = Slot(rptr, (IF rs THEN i + 1 ELSE i) - 1)
             /\ rq => Slot(rptr', i - 1) # wptr
  BY <1>1, <1>5, <1>6, <1>7 DEF Slot, Slots, Succ
<1>10. ASSUME NEW i \in 1 .. Len(rest)
       PROVE  /\ source_mem[Slot(rptr', i - 1)] = rest[i].src
              /\ ancillary_mem[Slot(rptr', i - 1)] = rest[i].anc
  <2>1. (IF rs THEN i + 1 ELSE i) \in 1 .. Len(devq)
    BY <1>1, <1>5
  <2>2. rest[i] = devq[IF rs THEN i + 1 ELSE i]
    BY <1>1
  <2>3. QED BY <2>1, <2>2, <1>8 DEF RouteMatchesDevice
<1>11. \A i \in 1 .. Len(devq') : /\ source_mem'[Slot(rptr', i - 1)] = devq'[i].src
                                  /\ ancillary_mem'[Slot(rptr', i - 1)] = devq'[i].anc
  <2>1. CASE ~rq
    BY <2>1, <1>1, <1>2, <1>10 DEF Fires, RouteMemories
  <2>2. CASE rq
    <3>1. /\ source_mem' = [source_mem EXCEPT ![wptr] = sel]
          /\ ancillary_mem' = [ancillary_mem EXCEPT ![wptr] = host_i[sel].anc]
          /\ new.src = sel /\ new.anc = host_i[sel].anc
          /\ source_mem \in [Slots -> Hosts] /\ ancillary_mem \in [Slots -> Anc]
          /\ wptr \in Slots
      BY <2>2 DEF Fires, RouteMemories, TypeOK, new
    <3>2. ASSUME NEW i \in 1 .. Len(devq')
          PROVE  /\ source_mem'[Slot(rptr', i - 1)] = devq'[i].src
                 /\ ancillary_mem'[Slot(rptr', i - 1)] = devq'[i].anc
      <4>1. CASE i = Len(rest) + 1
        BY <4>1, <3>1, <2>2, <1>1, <1>4, <1>7
      <4>2. CASE i # Len(rest) + 1
        BY <4>2, <3>1, <2>2, <1>1, <1>4, <1>8, <1>10
      <4>3. QED BY <4>1, <4>2
    <3>3. QED BY <3>2
  <2>3. QED BY <2>1, <2>2
<1>12. TypeOK'
  <2>1. ancillary_mem' \in [Slots -> Anc] /\ source_mem' \in [Slots -> Hosts]
    BY <1>3 DEF Fires, RouteMemories, TypeOK
  <2>2. host_i' \in [Hosts -> Request \cup {Idle}]
    BY DEF Fires, Present
  <2>3. rs => Head(devq) \in InFlight
    BY HeadTailProperties DEF TypeOK, InFlight, Fires
  <2>4. got' \in [Hosts -> [addr: Addr, anc: Anc] \cup {Idle}]
    BY <2>3 DEF Fires, Deliver, TypeOK, InFlight
  <2>5. pend' \in [Hosts -> Seq(Request)]
    BY HistoryStep DEF TypeOK
  <2>6. QED
    BY <1>4, <1>6, <1>7, <2>1, <2>2, <2>4, <2>5 DEF TypeOK, InFlight
<1>13. RouteMatchesDevice'
  BY <1>6, <1>7, <1>11 DEF RouteMatchesDevice
<1>14. QED BY <1>12, <1>13

-------------------------------------------------------------------------------
(* Every step keeps the invariant.                                         *)
LEMMA InvariantInductive == MuxInv /\ [Next]_vars => MuxInv'
<1> SUFFICES ASSUME MuxInv, [Next]_vars PROVE MuxInv'
  OBVIOUS
<1>1. CASE Next
  <2>1. PICK sel \in Hosts, ar, dv, dr \in BOOLEAN : Clock(sel, ar, dv, dr)
    BY <1>1 DEF Next
  <2>2. QED BY <2>1, EdgeFires, EdgeInvariant
<1>2. CASE UNCHANGED vars
  BY <1>2 DEF vars, ring, MuxInv, TypeOK, RouteMatchesDevice, Slot
<1>3. QED BY <1>1, <1>2

(***************************************************************************)
(* Every register of the multiplexer stays in its range; in particular the *)
(* in-flight counter never passes MAX_OUTSTANDING nor wraps below zero.    *)
(***************************************************************************)
THEOREM TypeCorrect == Spec => []TypeOK
<1>1. MuxInv => TypeOK
  BY DEF MuxInv
<1>2. QED BY <1>1, InitInvariant, InvariantInductive, PTL DEF Spec

(***************************************************************************)
(* The route ring describes exactly the requests the device holds.         *)
(***************************************************************************)
THEOREM RoutesAgree == Spec => []RouteMatchesDevice
<1>1. MuxInv => RouteMatchesDevice
  BY DEF MuxInv
<1>2. QED BY <1>1, InitInvariant, InvariantInductive, PTL DEF Spec

(***************************************************************************)
(* An answer reaches the host that sent the request it answers, with that  *)
(* request's ancillary value.                                              *)
(***************************************************************************)
THEOREM AnswersRouted == Spec => AnswerReachesSender
<1> DEFINE A == \A h \in Hosts : got'[h] # Idle =>
                  /\ devq # <<>> /\ devq[1].src = h
                  /\ got'[h] = [addr |-> devq[1].addr, anc |-> devq[1].anc]
<1>1. ASSUME MuxInv, Next PROVE A
  <2>1. PICK sel \in Hosts, ar, dv, dr \in BOOLEAN : Clock(sel, ar, dv, dr)
    BY <1>1 DEF Next
  <2>2. PICK rq, rs \in BOOLEAN : Fires(sel, rq, rs)
    BY <2>1, EdgeFires
  <2>3. CASE ~rs
    BY <2>2, <2>3 DEF Fires, Deliver
  <2>4. CASE rs
    <3>1. devq \in Seq(InFlight) /\ devq # <<>>
      BY <2>2, <2>4, <1>1 DEF Fires, MuxInv, TypeOK, InFlight
    <3>2. Head(devq) = devq[1] /\ 1 \in 1 .. Len(devq)
      BY <3>1, HeadTailProperties, EmptySeq, LenProperties
    <3>3. Slot(rptr, 1 - 1) = rptr
      BY <1>1 DEF MuxInv, TypeOK, Slot, Slots
    <3>4. source_mem[rptr] = devq[1].src /\ ancillary_mem[rptr] = devq[1].anc
      BY <3>2, <3>3, <1>1 DEF MuxInv, RouteMatchesDevice
    <3>5. QED
      BY <2>2, <2>4, <3>1, <3>2, <3>4 DEF Fires, Deliver, response_host_id
  <2>5. QED BY <2>3, <2>4
<1>2. MuxInv /\ [Next]_vars => [A]_vars
  BY <1>1
<1>3. QED
  BY <1>2, InitInvariant, InvariantInductive, PTL DEF Spec, AnswerReachesSender

-------------------------------------------------------------------------------
(* The requests the device holds and those each host waits for are the     *)
(* same ones in the same order: at[i] is the place of the i-th request of  *)
(* the device among those of its host.                                     *)
Asked(e) == [addr |-> e.addr, anc |-> e.anc]
Matches(q, p, at) ==
  /\ \A i \in 1 .. Len(q) : at[i] \in 1 .. Len(p[q[i].src]) /\ p[q[i].src][at[i]] = Asked(q[i])
  /\ \A i, j \in 1 .. Len(q) : i < j /\ q[i].src = q[j].src => at[i] < at[j]
  /\ \A h \in Hosts : \A k \in 1 .. Len(p[h]) : \E i \in 1 .. Len(q) : q[i].src = h /\ at[i] = k
Matched(q, p) == \E at \in [1 .. Len(q) -> Nat] : Matches(q, p, at)

(* The device's oldest request is the oldest of its host.                  *)
LEMMA OldestFirst ==
  ASSUME NEW q \in Seq(InFlight), q # <<>>, NEW p \in [Hosts -> Seq(Request)],
         NEW at, Matches(q, p, at)
  PROVE  /\ 1 \in 1 .. Len(q) /\ q[1] \in InFlight /\ at[1] = 1
         /\ p[q[1].src] # <<>> /\ Head(p[q[1].src]) = Asked(q[1])
<1>1. 1 \in 1 .. Len(q) /\ q[1] \in InFlight /\ Len(q) \in Nat
  <2>1. Len(q) \in Nat \ {0}
    BY EmptySeq
  <2>2. 1 \in 1 .. Len(q)
    BY <2>1
  <2>3. QED BY <2>1, <2>2, ElementOfSeq
<1> DEFINE h == q[1].src
<1>2. h \in Hosts /\ p[h] \in Seq(Request)
  BY <1>1 DEF InFlight
<1>3. Len(p[h]) \in Nat
  BY <1>2, LenProperties
<1>4. at[1] \in 1 .. Len(p[h]) /\ p[h][at[1]] = Asked(q[1])
  BY <1>1 DEF Matches
<1>5. at[1] = 1
  <2>1. 1 \in 1 .. Len(p[h])
    BY <1>3, <1>4
  <2>2. PICK i \in 1 .. Len(q) : q[i].src = h /\ at[i] = 1
    BY <1>2, <2>1 DEF Matches
  <2>3. CASE i = 1
    BY <2>2, <2>3
  <2>4. CASE i # 1
    <3>1. 1 < i
      BY <1>1, <2>4
    <3>2. at[1] < at[i]
      BY <1>1, <2>2, <3>1 DEF Matches
    <3>3. QED BY <1>3, <1>4, <2>2, <3>2
  <2>5. QED BY <2>3, <2>4
<1>6. p[h] # <<>>
  BY <1>3, <1>4, EmptySeq
<1>7. Head(p[h]) = p[h][1]
  BY <1>2, <1>6, HeadTailProperties
<1>8. QED BY <1>1, <1>4, <1>5, <1>6, <1>7

(* The pairing outlives an answer: the queue and the host drop their first *)
(* request, and every other place of that host moves up by one.            *)
LEMMA MatchAnswered ==
  ASSUME NEW q \in Seq(InFlight), q # <<>>, NEW p \in [Hosts -> Seq(Request)], Matched(q, p),
         NEW d \in [Hosts -> Seq(Request)],
         \A g \in Hosts : IF g = q[1].src THEN d[g] = SubSeq(p[g], 2, Len(p[g])) ELSE d[g] = p[g]
  PROVE  Matched(Tail(q), d)
<1> DEFINE h == q[1].src
           n == Len(q) - 1
           t == Tail(q)
<1>1. PICK at \in [1 .. Len(q) -> Nat] : Matches(q, p, at)
  BY DEF Matched
<1>2. at[1] = 1 /\ p[h] # <<>> /\ q[1] \in InFlight /\ 1 \in 1 .. Len(q)
  BY <1>1, OldestFirst
<1>3. /\ t \in Seq(InFlight) /\ Len(t) = n /\ n \in Nat
      /\ \A i \in 1 .. n : i + 1 \in 1 .. Len(q) /\ t[i] = q[i + 1] /\ q[i + 1].src \in Hosts
  <2>1. t \in Seq(InFlight) /\ Len(t) = n /\ \A i \in 1 .. Len(t) : t[i] = q[i + 1]
    BY HeadTailProperties
  <2>2. Len(q) \in Nat
    BY LenProperties
  <2>3. n \in Nat /\ \A i \in 1 .. n : i + 1 \in 1 .. Len(q)
    BY <1>2, <2>2
  <2>4. \A i \in 1 .. Len(q) : q[i] \in InFlight
    BY ElementOfSeq
  <2>5. QED BY <2>1, <2>3, <2>4 DEF InFlight
<1>4. h \in Hosts
  BY <1>2 DEF InFlight
<1>5. /\ Len(p[h]) \in Nat /\ Len(d[h]) = Len(p[h]) - 1 /\ Len(d[h]) \in Nat
      /\ \A k \in 1 .. Len(d[h]) : d[h][k] = p[h][k + 1]
  <2>1. p[h] \in Seq(Request) /\ d[h] = SubSeq(p[h], 2, Len(p[h]))
    BY <1>4
  <2>2. Len(p[h]) \in Nat
    BY <2>1, LenProperties
  <2>3. QED BY <1>2, <2>1, <2>2, SecondOn
<1>6. \A g \in Hosts : g # h => d[g] = p[g]
  OBVIOUS
<1> DEFINE b == [i \in 1 .. n |-> IF q[i + 1].src = h THEN at[i + 1] - 1 ELSE at[i + 1]]
<1> HIDE DEF n, t, h
<1>7. ASSUME NEW i \in 1 .. n
      PROVE  /\ b[i] \in Nat /\ b[i] \in 1 .. Len(d[t[i].src]) /\ d[t[i].src][b[i]] = Asked(t[i])
             /\ t[i].src = h => b[i] = at[i + 1] - 1
             /\ t[i].src # h => b[i] = at[i + 1]
  <2>1. /\ i + 1 \in 1 .. Len(q) /\ t[i] = q[i + 1] /\ t[i].src \in Hosts
        /\ at[i + 1] \in 1 .. Len(p[t[i].src]) /\ p[t[i].src][at[i + 1]] = Asked(t[i])
        /\ at[i + 1] \in Nat
    <3>1. i + 1 \in 1 .. Len(q) /\ t[i] = q[i + 1] /\ t[i].src \in Hosts
      BY <1>3
    <3>2. QED BY <1>1, <3>1 DEF Matches
  <2>2. CASE t[i].src = h
    <3>1. at[1] < at[i + 1]
      <4>1. 1 < i + 1 /\ q[i + 1].src = q[1].src
        BY <1>3, <2>1, <2>2 DEF h
      <4>2. QED BY <1>1, <1>2, <2>1, <4>1 DEF Matches
    <3>2. b[i] = at[i + 1] - 1
      BY <2>1, <2>2
    <3>3. b[i] \in 1 .. Len(d[h]) /\ b[i] + 1 = at[i + 1]
      BY <1>2, <1>5, <2>1, <2>2, <3>1, <3>2
    <3>4. d[h][b[i]] = p[h][at[i + 1]]
      BY <1>5, <3>3
    <3>5. QED BY <1>5, <2>1, <2>2, <3>2, <3>3, <3>4
  <2>3. CASE t[i].src # h
    <3>1. b[i] = at[i + 1] /\ d[t[i].src] = p[t[i].src]
      BY <1>6, <2>1, <2>3
    <3>2. QED BY <2>1, <2>3, <3>1
  <2>4. QED BY <2>2, <2>3
<1>8. ASSUME NEW i \in 1 .. n, NEW j \in 1 .. n, i < j, t[i].src = t[j].src
      PROVE  b[i] < b[j]
  <2>1. at[i + 1] < at[j + 1] /\ at[i + 1] \in Nat /\ at[j + 1] \in Nat
    <3>1. i + 1 \in 1 .. Len(q) /\ j + 1 \in 1 .. Len(q) /\ i + 1 < j + 1
          /\ q[i + 1].src = q[j + 1].src
      BY <1>3, <1>8
    <3>2. QED BY <1>1, <3>1 DEF Matches
  <2>2. CASE t[i].src = h
    BY <1>7, <1>8, <2>1, <2>2
  <2>3. CASE t[i].src # h
    BY <1>7, <1>8, <2>1, <2>3
  <2>4. QED BY <2>2, <2>3
<1>9. ASSUME NEW g \in Hosts, NEW k \in 1 .. Len(d[g])
      PROVE  \E i \in 1 .. n : t[i].src = g /\ b[i] = k
  <2>1. CASE g = h
    <3>1. k \in Nat /\ k + 1 \in 1 .. Len(p[h]) /\ k + 1 # 1
      BY <1>5, <2>1
    <3>2. PICK j \in 1 .. Len(q) : q[j].src = h /\ at[j] = k + 1
      BY <1>1, <1>4, <3>1 DEF Matches
    <3>3. j # 1
      BY <1>2, <3>1, <3>2
    <3>4. j - 1 \in 1 .. n /\ j - 1 + 1 = j
      BY <1>3, <3>3 DEF n
    <3>5. t[j - 1].src = h /\ b[j - 1] = k
      BY <1>3, <1>7, <3>1, <3>2, <3>4
    <3>6. QED BY <2>1, <3>4, <3>5
  <2>2. CASE g # h
    <3>1. k \in 1 .. Len(p[g])
      BY <1>6, <2>2
    <3>2. PICK j \in 1 .. Len(q) : q[j].src = g /\ at[j] = k
      BY <1>1, <3>1 DEF Matches
    <3>3. j # 1
      BY <2>2, <3>2 DEF h
    <3>4. j - 1 \in 1 .. n /\ j - 1 + 1 = j
      BY <1>3, <3>3 DEF n
    <3>5. t[j - 1].src = g /\ b[j - 1] = k
      BY <1>3, <1>7, <2>2, <3>2, <3>4
    <3>6. QED BY <3>4, <3>5
  <2>3. QED BY <2>1, <2>2
<1>10. b \in [1 .. n -> Nat]
  BY <1>7
<1> HIDE DEF b
<1>11. Matches(t, d, b)
  BY <1>3, <1>7, <1>8, <1>9 DEF Matches
<1>12. QED BY <1>3, <1>10, <1>11 DEF Matched, t

(* The pairing outlives an accept: the new request is the last of the      *)
(* queue and the last of its host.                                         *)
LEMMA MatchAccepted ==
  ASSUME NEW q \in Seq(InFlight), NEW p \in [Hosts -> Seq(Request)], Matched(q, p),
         NEW new \in InFlight, NEW d \in [Hosts -> Seq(Request)], Asked(new) \in Request,
         \A g \in Hosts : IF g = new.src THEN d[g] = Append(p[g], Asked(new)) ELSE d[g] = p[g]
  PROVE  Matched(Append(q, new), d)
<1> DEFINE h == new.src
           n == Len(q)
           m == Len(p[h]) + 1
           t == Append(q, new)
<1>1. PICK at \in [1 .. n -> Nat] : Matches(q, p, at)
  BY DEF Matched
<1>2. /\ n \in Nat /\ Len(t) = n + 1 /\ t[n + 1] = new
      /\ \A i \in 1 .. n : t[i] = q[i] /\ i \in 1 .. n + 1 /\ i # n + 1 /\ i < n + 1
      /\ \A i \in 1 .. n + 1 : i \in 1 .. n \/ i = n + 1
      /\ n + 1 \in 1 .. n + 1
  <2>1. n \in Nat /\ Len(t) = n + 1 /\ t[n + 1] = new /\ \A i \in 1 .. n : t[i] = q[i]
    BY AppendProperties, LenProperties
  <2>2. QED BY <2>1
<1>3. h \in Hosts /\ \A i \in 1 .. n : q[i].src \in Hosts
  <2>1. \A i \in 1 .. n : q[i] \in InFlight
    BY ElementOfSeq
  <2>2. QED BY <2>1 DEF InFlight
<1>4. /\ m - 1 = Len(p[h]) /\ m - 1 \in Nat /\ Len(d[h]) = m /\ d[h][m] = Asked(new)
      /\ \A k \in 1 .. m - 1 : d[h][k] = p[h][k]
  <2>1. p[h] \in Seq(Request) /\ d[h] = Append(p[h], Asked(new))
    BY <1>3
  <2>2. Len(p[h]) \in Nat
    BY <2>1, LenProperties
  <2>3. /\ Len(Append(p[h], Asked(new))) = Len(p[h]) + 1
        /\ Append(p[h], Asked(new))[Len(p[h]) + 1] = Asked(new)
        /\ \A k \in 1 .. Len(p[h]) : Append(p[h], Asked(new))[k] = p[h][k]
    BY <2>1, AppendProperties
  <2>4. QED BY <2>1, <2>2, <2>3
<1>5. \A g \in Hosts : g # h => d[g] = p[g]
  OBVIOUS
<1> DEFINE b == [i \in 1 .. n + 1 |-> IF i = n + 1 THEN m ELSE at[i]]
<1> HIDE DEF n, t, h, m
<1>6. /\ b[n + 1] = m /\ \A i \in 1 .. n : b[i] = at[i]
      /\ b \in [1 .. n + 1 -> Nat]
  BY <1>1, <1>2, <1>4
<1> HIDE DEF b
<1>7. ASSUME NEW i \in 1 .. n + 1
      PROVE  b[i] \in 1 .. Len(d[t[i].src]) /\ d[t[i].src][b[i]] = Asked(t[i])
  <2>1. CASE i = n + 1
    <3>1. t[i].src = h /\ b[i] = m /\ m \in 1 .. m
      BY <1>2, <1>4, <1>6, <2>1 DEF h
    <3>2. QED BY <1>2, <1>4, <2>1, <3>1
  <2>2. CASE i \in 1 .. n
    <3>1. /\ t[i] = q[i] /\ b[i] = at[i] /\ q[i].src \in Hosts
          /\ at[i] \in 1 .. Len(p[q[i].src]) /\ p[q[i].src][at[i]] = Asked(q[i])
      BY <1>1, <1>2, <1>3, <1>6, <2>2 DEF Matches, n
    <3>2. CASE q[i].src = h
      <4>1. at[i] \in 1 .. m - 1 /\ at[i] \in 1 .. m
        BY <1>4, <3>1, <3>2
      <4>2. QED BY <1>4, <3>1, <3>2, <4>1
    <3>3. CASE q[i].src # h
      BY <1>5, <3>1, <3>3
    <3>4. QED BY <3>2, <3>3
  <2>3. QED BY <1>2, <2>1, <2>2
<1>8. ASSUME NEW i \in 1 .. n + 1, NEW j \in 1 .. n + 1, i < j, t[i].src = t[j].src
      PROVE  b[i] < b[j]
  <2>1. i \in 1 .. n
    BY <1>2, <1>8
  <2>2. CASE j = n + 1
    <3>1. q[i].src = h /\ b[i] = at[i] /\ b[j] = m
      BY <1>2, <1>6, <1>8, <2>1, <2>2 DEF h
    <3>2. at[i] \in 1 .. m - 1
      BY <1>1, <1>4, <2>1, <3>1 DEF Matches, n
    <3>3. QED BY <1>4, <3>1, <3>2
  <2>3. CASE j \in 1 .. n
    BY <1>1, <1>2, <1>6, <1>8, <2>1, <2>3 DEF Matches, n
  <2>4. QED BY <1>2, <2>2, <2>3
<1>9. ASSUME NEW g \in Hosts, NEW k \in 1 .. Len(d[g])
      PROVE  \E i \in 1 .. n + 1 : t[i].src = g /\ b[i] = k
  <2>1. CASE g = h /\ k = m
    BY <1>2, <1>6, <2>1 DEF h
  <2>2. CASE ~(g = h /\ k = m)
    <3>1. k \in 1 .. Len(p[g])
      <4>1. CASE g = h
        BY <1>4, <2>2, <4>1
      <4>2. CASE g # h
        BY <1>5, <4>2
      <4>3. QED BY <4>1, <4>2
    <3>2. PICK i \in 1 .. n : q[i].src = g /\ at[i] = k
      BY <1>1, <3>1 DEF Matches, n
    <3>3. QED BY <1>2, <1>6, <3>2
  <2>3. QED BY <2>1, <2>2
<1>10. Matches(t, d, b)
  BY <1>2, <1>7, <1>8, <1>9 DEF Matches
<1>11. QED BY <1>2, <1>6, <1>10 DEF Matched, t

(* One edge: the host whose answer comes drops its oldest request, then    *)
(* the one whose request is accepted gains its youngest.                   *)
LEMMA EdgeMatched ==
  ASSUME MuxInv, Matched(devq, pend), NEW sel, NEW rq, NEW rs, Fires(sel, rq, rs)
  PROVE  /\ Matched(devq, pend)'
         /\ Bus!Edge(IF rq THEN {sel} ELSE {}, IF rs THEN {response_host_id} ELSE {}, host_i[sel])
<1> DEFINE rest == Dropped(devq, rs)
           kept == Taken(pend, rs)
           new  == [addr |-> host_i[sel].addr, src |-> sel, anc |-> host_i[sel].anc]
<1>1. /\ rq \in BOOLEAN /\ rs \in BOOLEAN /\ sel \in Hosts /\ (rs => devq # <<>>)
      /\ devq \in Seq(InFlight) /\ pend \in [Hosts -> Seq(Request)]
      /\ rptr \in Slots
  BY DEF Fires, MuxInv, TypeOK, InFlight
<1>2. /\ kept \in [Hosts -> Seq(Request)] /\ (rq => host_i[sel] \in Request)
      /\ \A h \in Hosts : pend'[h] = IF rq /\ h = sel THEN Append(kept[h], host_i[sel]) ELSE kept[h]
      /\ pend' \in [Hosts -> Seq(Request)]
  BY HistoryStep DEF MuxInv
<1>3. rest \in Seq(InFlight)
  BY <1>1, DropOldest
<1>4. PICK at : Matches(devq, pend, at)
  BY DEF Matched
<1>5. ASSUME rs
      PROVE  /\ response_host_id = devq[1].src /\ pend[response_host_id] # <<>>
             /\ Head(devq) = devq[1] /\ devq[1] \in InFlight
             /\ Head(pend[response_host_id]) = [addr |-> Head(devq).addr, anc |-> ancillary_mem[rptr]]
  <2>1. /\ 1 \in 1 .. Len(devq) /\ devq[1] \in InFlight
        /\ pend[devq[1].src] # <<>> /\ Head(pend[devq[1].src]) = Asked(devq[1])
    BY <1>1, <1>4, <1>5, OldestFirst
  <2>2. Slot(rptr, 1 - 1) = rptr
    BY <1>1 DEF Slot, Slots
  <2>3. source_mem[rptr] = devq[1].src /\ ancillary_mem[rptr] = devq[1].anc
    BY <2>1, <2>2 DEF MuxInv, RouteMatchesDevice
  <2>4. Head(devq) = devq[1]
    BY <1>1, <1>5, HeadTailProperties
  <2>5. QED BY <2>1, <2>3, <2>4 DEF response_host_id, Asked
<1>6. Matched(rest, kept)
  <2>1. CASE rs
    <3>1. devq[1].src \in Hosts
      BY <1>5, <2>1 DEF InFlight
    <3>2. \A g \in Hosts : IF g = devq[1].src THEN kept[g] = SubSeq(pend[g], 2, Len(pend[g]))
                           ELSE kept[g] = pend[g]
      BY <1>5, <2>1 DEF Taken
    <3>3. rest = Tail(devq)
      BY <2>1 DEF Dropped
    <3> HIDE DEF kept, rest
    <3>4. QED BY <1>1, <1>2, <2>1, <3>2, <3>3, MatchAnswered
  <2>2. CASE ~rs
    <3>1. rest = devq /\ kept = pend
      BY <1>1, <2>2 DEF Dropped, Taken
    <3> HIDE DEF kept, rest
    <3>2. QED BY <3>1
  <2>3. QED BY <1>1, <2>1, <2>2
<1>7. devq' = IF rq THEN Append(rest, new) ELSE rest
  BY DEF Fires, Device, Dropped
<1> HIDE DEF rest, kept
<1>8. Matched(devq', pend')
  <2>1. CASE rq
    <3>1. host_i[sel] \in Request /\ host_i[sel] \in [addr: Addr, anc: Anc]
      BY <1>2, <2>1
    <3>2. new \in InFlight /\ new.src = sel /\ Asked(new) = host_i[sel]
      BY <1>1, <3>1 DEF InFlight, Asked
    <3> HIDE DEF new
    <3>3. \A g \in Hosts : IF g = new.src THEN pend'[g] = Append(kept[g], Asked(new))
                           ELSE pend'[g] = kept[g]
      BY <1>2, <2>1, <3>2
    <3>4. Matched(Append(rest, new), pend')
      BY <1>2, <1>3, <1>6, <3>1, <3>2, <3>3, MatchAccepted
    <3>5. QED BY <1>7, <2>1, <3>4
  <2>2. CASE ~rq
    <3>1. pend' = kept
      BY <1>2, <2>2
    <3>2. QED BY <1>6, <1>7, <2>2, <3>1
  <2>3. QED BY <1>1, <2>1, <2>2
<1>9. Matched(devq, pend)'
  BY <1>8 DEF Matched, Matches, Asked
<1> DEFINE answered == IF rs THEN {response_host_id} ELSE {}
           accepting == IF rq THEN {sel} ELSE {}
<1>10. \A h \in Hosts : h \in answered <=> rs /\ h = response_host_id
  BY <1>1
<1>11. \A h \in Hosts : h \in accepting <=> rq /\ h = sel
  BY <1>1
<1>12. rs => response_host_id \in Hosts
  BY <1>5 DEF InFlight
<1>13. \A h \in answered : pend[h] # <<>>
  BY <1>5, <1>10, <1>12
<1>14. got' = [h \in Hosts |-> IF h \in answered THEN Head(pend[h]) ELSE Bus!Silence]
  BY <1>5, <1>10 DEF Fires, Deliver, Bus!Silence, Idle
<1>15. pend' = [h \in Hosts |->
         LET before == IF h \in answered THEN Tail(pend[h]) ELSE pend[h]
         IN  IF h \in accepting THEN Append(before, host_i[sel]) ELSE before]
  <2>1. ASSUME NEW h \in Hosts
        PROVE  kept[h] = IF h \in answered THEN Tail(pend[h]) ELSE pend[h]
    <3>1. CASE h \in answered
      <4>1. pend[h] \in Seq(Request) /\ pend[h] # <<>>
        BY <1>1, <1>13, <3>1
      <4>2. SubSeq(pend[h], 2, Len(pend[h])) = Tail(pend[h])
        BY <4>1, SecondOn
      <4>3. QED BY <1>10, <3>1, <4>2 DEF kept, Taken
    <3>2. CASE h \notin answered
      BY <1>10, <3>2 DEF kept, Taken
    <3>3. QED BY <3>1, <3>2
  <2>2. pend' = [h \in Hosts |-> pend'[h]]
    BY <1>2
  <2> HIDE DEF answered, accepting
  <2>3. QED BY <1>2, <1>11, <2>1, <2>2
<1> HIDE DEF answered, accepting
<1>16. Bus!Edge(accepting, answered, host_i[sel])
  BY <1>13, <1>14, <1>15 DEF Bus!Edge
<1>17. QED BY <1>9, <1>16 DEF answered, accepting

(***************************************************************************)
(* The multiplexer gives every host the service DdrBus promises: its       *)
(* answers come one by one in the order of its requests, each with the     *)
(* ancillary value of its own request, whatever the other hosts do and     *)
(* however the answers wait.                                               *)
(***************************************************************************)
THEOREM BusImplemented == Spec => ImplementsBus
<1> DEFINE I == MuxInv /\ Matched(devq, pend)
<1>1. Init => I
  <2> SUFFICES ASSUME Init PROVE Matched(devq, pend)
    BY InitInvariant
  <2>1. Len(devq) = 0 /\ \A h \in Hosts : Len(pend[h]) = 0
    BY EmptySeq DEF Init
  <2>2. Matches(devq, pend, [i \in 1 .. Len(devq) |-> 0])
    BY <2>1 DEF Matches
  <2>3. QED BY <2>2 DEF Matched
<1>2. Init => Bus!Init
  BY DEF Init, Bus!Init, Idle, Bus!Silence
<1>3. ASSUME I, Next
      PROVE  Matched(devq, pend)' /\ (Bus!Next \/ UNCHANGED <<pend, got>>)
  <2>1. PICK sel \in Hosts, ar, dv, dr \in BOOLEAN : Clock(sel, ar, dv, dr)
    BY <1>3 DEF Next
  <2>2. PICK rq, rs \in BOOLEAN : Fires(sel, rq, rs)
    BY <2>1, EdgeFires
  <2>3. /\ Matched(devq, pend)'
        /\ Bus!Edge(IF rq THEN {sel} ELSE {}, IF rs THEN {response_host_id} ELSE {}, host_i[sel])
    BY <1>3, <2>2, EdgeMatched
  <2> DEFINE accepting == IF rq THEN {sel} ELSE {}
             answered == IF rs THEN {response_host_id} ELSE {}
  <2>4. accepting \in Bus!AtMostOne
    BY <2>2 DEF Fires, Bus!AtMostOne
  <2>5. answered \in Bus!AtMostOne
    <3>1. response_host_id \in Hosts
      BY <1>3 DEF MuxInv, TypeOK, response_host_id
    <3>2. QED BY <3>1 DEF Bus!AtMostOne
  <2>6. \E r \in Request : Bus!Edge(accepting, answered, r)
    <3>1. CASE rq
      <4>1. host_i[sel] \in Request
        BY <1>3, <2>2, <3>1, HistoryStep DEF MuxInv
      <4>2. QED BY <2>3, <4>1
    <3>2. CASE ~rq
      <4>1. PICK r \in Request : TRUE
        OBVIOUS
      <4>2. accepting = {}
        BY <3>2
      <4>3. Bus!Edge({}, answered, host_i[sel])
        BY <2>3, <4>2
      <4>4. Bus!Edge({}, answered, r)
        BY <4>3 DEF Bus!Edge
      <4>5. QED BY <4>2, <4>4
    <3>3. QED BY <3>1, <3>2
  <2> HIDE DEF accepting, answered
  <2>7. Bus!Next
    BY <2>4, <2>5, <2>6 DEF Bus!Next
  <2>8. QED BY <2>3, <2>7
<1>4. ASSUME I, UNCHANGED vars
      PROVE  Matched(devq, pend)' /\ UNCHANGED <<pend, got>>
  BY <1>4 DEF vars, ring, Matched, Matches, Asked
<1>5. I /\ [Next]_vars => I' /\ [Bus!Next]_<<pend, got>>
  BY <1>3, <1>4, InvariantInductive
<1>6. QED BY <1>1, <1>2, <1>5, PTL DEF Spec, ImplementsBus, Bus!Spec
===============================================================================
