--------------------------- MODULE DdrPrefetchProofs ---------------------------
(***************************************************************************)
(* For a table of any size over any number of blocks: no prefetch entry    *)
(* waits for an answer nobody will send, and as long as no entry was freed *)
(* while its read was in flight the unit answers with what the block holds *)
(* now.                                                                    *)
(*                                                                         *)
(* The argument.  While nothing was forgotten, an entry with a read in     *)
(* flight is Pending or Stale and has just one, so the oldest read tells   *)
(* which entry it fills.  A Valid entry holds its block, and the read of a *)
(* Pending one carries its block (Tracked): a write to that block turns    *)
(* the first to Invalid and the second to Stale on the edge it is taken,   *)
(* also when the answer arrives on that very edge.                         *)
(***************************************************************************)
EXTENDS DdrPrefetch, SequenceTheorems, WellFoundedInduction, TLAPS

USE SizeAssumption, BlocksAssumption, MemAssumption, WritesAssumption

State == {"Invalid", "Pending", "Valid", "Stale"}
Read == [anc: Entries, data: Data]

Shape ==
  /\ entry_states \in [Entries -> State] /\ entry_addrs \in [Entries -> Addr]
  /\ entry_data \in [Entries -> Data \cup {None}] /\ next_prefetch_addr \in Addr
  /\ fe_req \in Request \cup {None}
  /\ mem \in [Addr -> Data] /\ reads \in Seq(Read)
  /\ forgot \in BOOLEAN

(* A Valid entry holds what its block holds, the read of a Pending one      *)
(* brings it.                                                               *)
ValidCurrent ==
  \A i \in Entries : entry_states[i] = "Valid" => entry_data[i] = mem[entry_addrs[i]]

PendingCurrent ==
  \A k \in 1 .. Len(reads) :
    entry_states[reads[k].anc] = "Pending" => reads[k].data = mem[entry_addrs[reads[k].anc]]

Tracked == ~Orphaned /\ ValidCurrent /\ PendingCurrent /\ ReadsLatest

IInv == Shape /\ WaitingHasRead /\ (~forgot => Tracked)

-------------------------------------------------------------------------------
(* The entry to allocate and the entry to answer from exist: a set of       *)
(* naturals has a least element.                                            *)
Below == {p \in Nat \X Nat : p[1] < p[2]}

LEMMA BelowWellFounded == IsWellFoundedOn(Below, Nat)
<1>1. Below = OpToRel(<, Nat)
  BY Zenon DEF Below, OpToRel
<1>2. QED BY <1>1, NatLessThanWellFounded

LEMMA LeastExists ==
  ASSUME NEW S \in SUBSET Nat, S # {}
  PROVE  \E x \in S : \A y \in S : x <= y
<1>1. PICK x \in S : \A y \in S : <<y, x>> \notin Below
  BY BelowWellFounded, WFMin
<1>2. ASSUME NEW y \in S PROVE x <= y
  <2>1. <<y, x>> \in Nat \X Nat /\ <<y, x>> \notin Below /\ <<y, x>>[1] = y /\ <<y, x>>[2] = x
    BY <1>1
  <2>2. ~(y < x)
    BY <2>1 DEF Below
  <2>3. QED BY <2>2
<1>3. QED BY <1>2

LEMMA LowestIn ==
  ASSUME NEW S \in SUBSET Entries, S # {}
  PROVE  Lowest(S) \in S
<1>1. \E x \in S : \A y \in S : x <= y
  BY LeastExists DEF Entries
<1>2. QED BY <1>1 DEF Lowest

LEMMA HighestIn ==
  ASSUME NEW S \in SUBSET Entries, S # {}
  PROVE  Highest(S) \in S
<1> DEFINE T == {n \in Nat : SIZE - n \in S}
<1>1. T # {}
  <2>1. PICK i \in S : TRUE
    OBVIOUS
  <2>2. i \in Nat /\ SIZE - i \in Nat /\ SIZE - (SIZE - i) = i
    BY DEF Entries
  <2>3. SIZE - i \in T
    BY <2>2
  <2>4. QED BY <2>3
<1>2. PICK n \in T : \A m \in T : n <= m
  BY <1>1, LeastExists
<1>3. ASSUME NEW j \in S PROVE SIZE - n >= j
  <2>1. j \in Nat /\ SIZE - j \in Nat /\ SIZE - (SIZE - j) = j
    BY DEF Entries
  <2>2. SIZE - j \in T
    BY <2>1
  <2>3. QED BY <1>2, <2>1, <2>2
<1>4. QED BY <1>2, <1>3 DEF Highest

-------------------------------------------------------------------------------
(* What every edge does, in terms of the exchange with the back end.       *)
Edge(xchg, answer) ==
  /\ xchg \in BOOLEAN /\ answer \in BOOLEAN
  /\ answer => reads # <<>>
  /\ UpdateStates(xchg, answer) /\ UpdateAddrs(xchg) /\ UpdateData(answer)
  /\ UpdatePrefetchAddr(xchg) /\ Respond(xchg) /\ Memory(xchg, answer)
  /\ fe_req' \in Request \cup {None}
  /\ forgot' = (forgot \/ Orphaned')

Takes(xchg) == xchg /\ (prefetch \/ demand)
Returns(answer, i) == answer /\ i = Head(reads).anc
Taken == [anc |-> allocate_addr, data |-> mem[be_addr]]

(* What is offered to the back end: an entry that waits for nothing, an     *)
(* address of the memory, never together with a write.                      *)
LEMMA Offered ==
  ASSUME Shape
  PROVE  /\ IsGet \/ IsPut => fe_req.addr \in Addr
         /\ IsPut => fe_req.data \in Data
         /\ prefetch \/ demand => /\ allocate_addr \in Entries
                                  /\ entry_states[allocate_addr] \in {"Invalid", "Valid"}
                                  /\ be_addr \in Addr /\ ~IsPut
                                  /\ Taken \in Read
         /\ dataAck => ~IsPut /\ Highest(ValidHits) \in ValidHits
<1>1. fe_req # None => fe_req.addr \in Addr /\ (fe_req.op = "Put" => fe_req.data \in Data)
  BY DEF Shape, Request, Addr
<1>2. Free \subseteq NonPending /\ NonPending \in SUBSET Entries
      /\ \A i \in NonPending : entry_states[i] \in {"Invalid", "Valid"}
  BY DEF Free, NonPending, Shape, State
<1>3. prefetch \/ demand => allocate_addr \in NonPending
  <2>1. prefetch \/ demand => Free # {} \/ NonPending # {}
    BY DEF prefetch, demand
  <2>2. Free # {} => Lowest(Free) \in NonPending
    BY <1>2, LowestIn
  <2>3. NonPending # {} => Lowest(NonPending) \in NonPending
    BY <1>2, LowestIn
  <2>4. QED BY <2>1, <2>2, <2>3 DEF allocate_addr
<1>4. prefetch \/ demand => be_addr \in Addr /\ ~IsPut /\ mem[be_addr] \in Data
  <2>1. prefetch => ~IsPut /\ be_addr = next_prefetch_addr
    BY DEF prefetch, be_addr
  <2>2. demand /\ ~prefetch => ~IsPut /\ be_addr = fe_req.addr /\ fe_req # None
    BY DEF demand, fe_miss, IsGet, IsPut, be_addr
  <2>3. QED BY <1>1, <2>1, <2>2 DEF Shape
<1>5. dataAck => ~IsPut /\ Highest(ValidHits) \in ValidHits
  <2>1. ValidHits \in SUBSET Entries
    BY DEF ValidHits
  <2>2. QED BY <2>1, HighestIn DEF dataAck, IsGet, IsPut
<1>6. QED BY <1>1, <1>2, <1>3, <1>4, <1>5 DEF IsGet, IsPut, Taken, Read

(* The state of one entry after the edge: the last assignment wins. *)
LEMMA StateAfter ==
  ASSUME Shape, NEW xchg, NEW answer, Edge(xchg, answer), NEW i \in Entries
  PROVE  entry_states'[i] =
           IF Returns(answer, i)
           THEN IF entry_states[i] = "Stale" \/ coincident_invalidate(xchg, i)
                THEN "Invalid" ELSE "Valid"
           ELSE IF dataAck /\ AtOrBelow(i)
           THEN IF entry_states[i] = "Pending" THEN "Stale" ELSE "Invalid"
           ELSE IF xchg /\ IsPut /\ Matching(i) /\ entry_states[i] = "Pending" THEN "Stale"
           ELSE IF xchg /\ IsPut /\ Matching(i) /\ entry_states[i] = "Valid" THEN "Invalid"
           ELSE IF Takes(xchg) /\ i = allocate_addr THEN "Pending"
           ELSE entry_states[i]
<1> DEFINE a == Allocated(xchg, entry_states)
           p == PutInvalidated(xchg, a)
           k == AckInvalidated(p)
<1>1. a \in [Entries -> State]
      /\ a[i] = IF Takes(xchg) /\ i = allocate_addr THEN "Pending" ELSE entry_states[i]
  BY Offered DEF Allocated, Takes, Shape, State
<1> HIDE DEF a
<1>2. p \in [Entries -> State]
      /\ p[i] = IF xchg /\ IsPut /\ Matching(i) /\ entry_states[i] = "Pending" THEN "Stale"
                ELSE IF xchg /\ IsPut /\ Matching(i) /\ entry_states[i] = "Valid" THEN "Invalid"
                ELSE a[i]
  <2>1. CASE xchg /\ IsPut
    <3>1. p = [j \in Entries |->
                 CASE Matching(j) /\ entry_states[j] = "Pending" -> "Stale"
                   [] Matching(j) /\ entry_states[j] = "Valid" -> "Invalid"
                   [] OTHER -> a[j]]
      BY <2>1 DEF PutInvalidated
    <3>2. p \in [Entries -> State]
      BY <1>1, <3>1 DEF State
    <3>3. QED BY <2>1, <3>1, <3>2
  <2>2. CASE ~(xchg /\ IsPut)
    BY <1>1, <2>2 DEF PutInvalidated
  <2>3. QED BY <2>1, <2>2
<1> HIDE DEF p
<1>3. k \in [Entries -> State]
      /\ k[i] = IF dataAck /\ AtOrBelow(i)
                THEN IF entry_states[i] = "Pending" THEN "Stale" ELSE "Invalid"
                ELSE p[i]
  BY <1>2 DEF AckInvalidated, State
<1> HIDE DEF k
<1>4. entry_states' = Answered(xchg, answer, k)
  BY DEF Edge, UpdateStates, a, p, k
<1>5. entry_states'[i] = IF Returns(answer, i)
                         THEN IF entry_states[i] = "Stale" \/ coincident_invalidate(xchg, i)
                              THEN "Invalid" ELSE "Valid"
                         ELSE k[i]
  BY <1>3, <1>4 DEF Answered, Returns
<1>6. QED BY <1>1, <1>2, <1>3, <1>5

(* The reads in flight after the edge: those before it but the one that is *)
(* answered, and the one that is taken.                                    *)
LEMMA ReadsAfter ==
  ASSUME Shape, NEW xchg, NEW answer, Edge(xchg, answer)
  PROVE  /\ reads' \in Seq(Read)
         /\ answer => 1 \in 1 .. Len(reads) /\ Head(reads) = reads[1]
         /\ \A k \in 1 .. Len(reads) :
              k # 1 \/ ~answer => \E j \in 1 .. Len(reads') : reads'[j] = reads[k]
         /\ Takes(xchg) => \E j \in 1 .. Len(reads') : reads'[j] = Taken
         /\ \A j \in 1 .. Len(reads') :
              \/ Takes(xchg) /\ reads'[j] = Taken
              \/ \E k \in 1 .. Len(reads) : reads'[j] = reads[k]
<1> DEFINE rest == IF answer THEN Tail(reads) ELSE reads
<1>1. reads \in Seq(Read) /\ answer \in BOOLEAN /\ xchg \in BOOLEAN /\ (answer => reads # <<>>)
      /\ Len(reads) \in Nat
  BY LenProperties DEF Shape, Edge
<1>2. answer => 1 \in 1 .. Len(reads) /\ Head(reads) = reads[1]
  BY <1>1, EmptySeq, HeadTailProperties
<1>3. /\ rest \in Seq(Read) /\ Len(rest) \in Nat
      /\ \A k \in 1 .. Len(reads) : k # 1 \/ ~answer => \E j \in 1 .. Len(rest) : rest[j] = reads[k]
      /\ \A j \in 1 .. Len(rest) : \E k \in 1 .. Len(reads) : rest[j] = reads[k]
  <2>1. CASE answer
    <3>1. /\ rest \in Seq(Read) /\ Len(rest) = Len(reads) - 1 /\ Len(rest) \in Nat
          /\ \A k \in 1 .. Len(rest) : rest[k] = reads[k + 1]
      BY <1>1, <2>1, HeadTailProperties, LenProperties
    <3> HIDE DEF rest
    <3>2. ASSUME NEW k \in 1 .. Len(reads), k # 1
          PROVE  \E j \in 1 .. Len(rest) : rest[j] = reads[k]
      <4>1. k - 1 \in 1 .. Len(rest) /\ (k - 1) + 1 = k
        BY <1>1, <3>1, <3>2
      <4>2. rest[k - 1] = reads[(k - 1) + 1]
        BY <3>1, <4>1
      <4>3. QED BY <4>1, <4>2
    <3>3. ASSUME NEW j \in 1 .. Len(rest)
          PROVE  \E k \in 1 .. Len(reads) : rest[j] = reads[k]
      <4>1. j + 1 \in 1 .. Len(reads) /\ rest[j] = reads[j + 1]
        BY <1>1, <3>1
      <4>2. QED BY <4>1
    <3>4. QED BY <2>1, <3>1, <3>2, <3>3
  <2>2. CASE ~answer
    <3>1. rest = reads
      BY <2>2
    <3>2. QED BY <1>1, <3>1
  <2>3. QED BY <1>1, <2>1, <2>2
<1>4. reads' = IF Takes(xchg) THEN Append(rest, Taken) ELSE rest
  BY DEF Edge, Memory, Takes, Taken
<1> HIDE DEF rest
<1>5. CASE Takes(xchg)
  <2>1. Taken \in Read
    BY <1>5, Offered DEF Takes
  <2>2. ASSUME NEW q \in Seq(Read), NEW x \in Read
        PROVE  /\ Append(q, x) \in Seq(Read) /\ Len(Append(q, x)) = Len(q) + 1
               /\ \A k \in 1 .. Len(q) : Append(q, x)[k] = q[k]
               /\ Append(q, x)[Len(q) + 1] = x
    BY AppendProperties
  <2>3. /\ reads' \in Seq(Read) /\ Len(reads') = Len(rest) + 1
        /\ \A k \in 1 .. Len(rest) : reads'[k] = rest[k]
        /\ reads'[Len(rest) + 1] = Taken
    BY <1>3, <1>4, <1>5, <2>1, <2>2, Zenon
  <2>4. ASSUME NEW j \in 1 .. Len(rest) PROVE j \in 1 .. Len(reads') /\ reads'[j] = rest[j]
    BY <1>3, <2>3
  <2>5. Len(rest) + 1 \in 1 .. Len(reads')
    BY <1>3, <2>3
  <2>6. ASSUME NEW j \in 1 .. Len(reads') PROVE j \in 1 .. Len(rest) \/ j = Len(rest) + 1
    BY <1>3, <2>3
  <2>7. \A k \in 1 .. Len(reads) :
          k # 1 \/ ~answer => \E j \in 1 .. Len(reads') : reads'[j] = reads[k]
    BY <1>3, <2>4
  <2>8. \A j \in 1 .. Len(reads') :
          reads'[j] = Taken \/ \E k \in 1 .. Len(reads) : reads'[j] = reads[k]
    BY <1>3, <2>3, <2>4, <2>6
  <2>9. QED BY <1>2, <1>5, <2>3, <2>5, <2>7, <2>8
<1>6. CASE ~Takes(xchg)
  BY <1>2, <1>3, <1>4, <1>6
<1>7. QED BY <1>5, <1>6

-------------------------------------------------------------------------------
(* One edge keeps the types. *)
LEMMA ShapeFollows ==
  ASSUME Shape, NEW xchg, NEW answer, Edge(xchg, answer)
  PROVE  Shape'
<1>1. entry_states' \in [Entries -> State]
  <2>1. \A i \in Entries : entry_states'[i] \in State
    BY StateAfter DEF Shape, State
  <2>2. Allocated(xchg, entry_states) \in [Entries -> State]
    BY Offered DEF Allocated, Shape, State
  <2>3. PutInvalidated(xchg, Allocated(xchg, entry_states)) \in [Entries -> State]
    <3> DEFINE a == Allocated(xchg, entry_states)
    <3>1. \A j \in Entries :
            (CASE Matching(j) /\ entry_states[j] = "Pending" -> "Stale"
               [] Matching(j) /\ entry_states[j] = "Valid" -> "Invalid"
               [] OTHER -> a[j]) \in State
      BY <2>2 DEF State
    <3> HIDE DEF a
    <3>2. QED BY <2>2, <3>1 DEF PutInvalidated, a
  <2>4. AckInvalidated(PutInvalidated(xchg, Allocated(xchg, entry_states))) \in [Entries -> State]
    BY <2>3 DEF AckInvalidated, State
  <2>5. QED BY <2>4 DEF Edge, UpdateStates, Answered, State
<1>2. entry_addrs' \in [Entries -> Addr]
  BY Offered DEF Edge, UpdateAddrs, Shape
<1>3. next_prefetch_addr' \in Addr
  <2>1. fe_miss => fe_req.addr \in Addr
    BY Offered DEF fe_miss
  <2>2. \A a \in Addr : (a + 1) % Blocks \in Addr
    BY DEF Addr
  <2>3. QED BY <2>1, <2>2 DEF Edge, UpdatePrefetchAddr, Shape
<1>4. mem' \in [Addr -> Data]
  BY Offered DEF Edge, Memory, Shape
<1>5. reads' \in Seq(Read) /\ forgot' \in BOOLEAN /\ fe_req' \in Request \cup {None}
  <2>1. Orphaned' \in BOOLEAN
    BY DEF Orphaned
  <2>2. QED BY <2>1, ReadsAfter DEF Edge, Shape
<1>6. entry_data' \in [Entries -> Data \cup {None}]
  <2>1. answer => Head(reads) \in Read
    <3>1. reads \in Seq(Read) /\ (answer => reads # <<>>)
      BY DEF Shape, Edge
    <3>2. QED BY <3>1, HeadTailProperties
  <2>2. QED BY <2>1 DEF Edge, UpdateData, Shape, Read
<1>7. QED BY <1>1, <1>2, <1>3, <1>4, <1>5, <1>6 DEF Shape

(* An answer ends the wait of its own entry; a read is kept until then. *)
LEMMA WaitingFollows ==
  ASSUME Shape, WaitingHasRead, NEW xchg, NEW answer, Edge(xchg, answer)
  PROVE  WaitingHasRead'
<1> SUFFICES ASSUME NEW i \in Entries, entry_states'[i] \in {"Pending", "Stale"}
             PROVE  \E k \in 1 .. Len(reads') : reads'[k].anc = i
  BY DEF WaitingHasRead, InFlight
<1>1. ~Returns(answer, i)
  BY StateAfter DEF Returns
<1>2. \/ entry_states[i] \in {"Pending", "Stale"}
      \/ Takes(xchg) /\ i = allocate_addr
  BY <1>1, StateAfter DEF Shape, State
<1>3. CASE Takes(xchg) /\ i = allocate_addr
  BY <1>3, ReadsAfter DEF Taken
<1>4. CASE entry_states[i] \in {"Pending", "Stale"}
  <2>1. PICK k \in 1 .. Len(reads) : reads[k].anc = i
    BY <1>4 DEF WaitingHasRead, InFlight
  <2>2. k # 1 \/ ~answer
    BY <1>1, <2>1, ReadsAfter DEF Returns
  <2>3. QED BY <2>1, <2>2, ReadsAfter
<1>5. QED BY <1>2, <1>3, <1>4

(* An entry with a read in flight waits for it. *)
LEMMA InFlightWaits ==
  ASSUME Shape, ~Orphaned, NEW k \in 1 .. Len(reads)
  PROVE  /\ reads[k].anc \in Entries
         /\ entry_states[reads[k].anc] \in {"Pending", "Stale"}
<1>1. reads[k] \in Read /\ reads[k].anc \in Entries
  <2>1. reads \in Seq(Read)
    BY DEF Shape
  <2>2. reads[k] \in Read
    BY <2>1, ElementOfSeq
  <2>3. QED BY <2>2 DEF Read
<1>2. k \in InFlight(reads[k].anc)
  BY DEF InFlight
<1>3. entry_states[reads[k].anc] \notin {"Invalid", "Valid"}
  BY <1>1, <1>2 DEF Orphaned
<1>4. QED BY <1>1, <1>3 DEF Shape, State

(* A write changes the block it names only, and offers no read with it. *)
LEMMA MemAfter ==
  ASSUME Shape, NEW xchg, NEW answer, Edge(xchg, answer)
  PROVE  /\ \A a \in Addr : ~(xchg /\ IsPut /\ fe_req.addr = a) => mem'[a] = mem[a]
         /\ Takes(xchg) \/ dataAck => mem' = mem
  BY Offered DEF Edge, Memory, Takes, Shape

(* Only the allocated entry gets a new address. *)
LEMMA AddrsAfter ==
  ASSUME Shape, NEW xchg, NEW answer, Edge(xchg, answer), NEW i \in Entries
  PROVE  /\ Takes(xchg) /\ i = allocate_addr => entry_addrs'[i] = be_addr
         /\ ~(Takes(xchg) /\ i = allocate_addr) => entry_addrs'[i] = entry_addrs[i]
  BY DEF Edge, UpdateAddrs, Takes, Shape

(* An entry becomes or stays Valid only if no write met it on this edge. *)
LEMMA ValidFollows ==
  ASSUME IInv, ~forgot, NEW xchg, NEW answer, Edge(xchg, answer)
  PROVE  ValidCurrent'
<1> USE DEF IInv, Tracked
<1> SUFFICES ASSUME NEW i \in Entries, entry_states'[i] = "Valid"
             PROVE  entry_data'[i] = mem'[entry_addrs'[i]]
  BY DEF ValidCurrent
<1>0. entry_addrs[i] \in Addr
  BY DEF Shape
<1>1. CASE Returns(answer, i)
  <2>1. entry_states[i] # "Stale" /\ ~coincident_invalidate(xchg, i)
    BY <1>1, StateAfter
  <2>2. answer /\ 1 \in 1 .. Len(reads) /\ reads[1].anc = i /\ Head(reads) = reads[1]
    BY <1>1, ReadsAfter DEF Returns
  <2>3. entry_states[i] = "Pending"
    BY <2>1, <2>2, InFlightWaits
  <2>4. reads[1].data = mem[entry_addrs[i]]
    BY <2>2, <2>3 DEF PendingCurrent
  <2>5. entry_addrs'[i] = entry_addrs[i]
    BY <2>3, Offered, AddrsAfter DEF Takes
  <2>6. mem'[entry_addrs[i]] = mem[entry_addrs[i]]
    BY <1>0, <2>1, MemAfter DEF coincident_invalidate, Matching
  <2>7. entry_data'[i] = reads[1].data
    BY <2>2, <2>3 DEF Edge, UpdateData, Shape
  <2>8. QED BY <2>4, <2>5, <2>6, <2>7
<1>2. CASE ~Returns(answer, i)
  <2>1. /\ entry_states[i] = "Valid" /\ ~(Takes(xchg) /\ i = allocate_addr)
        /\ ~(xchg /\ IsPut /\ Matching(i))
    BY <1>2, StateAfter
  <2>2. entry_data'[i] = entry_data[i]
    BY <1>2 DEF Edge, UpdateData, Shape, Returns
  <2>3. entry_addrs'[i] = entry_addrs[i] /\ mem'[entry_addrs[i]] = mem[entry_addrs[i]]
    BY <1>0, <2>1, AddrsAfter, MemAfter DEF Matching
  <2>4. QED BY <2>1, <2>2, <2>3 DEF ValidCurrent
<1>3. QED BY <1>1, <1>2

(* A read keeps carrying its block: a write to it marks the entry Stale. *)
LEMMA PendingFollows ==
  ASSUME IInv, ~forgot, NEW xchg, NEW answer, Edge(xchg, answer)
  PROVE  PendingCurrent'
<1> USE DEF IInv, Tracked
<1> SUFFICES ASSUME NEW j \in 1 .. Len(reads'), entry_states'[reads'[j].anc] = "Pending"
             PROVE  reads'[j].data = mem'[entry_addrs'[reads'[j].anc]]
  BY DEF PendingCurrent
<1> DEFINE i == reads'[j].anc
<1>1. CASE Takes(xchg) /\ reads'[j] = Taken
  <2>1. i = allocate_addr /\ i \in Entries /\ reads'[j].data = mem[be_addr]
    BY <1>1, Offered DEF Taken, Takes
  <2>2. entry_addrs'[i] = be_addr /\ mem' = mem
    BY <1>1, <2>1, AddrsAfter, MemAfter
  <2>3. QED BY <2>1, <2>2
<1>2. CASE \E k \in 1 .. Len(reads) : reads'[j] = reads[k]
  <2>1. PICK k \in 1 .. Len(reads) : reads'[j] = reads[k]
    BY <1>2
  <2>2. i \in Entries /\ entry_states[i] \in {"Pending", "Stale"}
    BY <2>1, InFlightWaits
  <2>3. ~(Takes(xchg) /\ i = allocate_addr)
    BY <2>2, Offered DEF Takes
  <2>4. entry_states[i] = "Pending" /\ ~(xchg /\ IsPut /\ Matching(i))
    BY <2>2, <2>3, StateAfter
  <2>5. entry_addrs'[i] = entry_addrs[i] /\ mem'[entry_addrs[i]] = mem[entry_addrs[i]]
    BY <2>2, <2>3, <2>4, AddrsAfter, MemAfter DEF Matching, Shape
  <2>6. reads[k].data = mem[entry_addrs[i]]
    BY <2>1, <2>4 DEF PendingCurrent
  <2>7. QED BY <2>1, <2>5, <2>6
<1>3. QED BY <1>1, <1>2, ReadsAfter

(* A hit answers from a Valid entry of the block, and no write comes with it. *)
LEMMA ResponseFollows ==
  ASSUME IInv, ~forgot, NEW xchg, NEW answer, Edge(xchg, answer)
  PROVE  ReadsLatest'
<1> USE DEF IInv, Tracked
<1> SUFFICES ASSUME fe_rsp' # None PROVE fe_rsp'.data = mem'[fe_rsp'.addr]
  BY DEF ReadsLatest
<1> DEFINE i == Highest(ValidHits)
<1>1. dataAck /\ fe_rsp'.addr = fe_req.addr /\ fe_rsp'.data = entry_data[i]
  BY DEF Edge, Respond
<1>2. i \in Entries /\ entry_addrs[i] = fe_req.addr /\ entry_states[i] = "Valid"
  BY <1>1, Offered DEF ValidHits, Matching
<1>3. mem' = mem
  BY <1>1, MemAfter
<1>4. QED BY <1>1, <1>2, <1>3 DEF ValidCurrent

-------------------------------------------------------------------------------
(* The table starts empty. *)
LEMMA InitInvariant == Init => IInv
<1> SUFFICES ASSUME Init PROVE IInv
  OBVIOUS
<1>1. Shape
  <2>1. reads \in Seq(Read)
    BY DEF Init
  <2>2. 0 \in Addr
    BY DEF Addr
  <2>3. entry_data \in [Entries -> Data \cup {None}] /\ mem \in [Addr -> Data]
    BY DEF Init, Addr
  <2>4. QED BY <2>1, <2>2, <2>3 DEF Init, Shape, State
<1>2. WaitingHasRead /\ ~Orphaned /\ ValidCurrent /\ PendingCurrent /\ ReadsLatest
  BY DEF Init, WaitingHasRead, Orphaned, InFlight, ValidCurrent, PendingCurrent, ReadsLatest
<1>3. QED BY <1>1, <1>2 DEF IInv, Tracked

(* One clock edge keeps the invariant. *)
LEMMA NextInvariant == IInv /\ [Next]_vars => IInv'
<1> SUFFICES ASSUME IInv, [Next]_vars PROVE IInv'
  OBVIOUS
<1>1. CASE Next
  <2>1. PICK be_a_ready \in BOOLEAN, answer \in BOOLEAN, r \in Request \cup {None} :
          Clock(be_a_ready, answer, r)
    BY <1>1 DEF Next
  <2> DEFINE xchg == be_a_ready /\ (IsPut \/ demand \/ prefetch)
  <2>2. Edge(xchg, answer)
    <3>1. fe_req' \in Request \cup {None}
      BY <2>1 DEF Clock, Present, IInv, Shape
    <3>2. xchg \in BOOLEAN
      OBVIOUS
    <3>3. QED BY <2>1, <3>1, <3>2 DEF Clock, Edge
  <2> HIDE DEF xchg
  <2>3. Shape' /\ WaitingHasRead'
    BY <2>2, ShapeFollows, WaitingFollows DEF IInv
  <2>4. ~forgot' => Tracked'
    <3>1. ~forgot' => ~forgot /\ ~Orphaned'
      BY <2>2 DEF Edge
    <3>2. QED BY <2>2, <3>1, ValidFollows, PendingFollows, ResponseFollows DEF Tracked
  <2>5. QED BY <2>3, <2>4 DEF IInv
<1>2. CASE UNCHANGED vars
  <2>1. Shape' /\ WaitingHasRead' /\ (Orphaned' <=> Orphaned)
    BY <1>2 DEF vars, unit, IInv, Shape, WaitingHasRead, Orphaned, InFlight
  <2>2. (ValidCurrent' <=> ValidCurrent) /\ (PendingCurrent' <=> PendingCurrent)
        /\ (ReadsLatest' <=> ReadsLatest) /\ forgot' = forgot
    BY <1>2 DEF vars, unit, ValidCurrent, PendingCurrent, ReadsLatest
  <2>3. QED BY <2>1, <2>2 DEF IInv, Tracked
<1>3. QED BY <1>1, <1>2

(***************************************************************************)
(* The invariant holds in every state (rvlab_ddr_prefetch.sv:97-290).      *)
(***************************************************************************)
THEOREM Invariant == Spec => []IInv
<1>1. QED BY InitInvariant, NextInvariant, PTL DEF Spec

(***************************************************************************)
(* Every entry that waits for an answer has a read in flight: the table    *)
(* does not fill up with dead entries.                                     *)
(***************************************************************************)
THEOREM NoEntryWaitsForNothing == Spec => []WaitingHasRead
<1>1. IInv => WaitingHasRead
  BY DEF IInv
<1>2. QED BY <1>1, Invariant, PTL

(***************************************************************************)
(* While no entry was freed with its read in flight, a read is answered    *)
(* with the latest contents of its block, whatever the order of writes,    *)
(* prefetches, acknowledgements and answers.                               *)
(***************************************************************************)
THEOREM PrefetchReadsLatest == Spec => []ReadsLatestUnlessForgot
<1>1. IInv => ReadsLatestUnlessForgot
  BY DEF IInv, Tracked, ReadsLatestUnlessForgot
<1>2. QED BY <1>1, Invariant, PTL
===============================================================================
