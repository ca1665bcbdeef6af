------------------------------ MODULE DdrPrefetch ------------------------------
(***************************************************************************)
(* rvlab_ddr_prefetch: the block prefetch unit between the last-level      *)
(* cache and the DDR bus.  One step is one rising clock edge.              *)
(*                                                                         *)
(* The front end is rvlab_ddr_block_cache: it keeps its request until it   *)
(* is acknowledged and is always ready for the answer (d_ready is '1).     *)
(* The back end is external: an in-order memory that reads and writes a    *)
(* block at the moment it accepts the request and answers a read any       *)
(* number of cycles later.  AccessAck beats of the back end change nothing *)
(* in the unit, so only read answers are queued here.                      *)
(***************************************************************************)
EXTENDS Integers, Sequences

CONSTANTS
  SIZE,          \* number of entries
  Blocks,        \* number of blocks; block addresses wrap around there
  Writes,        \* the writes the front end makes: <<block, contents>>
  Data,          \* contents of a block
  InitialMem,    \* what the blocks hold at reset
  MaxInFlight    \* bound: reads the back end takes before it answers one

ASSUME SizeAssumption == SIZE \in Nat /\ SIZE >= 2
ASSUME BlocksAssumption == Blocks \in Nat /\ Blocks >= 1
ASSUME MemAssumption == InitialMem \in [0 .. Blocks - 1 -> Data]
ASSUME WritesAssumption == Writes \subseteq (0 .. Blocks - 1) \X Data
ASSUME InFlightAssumption == MaxInFlight \in Nat \ {0}

Entries == 0 .. SIZE - 1
Addr == 0 .. Blocks - 1
None == <<>>
Request == [op: {"Get"}, addr: Addr]
           \cup {[op |-> "Put", addr |-> w[1], data |-> w[2]] : w \in Writes}

VARIABLES
  entry_states, entry_addrs, entry_data,  \* the table
  next_prefetch_addr,
  fe_req,     \* the request the cache presents this cycle, or None
  fe_rsp,     \* the read answer the cache took on the last edge, or None
  acked,      \* a request of the cache was acknowledged on the last edge
  mem,        \* the blocks, every accepted write done
  reads,      \* reads in flight, oldest first: [anc, data]
  forgot      \* history: an entry was freed while its read was in flight

unit == <<entry_states, entry_addrs, entry_data, next_prefetch_addr>>
vars == <<unit, fe_req, fe_rsp, acked, mem, reads, forgot>>

-------------------------------------------------------------------------------
(* Combinational signals. *)
IsGet == fe_req # None /\ fe_req.op = "Get"
IsPut == fe_req # None /\ fe_req.op = "Put"
Matching(i) == entry_addrs[i] = fe_req.addr
AtOrBelow(i) == entry_addrs[i] <= fe_req.addr
ValidHits == {i \in Entries : Matching(i) /\ entry_states[i] = "Valid"}
PendingHit == \E i \in Entries : Matching(i) /\ entry_states[i] = "Pending"
Free == {i \in Entries : entry_states[i] = "Invalid"}
NonPending == {i \in Entries : entry_states[i] \notin {"Pending", "Stale"}}

Lowest(S) == CHOOSE i \in S : \A j \in S : i <= j
Highest(S) == CHOOSE i \in S : \A j \in S : i >= j
allocate_addr == IF Free # {} THEN Lowest(Free) ELSE Lowest(NonPending)

fe_miss == IsGet /\ ValidHits = {} /\ ~PendingHit
demand == fe_miss /\ NonPending # {}            \* the missed read is offered
prefetch == ~IsPut /\ ~demand /\ Free # {}      \* a prefetch is offered
dataAck == IsGet /\ ValidHits # {}              \* AccessAckData this cycle

be_addr == IF prefetch THEN next_prefetch_addr ELSE fe_req.addr

(***************************************************************************)
(* The table at the clock edge: the assignments of the always_ff block in  *)
(* their order, a later one overriding an earlier one.                     *)
(***************************************************************************)
Allocated(xchg, st) ==
  IF xchg /\ (prefetch \/ demand) THEN [st EXCEPT ![allocate_addr] = "Pending"] ELSE st

PutInvalidated(xchg, st) ==
  IF xchg /\ IsPut
  THEN [i \in Entries |->
          CASE Matching(i) /\ entry_states[i] = "Pending" -> "Stale"
            [] Matching(i) /\ entry_states[i] = "Valid" -> "Invalid"
            [] OTHER -> st[i]]
  ELSE st

AckInvalidated(st) ==
  IF dataAck
  THEN [i \in Entries |->
          IF AtOrBelow(i)
          THEN IF entry_states[i] = "Pending" THEN "Stale" ELSE "Invalid"
          ELSE st[i]]
  ELSE st

coincident_invalidate_AckOnly(xchg, i) == dataAck /\ AtOrBelow(i)  \* mutant: writes missed

coincident_invalidate(xchg, i) ==
  \/ xchg /\ IsPut /\ Matching(i)
  \/ dataAck /\ AtOrBelow(i)

Answered_KeepStale(xchg, answer, st) ==  \* mutant: a stale entry is never freed
  IF answer /\ entry_states[Head(reads).anc] # "Stale"
  THEN LET i == Head(reads).anc
       IN  [st EXCEPT ![i] = IF coincident_invalidate(xchg, i) THEN "Invalid" ELSE "Valid"]
  ELSE st

Answered(xchg, answer, st) ==
  IF answer
  THEN LET i == Head(reads).anc
       IN  [st EXCEPT ![i] = IF entry_states[i] = "Stale" \/ coincident_invalidate(xchg, i)
                             THEN "Invalid" ELSE "Valid"]
  ELSE st

UpdateStates(xchg, answer) ==
  entry_states' = Answered(xchg, answer,
                    AckInvalidated(PutInvalidated(xchg, Allocated(xchg, entry_states))))

UpdateAddrs(xchg) ==
  entry_addrs' = IF xchg /\ (prefetch \/ demand)
                 THEN [entry_addrs EXCEPT ![allocate_addr] = be_addr]
                 ELSE entry_addrs

UpdateData(answer) ==
  entry_data' = IF answer /\ entry_states[Head(reads).anc] # "Valid"
                THEN [entry_data EXCEPT ![Head(reads).anc] = Head(reads).data]
                ELSE entry_data

UpdatePrefetchAddr(xchg) ==
  next_prefetch_addr' = CASE fe_miss -> (fe_req.addr + 1) % Blocks
                          [] ~fe_miss /\ xchg /\ prefetch -> (next_prefetch_addr + 1) % Blocks
                          [] OTHER -> next_prefetch_addr

(* Front-end output: a hit answers at once, a write once the back end takes it. *)
Respond(xchg) ==
  /\ fe_rsp' = IF dataAck THEN [addr |-> fe_req.addr, data |-> entry_data[Highest(ValidHits)]]
               ELSE None
  /\ acked' = (dataAck \/ (IsPut /\ xchg))

(* External: the memory takes the offered request and drops what it answers. *)
Memory(xchg, answer) ==
  LET rest == IF answer THEN Tail(reads) ELSE reads
  IN  /\ reads' = IF xchg /\ (prefetch \/ demand)
                  THEN Append(rest, [anc |-> allocate_addr, data |-> mem[be_addr]])
                  ELSE rest
      /\ mem' = IF xchg /\ IsPut THEN [mem EXCEPT ![fe_req.addr] = fe_req.data] ELSE mem

(* External: the cache holds its request until acknowledged. *)
Present(r) == fe_req' = IF fe_req = None \/ acked' THEN r ELSE fe_req

\* Reads in flight an entry does not wait for.
InFlight(i) == {k \in 1 .. Len(reads) : reads[k].anc = i}
Orphaned == \E i \in Entries : \E k, l \in InFlight(i) :
              k # l \/ entry_states[i] \in {"Invalid", "Valid"}

Clock(be_a_ready, answer, r) ==
  LET xchg == be_a_ready /\ (IsPut \/ demand \/ prefetch)
  IN  /\ be_a_ready => Len(reads) < MaxInFlight
      /\ answer => reads # <<>>
      /\ UpdateStates(xchg, answer)
      /\ UpdateAddrs(xchg)
      /\ UpdateData(answer)
      /\ UpdatePrefetchAddr(xchg)
      /\ Respond(xchg)
      /\ Memory(xchg, answer)
      /\ Present(r)
      /\ forgot' = (forgot \/ Orphaned')

Init ==
  /\ entry_states = [i \in Entries |-> "Invalid"]
  /\ entry_addrs = [i \in Entries |-> 0]
  /\ entry_data = [i \in Entries |-> None]
  /\ next_prefetch_addr = 0
  /\ fe_req = None /\ fe_rsp = None /\ acked = FALSE
  /\ mem = InitialMem /\ reads = <<>> /\ forgot = FALSE

Next == \E be_a_ready, answer \in BOOLEAN, r \in Request \cup {None} :
          Clock(be_a_ready, answer, r)

Spec == Init /\ [][Next]_vars

(***************************************************************************)
(* What fairness is about: the clock runs, the back end is ready again and *)
(* again and answers what it holds.  Nothing is assumed of the cache.      *)
(***************************************************************************)
Accepts == \E answer \in BOOLEAN, r \in Request \cup {None} : Clock(TRUE, answer, r)
Answers == \E be_a_ready \in BOOLEAN, r \in Request \cup {None} : Clock(be_a_ready, TRUE, r)
FairSpec == Spec /\ WF_vars(Accepts) /\ WF_vars(Answers)

-------------------------------------------------------------------------------

(***************************************************************************)
(* Every entry that waits for an answer has a read in flight, so no entry  *)
(* waits forever and the table cannot fill up with dead entries            *)
(* (rvlab_ddr_prefetch.sv:155-193).                                        *)
(***************************************************************************)
WaitingHasRead ==
  \A i \in Entries : entry_states[i] \in {"Pending", "Stale"} => InFlight(i) # {}

(***************************************************************************)
(* A read is answered with what the block holds now: the last write, or    *)
(* the initial contents; never an older version, never another block.      *)
(* ("responds instantly with the data", rvlab_ddr_prefetch.sv:29-30.)      *)
(***************************************************************************)
ReadsLatest == fe_rsp # None => fe_rsp.data = mem[fe_rsp.addr]

(***************************************************************************)
(* The same, as long as no entry has been freed while its read was still   *)
(* in flight: the stale marking of the table handles every other order of  *)
(* writes, acknowledgements, prefetches and answers.                       *)
(***************************************************************************)
ReadsLatestUnlessForgot == ~forgot => ReadsLatest

(***************************************************************************)
(* A request the cache presents is acknowledged, if the back end keeps     *)
(* accepting and answering.                                                *)
(***************************************************************************)
RequestServed == (fe_req # None) ~> acked
===============================================================================
