------------------------------- MODULE FifoProofs -------------------------------
(***************************************************************************)
(* The two FIFOs, my_fifo and prim_fifo_async.                             *)
(***************************************************************************)
EXTENDS MyFifoRing, PrimFifoAsync, SequenceTheorems, TLAPS

(***************************************************************************)
(* my_fifo is a FIFO for every Depth >= 2 and every set of items.          *)
(*                                                                         *)
(* The argument: the pointers and the count describe the ring (IInv), so a *)
(* put writes the slot behind its last item, which is neither the slot     *)
(* being read nor one that holds an item; hence every edge changes the     *)
(* contents as FifoEdge says, and FifoEdge is a step of FifoChannel.       *)
(***************************************************************************)
Offer == {<<>>} \cup {<<x>> : x \in Item}

IInv ==
  /\ TypeOK
  /\ valid_q => depth_q >= 1
  /\ PointersAgree

(* Arithmetic of the ring, in numbers only: r reads, n items follow it.      *)
LEMMA SlotFacts ==
  ASSUME NEW r \in Slots, NEW n \in 0 .. Depth
  PROVE  /\ Wrap(r + n) \in Slots
         /\ Succ(r) \in Slots
         /\ Wrap(r) = r
         /\ n < Depth => Succ(Wrap(r + n)) = Wrap(r + (n + 1))
         /\ n >= 1 => Wrap(Succ(r) + (n - 1)) = Wrap(r + n)
         /\ n < Depth => \A i \in 1 .. n : Wrap(r + i - 1) # Wrap(r + n)
BY DepthAssumption DEF Slots, Succ, Wrap

(* What a ring is, as a sequence.                                            *)
LEMMA RingIsSeq ==
  ASSUME NEW m \in [Slots -> Item], NEW r \in Slots, NEW n \in 0 .. Depth
  PROVE  /\ Ring(m, r, n) \in Seq(Item)
         /\ Len(Ring(m, r, n)) = n
         /\ \A i \in 1 .. n : Ring(m, r, n)[i] = m[Wrap(r + i - 1)]
<1>1. Depth \in Nat  BY DepthAssumption
<1>2. \A i \in 1 .. n : Wrap(r + i - 1) \in Slots
  BY DepthAssumption DEF Slots, Wrap
<1>3. Ring(m, r, n) \in [1 .. n -> Item]  BY <1>2 DEF Ring
<1>4. n \in Nat  BY <1>1
<1>5. Ring(m, r, n) \in Seq(Item) /\ Len(Ring(m, r, n)) = n  BY <1>3, <1>4
<1> QED  BY <1>5 DEF Ring

(* A put extends the ring by one.                                            *)
LEMMA RingPut ==
  ASSUME NEW m \in [Slots -> Item], NEW r \in Slots, NEW n \in 0 .. Depth - 1, NEW x \in Item
  PROVE  Ring([m EXCEPT ![Wrap(r + n)] = x], r, n + 1) = Ring(m, r, n) \o <<x>>
<1> DEFINE m2 == [m EXCEPT ![Wrap(r + n)] = x]
           left == Ring(m2, r, n + 1)
           right == Ring(m, r, n) \o <<x>>
<1>0. Depth \in Nat /\ n \in 0 .. Depth /\ n + 1 \in 0 .. Depth /\ n < Depth /\ n \in Nat
  BY DepthAssumption
<1>1. Wrap(r + n) \in Slots /\ \A i \in 1 .. n : Wrap(r + i - 1) # Wrap(r + n)
  BY <1>0, SlotFacts
<1>2. m2 \in [Slots -> Item] /\ m2[Wrap(r + n)] = x
      /\ \A s \in Slots : s # Wrap(r + n) => m2[s] = m[s]
  BY <1>1
<1> HIDE DEF m2
<1>3. left \in Seq(Item) /\ Len(left) = n + 1 /\ \A i \in 1 .. n + 1 : left[i] = m2[Wrap(r + i - 1)]
  BY <1>0, <1>2, RingIsSeq
<1>4. Ring(m, r, n) \in Seq(Item) /\ Len(Ring(m, r, n)) = n
      /\ \A i \in 1 .. n : Ring(m, r, n)[i] = m[Wrap(r + i - 1)]
  BY <1>0, RingIsSeq
<1>5. <<x>> \in Seq(Item) /\ Len(<<x>>) = 1 /\ <<x>>[1] = x  OBVIOUS
<1>6. right \in Seq(Item) /\ Len(right) = n + 1
      /\ (\A i \in 1 .. n : right[i] = Ring(m, r, n)[i]) /\ right[n + 1] = x
  BY <1>0, <1>4, <1>5, ConcatProperties
<1> HIDE DEF left, right
<1>7. \A i \in 1 .. n : left[i] = right[i]
  <2> SUFFICES ASSUME NEW i \in 1 .. n PROVE left[i] = right[i]  OBVIOUS
  <2>1. i \in 1 .. n + 1 /\ left[i] = m2[Wrap(r + i - 1)]  BY <1>0, <1>3
  <2>2. Wrap(r + i - 1) \in Slots  BY <1>0, DepthAssumption DEF Slots, Wrap
  <2>3. m2[Wrap(r + i - 1)] = m[Wrap(r + i - 1)]  BY <1>1, <1>2, <2>2
  <2> QED  BY <2>1, <2>3, <1>4, <1>6
<1>8. left[n + 1] = right[n + 1]
  <2>1. left[n + 1] = m2[Wrap(r + (n + 1) - 1)]  BY <1>0, <1>3
  <2>2. r + (n + 1) - 1 = r + n  BY <1>0, DepthAssumption DEF Slots
  <2> QED  BY <2>1, <2>2, <1>2, <1>6
<1>9. \A i \in 1 .. n + 1 : left[i] = right[i]  BY <1>0, <1>7, <1>8
<1>10. left = right  BY <1>0, <1>3, <1>6, <1>9, SeqEqual
<1> QED  BY <1>10 DEF left, right, m2

(* A refill of the output register takes the first item.                     *)
LEMMA RingTake ==
  ASSUME NEW m \in [Slots -> Item], NEW r \in Slots, NEW n \in 1 .. Depth
  PROVE  Ring(m, r, n) = <<m[r]>> \o Ring(m, Succ(r), n - 1)
<1> DEFINE left == Ring(m, r, n)
           right == <<m[r]>> \o Ring(m, Succ(r), n - 1)
<1>0. Depth \in Nat /\ n \in 0 .. Depth /\ n - 1 \in 0 .. Depth /\ n - 1 \in Nat /\ n \in Nat
  BY DepthAssumption
<1>1. Succ(r) \in Slots /\ Wrap(r) = r  BY <1>0, SlotFacts
<1>2. m[r] \in Item  OBVIOUS
<1>3. left \in Seq(Item) /\ Len(left) = n /\ \A i \in 1 .. n : left[i] = m[Wrap(r + i - 1)]
  BY <1>0, RingIsSeq
<1>4. Ring(m, Succ(r), n - 1) \in Seq(Item) /\ Len(Ring(m, Succ(r), n - 1)) = n - 1
      /\ \A i \in 1 .. n - 1 : Ring(m, Succ(r), n - 1)[i] = m[Wrap(Succ(r) + i - 1)]
  BY <1>0, <1>1, RingIsSeq
<1>5. <<m[r]>> \in Seq(Item) /\ Len(<<m[r]>>) = 1 /\ <<m[r]>>[1] = m[r]  BY <1>2
<1>6. right \in Seq(Item) /\ Len(right) = n /\ right[1] = m[r]
      /\ \A i \in 2 .. n : right[i] = Ring(m, Succ(r), n - 1)[i - 1]
  BY <1>0, <1>4, <1>5, ConcatProperties
<1>7. \A i \in 1 .. n : left[i] = right[i]
  <2> SUFFICES ASSUME NEW i \in 1 .. n PROVE left[i] = right[i]  OBVIOUS
  <2>1. CASE i = 1
    <3>1. r + i - 1 = r  BY <2>1, DepthAssumption DEF Slots
    <3> QED  BY <2>1, <3>1, <1>1, <1>3, <1>6
  <2>2. CASE i # 1
    <3>1. i \in 2 .. n /\ i - 1 \in 1 .. n - 1  BY <1>0, <2>2
    <3>2. right[i] = m[Wrap(Succ(r) + (i - 1) - 1)]  BY <3>1, <1>4, <1>6
    <3>3. i - 1 \in 0 .. Depth /\ i - 1 >= 1  BY <1>0, <3>1
    <3>4. Wrap(Succ(r) + ((i - 1) - 1)) = Wrap(r + (i - 1))  BY <3>3, SlotFacts
    <3>5. Succ(r) + (i - 1) - 1 = Succ(r) + ((i - 1) - 1) /\ r + i - 1 = r + (i - 1)
      BY <1>0, <1>1, DepthAssumption DEF Slots
    <3> QED  BY <3>2, <3>4, <3>5, <1>3
  <2> QED  BY <2>1, <2>2
<1> HIDE DEF left, right
<1>8. left = right  BY <1>0, <1>3, <1>6, <1>7, SeqEqual
<1> QED  BY <1>8 DEF left, right

-------------------------------------------------------------------------------
(* One edge, with the item put and the output taken named.                   *)
Edge(put, rdy) ==
  /\ put # <<>> => in_ready_o(rdy)
  /\ Store(put)
  /\ Output(rdy)
  /\ Count(put, valid_q /\ rdy)
  /\ got' = IF valid_q /\ rdy THEN <<data_q>> ELSE <<>>

LEMMA ClockIsEdge ==
  ASSUME NEW in \in Offer, NEW rdy \in BOOLEAN, Clock(in, rdy)
  PROVE  LET put == IF in_ready_o(rdy) THEN in ELSE <<>> IN put \in Offer /\ Edge(put, rdy)
BY DEF Offer, Clock, Edge

(* What the guards mean for the ring.                                        *)
LEMMA RingBounds ==
  ASSUME IInv, NEW rdy \in BOOLEAN
  PROVE  /\ InRing \in 0 .. Depth
         /\ in_ready_o(rdy) => InRing \in 0 .. Depth - 1
         /\ refill(rdy) <=> InRing >= 1 /\ (valid_q => rdy)
         /\ depth_q = InRing + (IF valid_q THEN 1 ELSE 0)
         /\ write_pointer_q = Wrap(read_pointer_q + InRing)
BY DepthAssumption DEF IInv, TypeOK, PointersAgree, InRing, in_ready_o, refill

LEMMA EdgeCounts ==
  ASSUME IInv, NEW put \in Offer, NEW rdy \in BOOLEAN, Edge(put, rdy)
  PROVE  /\ InRing' = InRing + (IF put = <<>> THEN 0 ELSE 1) - (IF refill(rdy) THEN 1 ELSE 0)
         /\ depth_q' \in 0 .. Depth
         /\ valid_q' \in BOOLEAN
         /\ valid_q' => depth_q' >= 1
         /\ valid_q' <=> IF valid_q THEN ~rdy \/ depth_q > 1 ELSE depth_q # 0
<1> DEFINE p == IF put = <<>> THEN 0 ELSE 1
<1>1. /\ depth_q \in 0 .. Depth /\ valid_q \in BOOLEAN /\ Depth \in Nat /\ Depth >= 2
      /\ valid_q => depth_q >= 1
  BY DepthAssumption DEF IInv, TypeOK
<1>2. depth_q' = depth_q + p - (IF valid_q /\ rdy THEN 1 ELSE 0)
  BY <1>1 DEF Edge, Count
<1>3. valid_q' = IF refill(rdy) THEN TRUE ELSE IF valid_q /\ rdy THEN FALSE ELSE valid_q
  BY DEF Edge, Output
<1>4. p \in {0, 1} /\ (p = 1 => depth_q < Depth \/ (valid_q /\ rdy))
  BY DEF Edge, in_ready_o
<1> HIDE DEF p
<1>5. CASE valid_q /\ rdy /\ depth_q > 1
  <2>1. refill(rdy)  BY <1>5 DEF refill
  <2>2. valid_q' = TRUE  BY <1>3, <2>1
  <2>3. depth_q' = depth_q + p - 1 /\ InRing = depth_q - 1 /\ InRing' = depth_q' - 1
    BY <1>2, <1>5, <2>2 DEF InRing
  <2>4. depth_q' \in 0 .. Depth /\ depth_q' >= 1 /\ InRing' = InRing + p - 1
    BY <1>1, <1>4, <1>5, <2>3
  <2> QED  BY <1>5, <2>1, <2>2, <2>4 DEF p
<1>6. CASE valid_q /\ rdy /\ ~(depth_q > 1)
  <2>1. ~refill(rdy)  BY <1>6 DEF refill
  <2>2. valid_q' = FALSE  BY <1>3, <1>6, <2>1
  <2>3. depth_q' = depth_q + p - 1 /\ InRing = depth_q - 1 /\ InRing' = depth_q' - 0
    BY <1>2, <1>6, <2>2 DEF InRing
  <2>4. depth_q' \in 0 .. Depth /\ InRing' = InRing + p - 0
    BY <1>1, <1>4, <1>6, <2>3
  <2> QED  BY <1>6, <2>1, <2>2, <2>4 DEF p
<1>7. CASE valid_q /\ ~rdy
  <2>1. ~refill(rdy)  BY <1>7 DEF refill
  <2>2. valid_q' = TRUE  BY <1>1, <1>3, <1>7, <2>1
  <2>3. depth_q' = depth_q + p - 0 /\ InRing = depth_q - 1 /\ InRing' = depth_q' - 1
    BY <1>2, <1>7, <2>2 DEF InRing
  <2>4. depth_q' \in 0 .. Depth /\ depth_q' >= 1 /\ InRing' = InRing + p - 0
    BY <1>1, <1>4, <1>7, <2>3
  <2> QED  BY <1>7, <2>1, <2>2, <2>4 DEF p
<1>8. CASE ~valid_q /\ depth_q # 0
  <2>1. refill(rdy)  BY <1>8 DEF refill
  <2>2. valid_q' = TRUE  BY <1>3, <2>1
  <2>3. depth_q' = depth_q + p - 0 /\ InRing = depth_q - 0 /\ InRing' = depth_q' - 1
    BY <1>2, <1>8, <2>2 DEF InRing
  <2>4. depth_q' \in 0 .. Depth /\ depth_q' >= 1 /\ InRing' = InRing + p - 1
    BY <1>1, <1>4, <1>8, <2>3
  <2> QED  BY <1>8, <2>1, <2>2, <2>4 DEF p
<1>9. CASE ~valid_q /\ depth_q = 0
  <2>1. ~refill(rdy)  BY <1>9 DEF refill
  <2>2. valid_q' = FALSE  BY <1>1, <1>3, <1>9, <2>1
  <2>3. depth_q' = depth_q + p - 0 /\ InRing = depth_q - 0 /\ InRing' = depth_q' - 0
    BY <1>2, <1>9, <2>2 DEF InRing
  <2>4. depth_q' \in 0 .. Depth /\ InRing' = InRing + p - 0
    BY <1>1, <1>4, <1>9, <2>3
  <2> QED  BY <1>9, <2>1, <2>2, <2>4 DEF p
<1> QED  BY <1>5, <1>6, <1>7, <1>8, <1>9

(* The pointers keep describing the ring.                                    *)
LEMMA EdgePointers ==
  ASSUME IInv, NEW put \in Offer, NEW rdy \in BOOLEAN, Edge(put, rdy)
  PROVE  /\ write_pointer_q' \in Slots /\ read_pointer_q' \in Slots
         /\ PointersAgree'
<1> DEFINE r == read_pointer_q
           n == InRing
           w == write_pointer_q
<1>1. /\ r \in Slots /\ n \in 0 .. Depth /\ w = Wrap(r + n) /\ Depth \in Nat
      /\ put # <<>> => n < Depth
      /\ refill(rdy) => n >= 1
  BY RingBounds, DepthAssumption DEF IInv, TypeOK, Edge
<1>2. InRing' = n + (IF put = <<>> THEN 0 ELSE 1) - (IF refill(rdy) THEN 1 ELSE 0)
  BY EdgeCounts
<1>3. /\ read_pointer_q' = IF refill(rdy) THEN Succ(r) ELSE r
      /\ write_pointer_q' = IF put = <<>> THEN w ELSE Succ(w)
  BY DEF Edge, Store, Output
<1>4. Succ(r) \in Slots /\ w \in Slots /\ Succ(w) \in Slots
  BY <1>1, SlotFacts
<1>5. PointersAgree' <=> write_pointer_q' = Wrap(read_pointer_q' + InRing')
  BY DEF PointersAgree, Wrap
<1> HIDE DEF r, n, w
<1>6. CASE ~refill(rdy) /\ put = <<>>
  <2>1. InRing' = n  BY <1>1, <1>2, <1>6
  <2> QED  BY <1>1, <1>3, <1>4, <1>5, <1>6, <2>1
<1>7. CASE ~refill(rdy) /\ put # <<>>
  <2>1. InRing' = n + 1  BY <1>1, <1>2, <1>7
  <2>2. Succ(w) = Wrap(r + (n + 1))  BY <1>1, <1>7, SlotFacts
  <2> QED  BY <1>1, <1>3, <1>4, <1>5, <1>7, <2>1, <2>2
<1>8. CASE refill(rdy) /\ put = <<>>
  <2>1. InRing' = n - 1  BY <1>1, <1>2, <1>8
  <2>2. w = Wrap(Succ(r) + (n - 1))  BY <1>1, <1>8, SlotFacts
  <2> QED  BY <1>1, <1>3, <1>4, <1>5, <1>8, <2>1, <2>2
<1>9. CASE refill(rdy) /\ put # <<>>
  <2>1. InRing' = n  BY <1>1, <1>2, <1>9
  <2>2. w = Wrap(Succ(r) + (n - 1))  BY <1>1, <1>9, SlotFacts
  <2>3. n - 1 \in 0 .. Depth /\ n - 1 < Depth /\ (n - 1) + 1 = n  BY <1>1, <1>9
  <2>4. Succ(w) = Wrap(Succ(r) + n)  BY <1>4, <2>2, <2>3, SlotFacts
  <2> QED  BY <1>1, <1>3, <1>4, <1>5, <1>9, <2>1, <2>4
<1> QED  BY <1>6, <1>7, <1>8, <1>9

LEMMA EdgeInvariant ==
  ASSUME IInv, NEW put \in Offer, NEW rdy \in BOOLEAN, Edge(put, rdy)
  PROVE  IInv'
<1>1. memory \in [Slots -> Item] /\ data_q \in Item /\ read_pointer_q \in Slots
      /\ write_pointer_q \in Slots
  BY DEF IInv, TypeOK
<1>2. put # <<>> => put[1] \in Item  BY DEF Offer
<1>3. memory' \in [Slots -> Item]  BY <1>1, <1>2 DEF Edge, Store
<1>4. data_q' \in Item  BY <1>1 DEF Edge, Output
<1>5. got' \in {<<>>} \cup {<<x>> : x \in Item}  BY <1>1 DEF Edge
<1>6. depth_q' \in 0 .. Depth /\ valid_q' \in BOOLEAN /\ (valid_q' => depth_q' >= 1)
  BY EdgeCounts
<1> QED  BY <1>3, <1>4, <1>5, <1>6, EdgePointers DEF IInv, TypeOK, Slots

LEMMA InitInvariant == Init => IInv
<1> SUFFICES ASSUME Init PROVE IInv  OBVIOUS
<1>1. 0 \in Slots /\ 0 \in 0 .. Depth  BY DepthAssumption DEF Slots
<1>2. InRing = 0
  <2>1. depth_q = 0 /\ ~valid_q  BY DEF Init
  <2>2. InRing = depth_q - 0  BY <2>1 DEF InRing
  <2> QED  BY <2>1, <2>2
<1>3. PointersAgree  BY <1>2, DepthAssumption DEF Init, PointersAgree, Wrap
<1> QED  BY <1>1, <1>3 DEF Init, IInv, TypeOK

LEMMA InvariantInductive == IInv /\ [Next]_vars => IInv'
<1> SUFFICES ASSUME IInv, [Next]_vars PROVE IInv'  OBVIOUS
<1>1. CASE Next
  <2>1. PICK in \in Offer, rdy \in BOOLEAN : Clock(in, rdy)  BY <1>1 DEF Next, Offer
  <2> QED  BY <2>1, ClockIsEdge, EdgeInvariant
<1>2. CASE UNCHANGED vars
  BY <1>2 DEF vars, IInv, TypeOK, PointersAgree, InRing, Wrap, Slots
<1> QED  BY <1>1, <1>2

-------------------------------------------------------------------------------
LEMMA ConsFacts ==
  ASSUME NEW d \in Item, NEW s \in Seq(Item)
  PROVE  /\ <<d>> \o s \in Seq(Item) /\ <<d>> \o s # <<>>
         /\ Head(<<d>> \o s) = d /\ Tail(<<d>> \o s) = s
         /\ Len(<<d>> \o s) = Len(s) + 1
<1> DEFINE c == <<d>> \o s
<1>1. <<d>> \in Seq(Item) /\ Len(<<d>>) = 1 /\ <<d>>[1] = d  OBVIOUS
<1>2. Len(s) \in Nat  BY LenProperties
<1>3. c \in Seq(Item) /\ Len(c) = Len(s) + 1 /\ c[1] = d
      /\ \A i \in 2 .. Len(s) + 1 : c[i] = s[i - 1]
  BY <1>1, <1>2, ConcatProperties
<1> HIDE DEF c
<1>4. c # <<>>  BY <1>2, <1>3, EmptySeq
<1>5. Head(c) = d  BY <1>3, <1>4
<1>6. Tail(c) \in Seq(Item) /\ Len(Tail(c)) = Len(s) /\ \A i \in 1 .. Len(s) : Tail(c)[i] = c[i + 1]
  BY <1>2, <1>3, <1>4, HeadTailProperties
<1>7. \A i \in 1 .. Len(s) : Tail(c)[i] = s[i]
  <2> SUFFICES ASSUME NEW i \in 1 .. Len(s) PROVE Tail(c)[i] = s[i]  OBVIOUS
  <2>1. i + 1 \in 2 .. Len(s) + 1 /\ (i + 1) - 1 = i  BY <1>2
  <2> QED  BY <1>3, <1>6, <2>1
<1>8. Tail(c) = s  BY <1>6, <1>7, SeqEqual
<1> QED  BY <1>3, <1>4, <1>5, <1>8 DEF c

(* An edge moves the first item of the ring to the register when it refills  *)
(* it, and puts the new item behind the last.                                *)
LEMMA EdgeRing ==
  ASSUME IInv, NEW put \in Offer, NEW rdy \in BOOLEAN, Edge(put, rdy)
  PROVE  LET old == Ring(memory, read_pointer_q, InRing)
             new == Ring(memory, read_pointer_q, InRing)'
         IN  /\ old \in Seq(Item) /\ Len(old) = InRing
             /\ new \in Seq(Item) /\ Len(new) = InRing'
             /\ put \in Seq(Item)
             /\ refill(rdy) => <<memory[read_pointer_q]>> \o new = old \o put
             /\ ~refill(rdy) => new = old \o put
<1> DEFINE r == read_pointer_q
           n == InRing
           w == write_pointer_q
           m == memory
           r2 == read_pointer_q'
           n2 == InRing'
           m2 == memory'
           \* the ring behind the item taken
           k == IF refill(rdy) THEN n - 1 ELSE n
           rest == Ring(m, r2, k)
<1>1. /\ m \in [Slots -> Item] /\ r \in Slots /\ n \in 0 .. Depth
      /\ w = Wrap(r + n) /\ Depth \in Nat
      /\ put # <<>> => n < Depth
      /\ refill(rdy) => n >= 1
  BY RingBounds, DepthAssumption DEF IInv, TypeOK, Edge
<1>2. n2 = n + (IF put = <<>> THEN 0 ELSE 1) - (IF refill(rdy) THEN 1 ELSE 0)
  BY EdgeCounts
<1>3. /\ r2 = IF refill(rdy) THEN Succ(r) ELSE r
      /\ m2 = IF put = <<>> THEN m ELSE [m EXCEPT ![w] = put[1]]
  BY DEF Edge, Store, Output
<1>4. IInv'  BY EdgeInvariant
<1>5. m2 \in [Slots -> Item] /\ r2 \in Slots
  BY <1>4 DEF IInv, TypeOK, Slots
<1>6. put \in Seq(Item) /\ (put # <<>> => put[1] \in Item /\ put = <<put[1]>>)
  <2>1. CASE put = <<>>  BY <2>1, EmptySeq
  <2>2. CASE \E x \in Item : put = <<x>>
    <3>1. PICK x \in Item : put = <<x>>  BY <2>2
    <3>2. <<x>> \in Seq(Item) /\ <<x>>[1] = x  OBVIOUS
    <3> QED  BY <3>1, <3>2
  <2> QED  BY <2>1, <2>2 DEF Offer
<1>new. Ring(memory, read_pointer_q, InRing)' = Ring(m2, r2, n2)  BY DEF Ring, Wrap
<1> HIDE DEF r, n, w, m, r2, n2, m2
<1>7. k \in 0 .. Depth /\ (put # <<>> => k \in 0 .. Depth - 1)  BY <1>1
<1>8. n2 = IF put = <<>> THEN k ELSE k + 1  BY <1>1, <1>2
<1>9. n2 \in 0 .. Depth  BY <1>7, <1>8, <1>1
<1>10. w = Wrap(r2 + k)
  <2>1. CASE refill(rdy)
    <3>1. Wrap(Succ(r) + (n - 1)) = Wrap(r + n)  BY <1>1, <2>1, SlotFacts
    <3> QED  BY <1>1, <1>3, <2>1, <3>1
  <2>2. CASE ~refill(rdy)  BY <1>1, <1>3, <2>2
  <2> QED  BY <2>1, <2>2
<1>11. Ring(m, r, n) = (IF refill(rdy) THEN <<m[r]>> ELSE <<>>) \o rest
  <2>1. CASE refill(rdy)
    <3>1. n \in 1 .. Depth  BY <1>1, <2>1
    <3> QED  BY <1>1, <1>3, <2>1, <3>1, RingTake
  <2>2. CASE ~refill(rdy)
    <3>1. rest = Ring(m, r, n) /\ Ring(m, r, n) \in Seq(Item)  BY <1>1, <1>3, <2>2, RingIsSeq
    <3> QED  BY <2>2, <3>1, ConcatEmptySeq
  <2> QED  BY <2>1, <2>2
<1>12. rest \in Seq(Item)  BY <1>1, <1>5, <1>7, RingIsSeq
<1>13. Ring(m2, r2, n2) = rest \o put
  <2>1. CASE put = <<>>
    <3>1. m2 = m /\ n2 = k  BY <1>3, <1>8, <2>1
    <3> QED  BY <1>12, <2>1, <3>1, ConcatEmptySeq
  <2>2. CASE put # <<>>
    <3>1. m2 = [m EXCEPT ![Wrap(r2 + k)] = put[1]] /\ n2 = k + 1  BY <1>3, <1>8, <1>10, <2>2
    <3>2. put = <<put[1]>> /\ put[1] \in Item /\ k \in 0 .. Depth - 1  BY <1>6, <1>7, <2>2
    <3> HIDE DEF k
    <3>3. Ring([m EXCEPT ![Wrap(r2 + k)] = put[1]], r2, k + 1) = Ring(m, r2, k) \o <<put[1]>>
      BY <1>1, <1>5, <3>2, RingPut
    <3> QED  BY <3>1, <3>2, <3>3
  <2> QED  BY <2>1, <2>2
<1>14. Ring(m, r, n) \in Seq(Item) /\ Len(Ring(m, r, n)) = n  BY <1>1, RingIsSeq
<1>15. Ring(m2, r2, n2) \in Seq(Item) /\ Len(Ring(m2, r2, n2)) = n2  BY <1>5, <1>9, RingIsSeq
<1> HIDE DEF k, rest
<1>16. ASSUME refill(rdy) PROVE <<m[r]>> \o Ring(m2, r2, n2) = Ring(m, r, n) \o put
  <2>1. m[r] \in Item /\ <<m[r]>> \in Seq(Item)  BY <1>1
  <2>2. (<<m[r]>> \o rest) \o put = <<m[r]>> \o (rest \o put)
    BY <1>6, <1>12, <2>1, ConcatAssociative
  <2> QED  BY <1>11, <1>13, <1>16, <2>2
<1>17. ASSUME ~refill(rdy) PROVE Ring(m2, r2, n2) = Ring(m, r, n) \o put
  BY <1>11, <1>12, <1>13, <1>17, ConcatEmptySeq
<1> QED  BY <1>new, <1>6, <1>14, <1>15, <1>16, <1>17 DEF r, n, m, n2

(* What an edge does to the contents: by the five ways a register and a ring *)
(* can meet a take.                                                          *)
LEMMA EdgeContents ==
  ASSUME IInv, NEW put \in Offer, NEW rdy \in BOOLEAN, Edge(put, rdy)
  PROVE  /\ contents \in Seq(Item) /\ Len(contents) = depth_q
         /\ Len(contents') = depth_q'
         /\ valid_q => contents # <<>> /\ Head(contents) = data_q
         /\ contents' = (IF valid_q /\ rdy THEN Tail(contents) ELSE contents) \o put
         /\ valid_q /\ rdy => Tail(contents \o put) = Tail(contents) \o put
                               /\ Head(contents \o put) = data_q
<1> DEFINE old == Ring(memory, read_pointer_q, InRing)
           new == Ring(memory, read_pointer_q, InRing)'
           first == memory[read_pointer_q]
           q == InRing'
<1>1. /\ old \in Seq(Item) /\ Len(old) = InRing
      /\ new \in Seq(Item) /\ Len(new) = InRing'
      /\ put \in Seq(Item)
      /\ refill(rdy) => <<first>> \o new = old \o put
      /\ ~refill(rdy) => new = old \o put
  BY EdgeRing
<1>2. data_q \in Item /\ first \in Item /\ valid_q \in BOOLEAN /\ data_q' \in Item /\ valid_q' \in BOOLEAN
  BY EdgeInvariant DEF IInv, TypeOK
<1>3. /\ data_q' = IF refill(rdy) THEN first ELSE data_q
      /\ valid_q' = IF refill(rdy) THEN TRUE ELSE IF valid_q /\ rdy THEN FALSE ELSE valid_q
  BY DEF Edge, Output
<1>4. contents = (IF valid_q THEN <<data_q>> ELSE <<>>) \o old  BY DEF contents
<1>5. contents' = (IF valid_q' THEN <<data_q'>> ELSE <<>>) \o new  BY DEF contents
<1>6. (valid_q => contents = <<data_q>> \o old) /\ (~valid_q => contents = old)
  BY <1>1, <1>4, ConcatEmptySeq
<1>7. (valid_q' => contents' = <<data_q'>> \o new) /\ (~valid_q' => contents' = new)
  BY <1>1, <1>5, ConcatEmptySeq
<1>8. refill(rdy) => ~valid_q \/ rdy  BY DEF refill
<1>9. depth_q = InRing + (IF valid_q THEN 1 ELSE 0) /\ InRing \in Nat
  BY RingBounds, DepthAssumption
<1>10. depth_q' = q + (IF valid_q' THEN 1 ELSE 0) /\ q \in Nat
  <2>1. depth_q' \in Int /\ (valid_q' => depth_q' >= 1) /\ depth_q' >= 0
    BY EdgeCounts, DepthAssumption
  <2>2. (valid_q' => q = depth_q' - 1) /\ (~valid_q' => q = depth_q' - 0)  BY DEF InRing
  <2> HIDE DEF q
  <2> QED  BY <2>1, <2>2
<1>q. Len(new) = q  BY <1>1
<1> HIDE DEF q
<1> HIDE DEF old, new, first
<1>11. contents \in Seq(Item) /\ Len(contents) = depth_q
  <2>1. CASE valid_q
    <3>1. depth_q = InRing + 1  BY <1>9, <2>1
    <3>2. contents \in Seq(Item) /\ Len(contents) = Len(old) + 1  BY <1>1, <1>2, <1>6, <2>1, ConsFacts
    <3> QED  BY <1>1, <3>1, <3>2
  <2>2. CASE ~valid_q
    <3>1. depth_q = InRing  BY <1>9, <2>2
    <3> QED  BY <1>1, <1>6, <2>2, <3>1
  <2> QED  BY <2>1, <2>2
<1>12. Len(contents') = depth_q'
  <2>1. CASE valid_q'
    <3>1. depth_q' = q + 1  BY <1>10, <2>1
    <3>2. Len(contents') = Len(new) + 1  BY <1>1, <1>2, <1>7, <2>1, ConsFacts
    <3> QED  BY <1>q, <3>1, <3>2
  <2>2. CASE ~valid_q'
    <3>1. depth_q' = q  BY <1>10, <2>2
    <3> QED  BY <1>7, <1>q, <2>2, <3>1
  <2> QED  BY <2>1, <2>2
<1>13. valid_q => contents # <<>> /\ Head(contents) = data_q /\ Tail(contents) = old
  BY <1>1, <1>2, <1>6, ConsFacts
<1>14. old \o put \in Seq(Item)  BY <1>1, ConcatProperties
<1>15. valid_q => contents \o put = <<data_q>> \o (old \o put)
  <2>1. <<data_q>> \in Seq(Item)  BY <1>2
  <2> QED  BY <1>1, <1>6, <2>1, ConcatAssociative
<1>16. valid_q /\ rdy => Tail(contents \o put) = Tail(contents) \o put
                         /\ Head(contents \o put) = data_q
  BY <1>2, <1>13, <1>14, <1>15, ConsFacts
<1>17. contents' = (IF valid_q /\ rdy THEN Tail(contents) ELSE contents) \o put
  <2>1. CASE valid_q /\ rdy /\ refill(rdy)
    <3>1. valid_q' /\ data_q' = first  BY <1>3, <2>1
    <3> QED  BY <1>1, <1>7, <1>13, <2>1, <3>1
  <2>2. CASE valid_q /\ rdy /\ ~refill(rdy)
    <3>1. ~valid_q'  BY <1>3, <2>2
    <3> QED  BY <1>1, <1>7, <1>13, <2>2, <3>1
  <2>3. CASE valid_q /\ ~rdy
    <3>1. ~refill(rdy)  BY <1>8, <2>3
    <3>2. valid_q' /\ data_q' = data_q  BY <1>3, <2>3, <3>1
    <3> QED  BY <1>1, <1>7, <1>15, <2>3, <3>1, <3>2
  <2>4. CASE ~valid_q /\ refill(rdy)
    <3>1. valid_q' /\ data_q' = first  BY <1>3, <2>4
    <3> QED  BY <1>1, <1>6, <1>7, <2>4, <3>1
  <2>5. CASE ~valid_q /\ ~refill(rdy)
    <3>1. ~valid_q'  BY <1>3, <2>5
    <3> QED  BY <1>1, <1>6, <1>7, <2>5, <3>1
  <2> QED  BY <2>1, <2>2, <2>3, <2>4, <2>5
<1> QED  BY <1>11, <1>12, <1>13, <1>16, <1>17

LEMMA EdgePorts ==
  ASSUME IInv, NEW in \in Offer, NEW rdy \in BOOLEAN, Clock(in, rdy)
  PROVE  ports' = FifoEdge(ports, IF InReady(ports, Depth, rdy) THEN in ELSE <<>>, valid_q /\ rdy)
<1> DEFINE put == IF in_ready_o(rdy) THEN in ELSE <<>>
<1>1. put \in Offer /\ Edge(put, rdy)  BY ClockIsEdge
<1> HIDE DEF put
<1>2. /\ contents \in Seq(Item) /\ Len(contents) = depth_q
      /\ contents' = (IF valid_q /\ rdy THEN Tail(contents) ELSE contents) \o put
  BY <1>1, EdgeContents
<1>3. InReady(ports, Depth, rdy) <=> in_ready_o(rdy)
  BY <1>2 DEF InReady, in_ready_o, ports
<1>4. put = IF InReady(ports, Depth, rdy) THEN in ELSE <<>>
  BY <1>3 DEF put
<1>5. /\ valid_q' \in BOOLEAN
      /\ valid_q' <=> IF valid_q THEN ~rdy \/ depth_q > 1 ELSE depth_q # 0
  BY <1>1, EdgeCounts
<1>6. depth_q # 0 <=> contents # <<>>  BY <1>2, EmptySeq
<1>7. valid_q' = IF valid_q THEN ~(valid_q /\ rdy) \/ Len(contents) > 1 ELSE contents # <<>>
  BY <1>2, <1>5, <1>6
<1>8. ports' = [items |-> contents', valid_q |-> valid_q']  BY DEF ports
<1>9. ports.items = contents /\ ports.valid_q = valid_q  BY DEF ports
<1> QED  BY <1>2, <1>4, <1>7, <1>8, <1>9 DEF FifoEdge

(***************************************************************************)
(* The registers keep their ranges; the count stays within Depth.          *)
(***************************************************************************)
THEOREM TypeCorrect == Spec => []TypeOK
<1>1. IInv => TypeOK  BY DEF IInv
<1> QED  BY <1>1, InitInvariant, InvariantInductive, PTL DEF Spec

(***************************************************************************)
(* The write pointer stands behind the last item of the ring.              *)
(***************************************************************************)
THEOREM PointersCorrect == Spec => []PointersAgree
<1>1. IInv => PointersAgree  BY DEF IInv
<1> QED  BY <1>1, InitInvariant, InvariantInductive, PTL DEF Spec

(***************************************************************************)
(* Whatever its depth, the ring behaves at its ports as the queue the      *)
(* models of the rasterizer are built with.                                *)
(***************************************************************************)
THEOREM PortsCorrect == Spec => PortsAsModelled
<1> DEFINE Modelled == \E in \in {<<>>} \cup {<<x>> : x \in Item}, out_ready_i \in BOOLEAN :
              ports' = FifoEdge(ports, IF InReady(ports, Depth, out_ready_i) THEN in ELSE <<>>,
                                valid_q /\ out_ready_i)
<1>1. ASSUME IInv, Next PROVE Modelled
  <2>1. PICK in \in Offer, rdy \in BOOLEAN : Clock(in, rdy)  BY <1>1 DEF Next, Offer
  <2>2. ports' = FifoEdge(ports, IF InReady(ports, Depth, rdy) THEN in ELSE <<>>, valid_q /\ rdy)
    BY <1>1, <2>1, EdgePorts
  <2> QED  BY <2>2 DEF Offer
<1>2. IInv /\ [Next]_vars => [Modelled]_vars
  BY <1>1
<1> QED  BY <1>2, InitInvariant, InvariantInductive, PTL DEF Spec, PortsAsModelled

(***************************************************************************)
(* The ring implements FifoChannel: Depth items at most, none lost, none   *)
(* duplicated, in the order they came.                                     *)
(***************************************************************************)
THEOREM ChannelImplemented == Spec => ImplementsChannel
<1>1. Init => Channel!Init
  <2> SUFFICES ASSUME Init PROVE contents = <<>> /\ got = <<>>  BY DEF Channel!Init
  <2>1. depth_q = 0 /\ ~valid_q /\ got = <<>>  BY DEF Init
  <2>2. InRing = depth_q - 0  BY <2>1 DEF InRing
  <2>3. InRing = 0  BY <2>1, <2>2
  <2>4. IInv  BY InitInvariant
  <2>5. Ring(memory, read_pointer_q, InRing) \in Seq(Item) /\ Len(Ring(memory, read_pointer_q, InRing)) = 0
    BY <2>3, <2>4, RingIsSeq, DepthAssumption DEF IInv, TypeOK
  <2>6. Ring(memory, read_pointer_q, InRing) = <<>>  BY <2>5, EmptySeq
  <2> QED  BY <2>1, <2>6 DEF contents
<1>2. ASSUME IInv, Next PROVE Channel!Next
  <2>1. PICK in \in Offer, rdy \in BOOLEAN : Clock(in, rdy)  BY <1>2 DEF Next, Offer
  <2>2. PICK put \in Offer : Edge(put, rdy)  BY <2>1, ClockIsEdge
  <2>3. /\ valid_q => contents # <<>>
        /\ contents \in Seq(Item) /\ Len(contents') = depth_q'
        /\ contents' = (IF valid_q /\ rdy THEN Tail(contents) ELSE contents) \o put
        /\ valid_q /\ rdy => Tail(contents \o put) = Tail(contents) \o put
                              /\ Head(contents \o put) = data_q
    BY <1>2, <2>2, EdgeContents
  <2>4. depth_q' <= Depth
    <3>1. depth_q' \in 0 .. Depth  BY <1>2, <2>2, EdgeCounts
    <3> QED  BY <3>1, DepthAssumption
  <2>5. Len(contents') <= Depth  BY <2>3, <2>4
  <2>6. got' = IF valid_q /\ rdy THEN <<data_q>> ELSE <<>>  BY <2>2 DEF Edge
  <2>7. valid_q /\ rdy => contents \o put # <<>>
    <3>1. put \in Seq(Item)  BY <1>2, <2>2, EdgeRing
    <3> QED  BY <2>3, <3>1, ConcatEqualIffEmpty
  <2>8. (valid_q /\ rdy) \in BOOLEAN  OBVIOUS
  <2>9. Channel!Edge(put, valid_q /\ rdy)
    BY <2>3, <2>5, <2>6, <2>7 DEF Channel!Edge
  <2> QED  BY <2>8, <2>9 DEF Channel!Next, Offer
<1>3. UNCHANGED vars => UNCHANGED <<contents, got>>
  BY DEF vars, contents, Ring, Wrap, InRing
<1>4. IInv /\ [Next]_vars => [Channel!Next]_<<contents, got>>
  BY <1>2, <1>3
<1> QED  BY <1>1, <1>4, InitInvariant, InvariantInductive, PTL DEF Spec, ImplementsChannel, Channel!Spec

-------------------------------------------------------------------------------
(***************************************************************************)
(* prim_fifo_async is a FIFO for every Depth >= 3 whose pointer code moves *)
(* by one bit, whatever the two clocks do and whatever a flop catches of a *)
(* changing code.                                                          *)
(*                                                                         *)
(* The argument.  Every copy of a pointer is an old one, and the copies    *)
(* are ordered (Ordered): what the writer has decoded of the reader's      *)
(* pointer, its two synchronizer flops, the reader's pointer itself, then  *)
(* what the reader's two flops hold of the writer's pointer, and the       *)
(* writer's pointer, at most Depth increments ahead of the first.  A flop  *)
(* that samples a changing code catches the old or the new pointer, both   *)
(* of which keep the order; a pointer moves only towards the one before    *)
(* it in this order, because empty and full compare it with an old copy.   *)
(***************************************************************************)
Codes == {Gray(p) : p \in Ptrs}

AsyncTypes ==
  /\ fifo_wptr \in Ptrs /\ fifo_rptr \in Ptrs /\ fifo_rptr_sync \in Ptrs
  /\ storage \in [Cells -> Item]
  /\ fifo_wptr_gray = Gray(fifo_wptr) /\ fifo_rptr_gray = Gray(fifo_rptr)
  /\ rptr_gray_meta \in Codes /\ fifo_rptr_gray_sync \in Codes
  /\ wptr_gray_meta \in Codes /\ fifo_wptr_gray_sync \in Codes

(* Seven pointers, each behind the next, the last at most Depth ahead of     *)
(* the first.                                                                *)
Behind(a0, a1, a2, a3, a4, a5, a6) ==
  Dist(a0, a1) + Dist(a1, a2) + Dist(a2, a3) + Dist(a3, a4) + Dist(a4, a5) + Dist(a5, a6) <= Depth

Ordered ==
  Behind(fifo_rptr_sync, Ungray(fifo_rptr_gray_sync), Ungray(rptr_gray_meta), fifo_rptr,
         Ungray(fifo_wptr_gray_sync), Ungray(wptr_gray_meta), fifo_wptr)

AsyncInv == AsyncTypes /\ Ordered

-------------------------------------------------------------------------------
LEMMA Parameters ==
  ASSUME FifoAssumptions
  PROVE  /\ Depth \in Nat /\ Depth >= 3 /\ Gray(0) = {}
         /\ \A p \in Ptrs : Ungray(Gray(p)) = p
         /\ \A p \in Ptrs : Caught(Gray(p), Gray(NextPtr(p))) = {Gray(p), Gray(NextPtr(p))}
BY DEF FifoAssumptions

(* A code that does not change is caught as it is. *)
LEMMA CaughtSame == ASSUME NEW g PROVE Caught(g, g) = {g}
<1>1. \A m \in SUBSET ((g \cup g) \ (g \cap g)) : (g \cap g) \cup m = g  OBVIOUS
<1>2. {} \in SUBSET ((g \cup g) \ (g \cap g))  OBVIOUS
<1> QED  BY <1>1, <1>2 DEF Caught

(* Pointers on their circle of 2 * Depth, and the way from one to another.   *)
LEMMA Pointers ==
  ASSUME Depth \in Nat, Depth >= 3, NEW p \in Ptrs, NEW q \in Ptrs
  PROVE  /\ NextPtr(p) \in Ptrs /\ Flip(p) \in Ptrs /\ Cell(p) \in Cells
         /\ Dist(p, q) \in 0 .. 2 * Depth - 1
         /\ Dist(p, p) = 0 /\ (p # q => Dist(p, q) >= 1)
         /\ Dist(p, NextPtr(p)) = 1
         /\ q = Flip(p) <=> Dist(p, q) = Depth
         /\ NextPtr(p) = (IF p + 1 = 2 * Depth THEN 0 ELSE p + 1)
BY DEF Ptrs, Cells, NextPtr, PtrSucc, Flip, Cell, Dist

LEMMA Distances ==
  ASSUME Depth \in Nat, Depth >= 3
  PROVE  \A p, q \in Ptrs : Dist(p, q) \in Nat
BY DEF Ptrs, Dist

LEMMA Triangle ==
  ASSUME Depth \in Nat, Depth >= 3, NEW p \in Ptrs, NEW q \in Ptrs, NEW r \in Ptrs
  PROVE  /\ Dist(p, r) <= Dist(p, q) + Dist(q, r)
         /\ Dist(p, q) + Dist(q, r) <= Depth => Dist(p, r) = Dist(p, q) + Dist(q, r)
BY DEF Ptrs, Dist

(* What a pointer that moves by one does to the distances around it. *)
LEMMA Step ==
  ASSUME Depth \in Nat, Depth >= 3, NEW p \in Ptrs, NEW q \in Ptrs
  PROVE  /\ Dist(p, q) < Depth => Dist(p, NextPtr(q)) = Dist(p, q) + 1
         /\ p # q => Dist(NextPtr(p), q) = Dist(p, q) - 1
BY DEF Ptrs, Dist, NextPtr, PtrSucc

-------------------------------------------------------------------------------
(* A pointer that moves towards the next one, from the one before it.        *)
LEMMA StepBetween ==
  ASSUME Depth \in Nat, Depth >= 3, NEW p \in Ptrs, NEW q \in Ptrs, NEW r \in Ptrs,
         Dist(p, q) + Dist(q, r) <= Depth, q # r
  PROVE  /\ Dist(p, NextPtr(q)) = Dist(p, q) + 1
         /\ Dist(NextPtr(q), r) = Dist(q, r) - 1
<1>1. Dist(p, q) \in Nat /\ Dist(q, r) \in Nat /\ Dist(q, r) >= 1  BY Pointers, Distances
<1>2. Dist(p, q) < Depth  BY <1>1
<1> QED  BY <1>2, Step

-------------------------------------------------------------------------------
(* What a pointer code is worth once it is caught. *)
LEMMA CodesDecode ==
  ASSUME FifoAssumptions, NEW g \in Codes
  PROVE  Ungray(g) \in Ptrs
BY Parameters DEF Codes

(* The clock of one side seen from the other: the pointer stays or moves by  *)
(* one, and what is caught of its code is one of the two.                    *)
LEMMA Caught1 ==
  ASSUME FifoAssumptions, NEW p \in Ptrs, NEW incr \in BOOLEAN,
         NEW c \in Caught(Gray(p), IF incr THEN Gray(NextPtr(p)) ELSE Gray(p))
  PROVE  /\ c \in Codes /\ Ungray(c) \in {p, IF incr THEN NextPtr(p) ELSE p}
<1>1. /\ NextPtr(p) \in Ptrs /\ Ungray(Gray(p)) = p
      /\ Caught(Gray(p), Gray(NextPtr(p))) = {Gray(p), Gray(NextPtr(p))}
  BY Parameters, Pointers
<1>2. Ungray(Gray(NextPtr(p))) = NextPtr(p)  BY <1>1, Parameters
<1>3. Gray(p) \in Codes /\ Gray(NextPtr(p)) \in Codes  BY <1>1 DEF Codes
<1>4. CASE incr  BY <1>1, <1>2, <1>3, <1>4
<1>5. CASE ~incr
  <2>1. Caught(Gray(p), Gray(p)) = {Gray(p)}  BY CaughtSame
  <2> QED  BY <1>1, <1>3, <1>5, <2>1
<1> QED  BY <1>4, <1>5

(* The registers of one side after its edge. *)
LEMMA WriteSideTypes ==
  ASSUME FifoAssumptions, AsyncTypes, NEW wvalid \in BOOLEAN, NEW x \in Item, NEW c \in Codes,
         WriteSide(wvalid, x, c)
  PROVE  /\ fifo_wptr' \in Ptrs /\ fifo_wptr_gray' = Gray(fifo_wptr')
         /\ storage' \in [Cells -> Item]
         /\ rptr_gray_meta' \in Codes /\ fifo_rptr_gray_sync' \in Codes
         /\ fifo_rptr_sync' \in Ptrs
<1>1. Depth \in Nat /\ Depth >= 3  BY Parameters
<1>2. /\ fifo_wptr \in Ptrs /\ fifo_wptr_gray = Gray(fifo_wptr) /\ storage \in [Cells -> Item]
      /\ rptr_gray_meta \in Codes /\ fifo_rptr_gray_sync \in Codes
  BY DEF AsyncTypes
<1>3. NextPtr(fifo_wptr) \in Ptrs /\ Ungray(fifo_rptr_gray_sync) \in Ptrs
  BY <1>1, <1>2, Pointers, CodesDecode
<1> DEFINE incr == wvalid /\ wready
<1>4. /\ fifo_wptr' = IF incr THEN NextPtr(fifo_wptr) ELSE fifo_wptr
      /\ fifo_wptr_gray' = IF incr THEN Gray(NextPtr(fifo_wptr)) ELSE fifo_wptr_gray
      /\ storage' = IF incr THEN [storage EXCEPT ![Cell(fifo_wptr)] = x] ELSE storage
      /\ rptr_gray_meta' = c /\ fifo_rptr_gray_sync' = rptr_gray_meta
      /\ fifo_rptr_sync' = Ungray(fifo_rptr_gray_sync)
  BY DEF WriteSide
<1> HIDE DEF incr
<1>5. storage' \in [Cells -> Item]  BY <1>2, <1>4
<1> QED  BY <1>2, <1>3, <1>4, <1>5

LEMMA ReadSideTypes ==
  ASSUME FifoAssumptions, AsyncTypes, NEW rready \in BOOLEAN, NEW c \in Codes, ReadSide(rready, c)
  PROVE  /\ fifo_rptr' \in Ptrs /\ fifo_rptr_gray' = Gray(fifo_rptr')
         /\ wptr_gray_meta' \in Codes /\ fifo_wptr_gray_sync' \in Codes
<1>1. Depth \in Nat /\ Depth >= 3  BY Parameters
<1>2. /\ fifo_rptr \in Ptrs /\ fifo_rptr_gray = Gray(fifo_rptr) /\ wptr_gray_meta \in Codes
  BY DEF AsyncTypes
<1>3. NextPtr(fifo_rptr) \in Ptrs  BY <1>1, <1>2, Pointers
<1> QED  BY <1>2, <1>3 DEF ReadSide

(* An edge, by what moves: the writer's and the reader's pointer (incrW,     *)
(* incrR), and what each side catches (x2, x5; the other clock's edge leaves *)
(* a side as it is).                                                         *)
LEMMA Moved ==
  ASSUME FifoAssumptions, AsyncInv, NEW incrW \in BOOLEAN, NEW incrR \in BOOLEAN,
         incrW => wready, incrR => rvalid,
         NEW x2, x2 \in {fifo_rptr, IF incrR THEN NextPtr(fifo_rptr) ELSE fifo_rptr},
         NEW x5, x5 \in {fifo_wptr, IF incrW THEN NextPtr(fifo_wptr) ELSE fifo_wptr}
  PROVE  LET r  == IF incrR THEN NextPtr(fifo_rptr) ELSE fifo_rptr
             w  == IF incrW THEN NextPtr(fifo_wptr) ELSE fifo_wptr
             a0 == fifo_rptr_sync
             a1 == Ungray(fifo_rptr_gray_sync)
             a2 == Ungray(rptr_gray_meta)
             a4 == Ungray(fifo_wptr_gray_sync)
             a5 == Ungray(wptr_gray_meta)
         IN  /\ Behind(a1, a2, x2, r, a4, a5, w)
             /\ Behind(a0, a1, a2, r, a5, x5, w)
             /\ Behind(a1, a2, x2, r, a5, x5, w)
<1> DEFINE r  == IF incrR THEN NextPtr(fifo_rptr) ELSE fifo_rptr
           w  == IF incrW THEN NextPtr(fifo_wptr) ELSE fifo_wptr
           a0 == fifo_rptr_sync
           a1 == Ungray(fifo_rptr_gray_sync)
           a2 == Ungray(rptr_gray_meta)
           a3 == fifo_rptr
           a4 == Ungray(fifo_wptr_gray_sync)
           a5 == Ungray(wptr_gray_meta)
           a6 == fifo_wptr
<1>1. Depth \in Nat /\ Depth >= 3  BY Parameters
<1>2. a0 \in Ptrs /\ a3 \in Ptrs /\ a6 \in Ptrs  BY DEF AsyncInv, AsyncTypes
<1>3. a1 \in Ptrs /\ a2 \in Ptrs /\ a4 \in Ptrs /\ a5 \in Ptrs  BY CodesDecode DEF AsyncInv, AsyncTypes
<1>4. Behind(a0, a1, a2, a3, a4, a5, a6)  BY DEF AsyncInv, Ordered
<1>5. incrR => a3 # a4  BY DEF rvalid, empty
<1>6. incrW => a6 # Flip(a0)  BY DEF wready, full_wclk
<1>7. NextPtr(a3) \in Ptrs /\ NextPtr(a6) \in Ptrs  BY <1>1, <1>2, Pointers
<1>8. r \in Ptrs /\ w \in Ptrs /\ x2 \in Ptrs /\ x5 \in Ptrs  BY <1>2, <1>7
<1>r. r = (IF incrR THEN NextPtr(a3) ELSE a3) /\ x2 \in {a3, r}  OBVIOUS
<1>w. w = (IF incrW THEN NextPtr(a6) ELSE a6) /\ x5 \in {a6, w}  OBVIOUS
<1> SUFFICES /\ Behind(a1, a2, x2, r, a4, a5, w)
             /\ Behind(a0, a1, a2, r, a5, x5, w)
             /\ Behind(a1, a2, x2, r, a5, x5, w)
  OBVIOUS
<1> HIDE DEF r, w, a0, a1, a2, a3, a4, a5, a6
<1> DEFINE d0 == Dist(a0, a1)
           d1 == Dist(a1, a2)
           d2 == Dist(a2, a3)
           d3 == Dist(a3, a4)
           d4 == Dist(a4, a5)
           d5 == Dist(a5, a6)
<1>9. d0 \in Nat /\ d1 \in Nat /\ d2 \in Nat /\ d3 \in Nat /\ d4 \in Nat /\ d5 \in Nat
  BY <1>1, <1>2, <1>3, Distances
<1>10. d0 + d1 + d2 + d3 + d4 + d5 <= Depth  BY <1>4 DEF Behind
\* The reader's pointer moves only onto what it knows to be written.
<1>11. \E i \in {0, 1} : /\ Dist(a2, r) = d2 + i /\ Dist(r, a4) = d3 - i
                         /\ Dist(a2, x2) + Dist(x2, r) = Dist(a2, r)
  <2>1. CASE incrR
    <3>0. Dist(a2, a3) + Dist(a3, a4) <= Depth  BY <1>1, <1>9, <1>10
    <3>1. Dist(a2, NextPtr(a3)) = d2 + 1 /\ Dist(NextPtr(a3), a4) = d3 - 1
      BY <1>1, <1>2, <1>3, <1>5, <2>1, <3>0, StepBetween
    <3>2. Dist(a3, NextPtr(a3)) = 1 /\ Dist(NextPtr(a3), NextPtr(a3)) = 0
      BY <1>1, <1>2, <1>7, Pointers
    <3> QED  BY <1>r, <1>9, <2>1, <3>1, <3>2
  <2>2. CASE ~incrR
    <3>1. Dist(a3, a3) = 0  BY <1>1, <1>2, Pointers
    <3> QED  BY <1>r, <1>9, <2>2, <3>1
  <2> QED  BY <2>1, <2>2
\* The writer's pointer moves only into room it knows of.
<1>12. \E i \in {0, 1} : /\ Dist(a5, w) = d5 + i
                         /\ d0 + d1 + d2 + d3 + d4 + d5 + i <= Depth
                         /\ Dist(a5, x5) + Dist(x5, w) = Dist(a5, w)
  <2>1. CASE incrW
    <3>1. Dist(a0, a2) = d0 + d1  BY <1>1, <1>2, <1>3, <1>9, <1>10, Triangle
    <3>2. Dist(a0, a3) = d0 + d1 + d2  BY <1>1, <1>2, <1>3, <1>9, <1>10, <3>1, Triangle
    <3>3. Dist(a0, a4) = d0 + d1 + d2 + d3  BY <1>1, <1>2, <1>3, <1>9, <1>10, <3>2, Triangle
    <3>4. Dist(a0, a5) = d0 + d1 + d2 + d3 + d4  BY <1>1, <1>2, <1>3, <1>9, <1>10, <3>3, Triangle
    <3>5. Dist(a0, a6) = d0 + d1 + d2 + d3 + d4 + d5
      BY <1>1, <1>2, <1>3, <1>9, <1>10, <3>4, Triangle
    <3>6. Dist(a0, a6) # Depth  BY <1>1, <1>2, <1>6, <2>1, Pointers
    <3> HIDE DEF d0, d1, d2, d3, d4, d5
    <3>7. d0 + d1 + d2 + d3 + d4 + d5 + 1 <= Depth /\ d5 < Depth
      BY <1>1, <1>9, <1>10, <3>5, <3>6
    <3>8. Dist(a5, NextPtr(a6)) = d5 + 1  BY <1>1, <1>2, <1>3, <3>7, Step DEF d5
    <3>9. Dist(a6, NextPtr(a6)) = 1 /\ Dist(NextPtr(a6), NextPtr(a6)) = 0
      BY <1>1, <1>2, <1>7, Pointers
    <3>10. Dist(a5, x5) + Dist(x5, w) = d5 + 1
      BY <1>w, <1>9, <2>1, <3>8, <3>9 DEF d5
    <3> QED  BY <1>w, <2>1, <3>7, <3>8, <3>10
  <2>2. CASE ~incrW
    <3>1. Dist(a6, a6) = 0  BY <1>1, <1>2, Pointers
    <3>2. w = a6 /\ x5 = a6  BY <1>w, <2>2
    <3> QED  BY <1>9, <1>10, <3>1, <3>2
  <2> QED  BY <2>1, <2>2
\* What either side catches lies between what it had and what there is.
<1>13. /\ Dist(a2, x2) \in Nat /\ Dist(x2, r) \in Nat
       /\ Dist(a5, x5) \in Nat /\ Dist(x5, w) \in Nat
       /\ Dist(r, a4) \in Nat /\ Dist(r, a5) \in Nat /\ Dist(r, a5) <= Dist(r, a4) + d4
  BY <1>1, <1>3, <1>8, Distances, Triangle
<1> HIDE DEF d0, d1, d2, d3, d4, d5
<1>14. PICK i \in {0, 1} : /\ Dist(a2, r) = d2 + i /\ Dist(r, a4) = d3 - i
                           /\ Dist(a2, x2) + Dist(x2, r) = Dist(a2, r)
  BY <1>11
<1>15. PICK j \in {0, 1} : /\ Dist(a5, w) = d5 + j
                           /\ d0 + d1 + d2 + d3 + d4 + d5 + j <= Depth
                           /\ Dist(a5, x5) + Dist(x5, w) = Dist(a5, w)
  BY <1>12
<1>16. d1 + Dist(a2, x2) + Dist(x2, r) + Dist(r, a4) + d4 + Dist(a5, w) <= Depth
  BY <1>1, <1>9, <1>13, <1>14, <1>15
<1>17. d0 + d1 + Dist(a2, r) + Dist(r, a5) + Dist(a5, x5) + Dist(x5, w) <= Depth
  BY <1>1, <1>9, <1>13, <1>14, <1>15
<1>18. d1 + Dist(a2, x2) + Dist(x2, r) + Dist(r, a5) + Dist(a5, x5) + Dist(x5, w) <= Depth
  BY <1>1, <1>9, <1>13, <1>14, <1>15
<1> QED  BY <1>16, <1>17, <1>18 DEF Behind, d0, d1, d4

-------------------------------------------------------------------------------
(* The three kinds of edge. *)
LEMMA WriteEdgeKeeps ==
  ASSUME FifoAssumptions, AsyncInv, NEW v \in BOOLEAN, NEW x \in Item, WriteEdge(v, x)
  PROVE  AsyncInv'
<1> DEFINE incr == v /\ wready
           c == fifo_rptr_gray
<1>1. AsyncTypes /\ fifo_rptr \in Ptrs /\ fifo_rptr_gray = Gray(fifo_rptr)  BY DEF AsyncInv, AsyncTypes
<1>2. WriteSide(v, x, c) /\ UNCHANGED readVars  BY DEF WriteEdge
<1>3. c \in Codes /\ Ungray(c) = fifo_rptr  BY <1>1, Parameters DEF Codes
<1>4. /\ fifo_wptr' \in Ptrs /\ fifo_wptr_gray' = Gray(fifo_wptr')
      /\ storage' \in [Cells -> Item]
      /\ rptr_gray_meta' \in Codes /\ fifo_rptr_gray_sync' \in Codes
      /\ fifo_rptr_sync' \in Ptrs
  BY <1>1, <1>2, <1>3, WriteSideTypes
<1>5. AsyncTypes'  BY <1>1, <1>2, <1>4 DEF AsyncTypes, readVars, Ptrs, Cells, Codes, Gray
<1>6. /\ fifo_wptr' = IF incr THEN NextPtr(fifo_wptr) ELSE fifo_wptr
      /\ fifo_rptr_sync' = Ungray(fifo_rptr_gray_sync)
      /\ fifo_rptr_gray_sync' = rptr_gray_meta /\ rptr_gray_meta' = c
      /\ fifo_rptr' = fifo_rptr /\ fifo_wptr_gray_sync' = fifo_wptr_gray_sync
      /\ wptr_gray_meta' = wptr_gray_meta
  BY <1>2 DEF WriteSide, readVars
<1>7. incr \in BOOLEAN /\ (incr => wready) /\ FALSE \in BOOLEAN  BY DEF wready
<1>w. fifo_wptr \in {fifo_wptr, IF incr THEN NextPtr(fifo_wptr) ELSE fifo_wptr}
      /\ fifo_rptr \in {fifo_rptr, IF FALSE THEN NextPtr(fifo_rptr) ELSE fifo_rptr}
  OBVIOUS
<1> HIDE DEF incr, c
<1>8. Behind(Ungray(fifo_rptr_gray_sync), Ungray(rptr_gray_meta), fifo_rptr,
             IF FALSE THEN NextPtr(fifo_rptr) ELSE fifo_rptr,
             Ungray(fifo_wptr_gray_sync), Ungray(wptr_gray_meta),
             IF incr THEN NextPtr(fifo_wptr) ELSE fifo_wptr)
  BY <1>7, <1>w, Moved
<1>9. Ordered'  BY <1>3, <1>6, <1>8 DEF Ordered, Behind, Dist, Ungray
<1> QED  BY <1>5, <1>9 DEF AsyncInv

LEMMA ReadEdgeKeeps ==
  ASSUME FifoAssumptions, AsyncInv, NEW rdy \in BOOLEAN, ReadEdge(rdy)
  PROVE  AsyncInv'
<1> DEFINE incr == rvalid /\ rdy
           c == fifo_wptr_gray
<1>1. AsyncTypes /\ fifo_wptr \in Ptrs /\ fifo_wptr_gray = Gray(fifo_wptr)  BY DEF AsyncInv, AsyncTypes
<1>2. ReadSide(rdy, c) /\ UNCHANGED writeVars  BY DEF ReadEdge
<1>3. c \in Codes /\ Ungray(c) = fifo_wptr  BY <1>1, Parameters DEF Codes
<1>4. /\ fifo_rptr' \in Ptrs /\ fifo_rptr_gray' = Gray(fifo_rptr')
      /\ wptr_gray_meta' \in Codes /\ fifo_wptr_gray_sync' \in Codes
  BY <1>1, <1>2, <1>3, ReadSideTypes
<1>5. AsyncTypes'  BY <1>1, <1>2, <1>4 DEF AsyncTypes, writeVars, Ptrs, Cells, Codes, Gray
<1>6. /\ fifo_rptr' = IF incr THEN NextPtr(fifo_rptr) ELSE fifo_rptr
      /\ fifo_wptr_gray_sync' = wptr_gray_meta /\ wptr_gray_meta' = c
      /\ fifo_wptr' = fifo_wptr /\ fifo_rptr_gray_sync' = fifo_rptr_gray_sync
      /\ rptr_gray_meta' = rptr_gray_meta /\ fifo_rptr_sync' = fifo_rptr_sync
  BY <1>2 DEF ReadSide, writeVars
<1>7. incr \in BOOLEAN /\ (incr => rvalid) /\ FALSE \in BOOLEAN  BY DEF rvalid
<1>w. fifo_wptr \in {fifo_wptr, IF FALSE THEN NextPtr(fifo_wptr) ELSE fifo_wptr}
      /\ fifo_rptr \in {fifo_rptr, IF incr THEN NextPtr(fifo_rptr) ELSE fifo_rptr}
  OBVIOUS
<1> HIDE DEF incr, c
<1>8. Behind(fifo_rptr_sync, Ungray(fifo_rptr_gray_sync), Ungray(rptr_gray_meta),
             IF incr THEN NextPtr(fifo_rptr) ELSE fifo_rptr,
             Ungray(wptr_gray_meta), fifo_wptr,
             IF FALSE THEN NextPtr(fifo_wptr) ELSE fifo_wptr)
  BY <1>7, <1>w, Moved
<1>9. Ordered'  BY <1>3, <1>6, <1>8 DEF Ordered, Behind, Dist, Ungray
<1> QED  BY <1>5, <1>9 DEF AsyncInv

LEMMA BothEdgesKeep ==
  ASSUME FifoAssumptions, AsyncInv, NEW v \in BOOLEAN, NEW x \in Item, NEW rdy \in BOOLEAN,
         BothEdges(v, x, rdy)
  PROVE  AsyncInv'
<1> DEFINE incrW == v /\ wready
           incrR == rvalid /\ rdy
           nextW == IF incrW THEN Gray(NextPtr(fifo_wptr)) ELSE fifo_wptr_gray
           nextR == IF incrR THEN Gray(NextPtr(fifo_rptr)) ELSE fifo_rptr_gray
<1>1. /\ AsyncTypes /\ fifo_wptr \in Ptrs /\ fifo_wptr_gray = Gray(fifo_wptr)
      /\ fifo_rptr \in Ptrs /\ fifo_rptr_gray = Gray(fifo_rptr)
  BY DEF AsyncInv, AsyncTypes
<1>2. PICK g \in Caught(fifo_wptr_gray, nextW), h \in Caught(fifo_rptr_gray, nextR) :
        WriteSide(v, x, h) /\ ReadSide(rdy, g)
  BY DEF BothEdges
<1>3. incrW \in BOOLEAN /\ incrR \in BOOLEAN /\ (incrW => wready) /\ (incrR => rvalid)
  BY DEF wready, rvalid
<1>i. /\ fifo_wptr' = IF incrW THEN NextPtr(fifo_wptr) ELSE fifo_wptr
      /\ fifo_rptr' = IF incrR THEN NextPtr(fifo_rptr) ELSE fifo_rptr
  BY <1>2 DEF WriteSide, ReadSide
<1>n. /\ nextW = IF incrW THEN Gray(NextPtr(fifo_wptr)) ELSE Gray(fifo_wptr)
      /\ nextR = IF incrR THEN Gray(NextPtr(fifo_rptr)) ELSE Gray(fifo_rptr)
  BY <1>1
<1> HIDE DEF incrW, incrR, nextW, nextR
<1>4. h \in Codes /\ Ungray(h) \in {fifo_rptr, IF incrR THEN NextPtr(fifo_rptr) ELSE fifo_rptr}
  <2>1. h \in Caught(Gray(fifo_rptr), IF incrR THEN Gray(NextPtr(fifo_rptr)) ELSE Gray(fifo_rptr))
    BY <1>1, <1>2, <1>n
  <2> QED  BY <1>1, <1>3, <2>1, Caught1
<1>5. g \in Codes /\ Ungray(g) \in {fifo_wptr, IF incrW THEN NextPtr(fifo_wptr) ELSE fifo_wptr}
  <2>1. g \in Caught(Gray(fifo_wptr), IF incrW THEN Gray(NextPtr(fifo_wptr)) ELSE Gray(fifo_wptr))
    BY <1>1, <1>2, <1>n
  <2> QED  BY <1>1, <1>3, <2>1, Caught1
<1>6. /\ fifo_wptr' \in Ptrs /\ fifo_wptr_gray' = Gray(fifo_wptr')
      /\ storage' \in [Cells -> Item]
      /\ rptr_gray_meta' \in Codes /\ fifo_rptr_gray_sync' \in Codes
      /\ fifo_rptr_sync' \in Ptrs
  BY <1>1, <1>2, <1>4, WriteSideTypes
<1>7. /\ fifo_rptr' \in Ptrs /\ fifo_rptr_gray' = Gray(fifo_rptr')
      /\ wptr_gray_meta' \in Codes /\ fifo_wptr_gray_sync' \in Codes
  BY <1>1, <1>2, <1>5, ReadSideTypes
<1>8. AsyncTypes'  BY <1>6, <1>7 DEF AsyncTypes, Ptrs, Cells, Codes, Gray
<1>9. /\ fifo_rptr_sync' = Ungray(fifo_rptr_gray_sync)
      /\ fifo_rptr_gray_sync' = rptr_gray_meta /\ rptr_gray_meta' = h
      /\ fifo_wptr_gray_sync' = wptr_gray_meta /\ wptr_gray_meta' = g
  BY <1>2 DEF WriteSide, ReadSide
<1>10. Behind(Ungray(fifo_rptr_gray_sync), Ungray(rptr_gray_meta), Ungray(h),
              IF incrR THEN NextPtr(fifo_rptr) ELSE fifo_rptr,
              Ungray(wptr_gray_meta), Ungray(g),
              IF incrW THEN NextPtr(fifo_wptr) ELSE fifo_wptr)
  BY <1>3, <1>4, <1>5, Moved
<1>11. Ordered'  BY <1>9, <1>10, <1>i DEF Ordered, Behind, Dist, Ungray
<1> QED  BY <1>8, <1>11 DEF AsyncInv

LEMMA AsyncInitInvariant == ASSUME FifoAssumptions PROVE AsyncInit => AsyncInv
<1> SUFFICES ASSUME AsyncInit PROVE AsyncInv  OBVIOUS
<1>1. Depth \in Nat /\ Depth >= 3 /\ Gray(0) = {}  BY Parameters
<1>2. 0 \in Ptrs  BY <1>1 DEF Ptrs
<1>3. Ungray({}) = 0 /\ {} \in Codes  BY <1>1, <1>2, Parameters DEF Codes
<1>4. AsyncTypes  BY <1>1, <1>2, <1>3 DEF AsyncInit, AsyncTypes
<1>5. Dist(0, 0) = 0  BY <1>1, <1>2, Pointers
<1>6. Behind(0, 0, 0, 0, 0, 0, 0)  BY <1>1, <1>5 DEF Behind
<1>7. Ordered  BY <1>3, <1>6 DEF AsyncInit, Ordered
<1> QED  BY <1>4, <1>7 DEF AsyncInv

LEMMA NextKeeps == ASSUME FifoAssumptions, AsyncInv, [AsyncNext]_asyncVars PROVE AsyncInv'
<1>1. CASE WriteClock  BY <1>1, WriteEdgeKeeps DEF WriteClock
<1>2. CASE ReadClock  BY <1>2, ReadEdgeKeeps DEF ReadClock
<1>3. CASE Together  BY <1>3, BothEdgesKeep DEF Together
<1>4. CASE UNCHANGED asyncVars
  <2>1. AsyncTypes'  BY <1>4 DEF AsyncInv, AsyncTypes, asyncVars, readVars, writeVars, Ptrs, Cells, Codes, Gray
  <2>2. Ordered'
    BY <1>4 DEF AsyncInv, Ordered, Behind, Dist, Ungray, asyncVars, readVars, writeVars
  <2> QED  BY <2>1, <2>2 DEF AsyncInv
<1> QED  BY <1>1, <1>2, <1>3, <1>4 DEF AsyncNext

(***************************************************************************)
(* The copies of the pointers stay ordered, and their codes are codes of   *)
(* pointers.                                                               *)
(***************************************************************************)
THEOREM AsyncInvariant == ASSUME FifoAssumptions PROVE AsyncSpec => []AsyncInv
<1>1. AsyncInit => AsyncInv  BY AsyncInitInvariant
<1>2. AsyncInv /\ [AsyncNext]_asyncVars => AsyncInv'  BY NextKeeps
<1> QED  BY <1>1, <1>2, PTL DEF AsyncSpec

(* The distances of the ends, from those in between. *)
LEMMA Ends ==
  ASSUME FifoAssumptions, AsyncInv
  PROVE  /\ fifo_rptr_sync \in Ptrs /\ fifo_rptr \in Ptrs /\ fifo_wptr \in Ptrs
         /\ Dist(fifo_rptr, fifo_wptr) \in 0 .. Depth
         /\ NeitherSideOptimistic
<1> DEFINE a0 == fifo_rptr_sync
           a1 == Ungray(fifo_rptr_gray_sync)
           a2 == Ungray(rptr_gray_meta)
           a3 == fifo_rptr
           a4 == Ungray(fifo_wptr_gray_sync)
           a5 == Ungray(wptr_gray_meta)
           a6 == fifo_wptr
<1>1. Depth \in Nat /\ Depth >= 3  BY Parameters
<1>2. a0 \in Ptrs /\ a3 \in Ptrs /\ a6 \in Ptrs  BY DEF AsyncInv, AsyncTypes
<1>3. a1 \in Ptrs /\ a2 \in Ptrs /\ a4 \in Ptrs /\ a5 \in Ptrs  BY CodesDecode DEF AsyncInv, AsyncTypes
<1>4. Dist(a0, a1) + Dist(a1, a2) + Dist(a2, a3)
        + Dist(a3, a4) + Dist(a4, a5) + Dist(a5, a6) <= Depth
  BY DEF AsyncInv, Ordered, Behind
<1> SUFFICES /\ Dist(a3, a6) \in 0 .. Depth
             /\ Dist(a0, a3) + Dist(a3, a6) <= Depth
             /\ Dist(a3, a4) <= Dist(a3, a6)
  BY <1>2 DEF NeitherSideOptimistic
<1> HIDE DEF a0, a1, a2, a3, a4, a5, a6
<1>5. /\ Dist(a0, a1) \in Nat /\ Dist(a1, a2) \in Nat /\ Dist(a2, a3) \in Nat
      /\ Dist(a3, a4) \in Nat /\ Dist(a4, a5) \in Nat /\ Dist(a5, a6) \in Nat
      /\ Dist(a0, a2) \in Nat /\ Dist(a3, a5) \in Nat
      /\ Dist(a3, a6) \in Nat /\ Dist(a0, a3) \in Nat
  BY <1>1, <1>2, <1>3, Distances
<1>6. Dist(a0, a2) <= Dist(a0, a1) + Dist(a1, a2)  BY <1>1, <1>2, <1>3, Triangle
<1>7. Dist(a0, a3) <= Dist(a0, a2) + Dist(a2, a3)  BY <1>1, <1>2, <1>3, Triangle
<1>8. Dist(a3, a5) = Dist(a3, a4) + Dist(a4, a5)
  BY <1>1, <1>2, <1>3, <1>4, <1>5, Triangle
<1>9. Dist(a3, a6) = Dist(a3, a5) + Dist(a5, a6)
  BY <1>1, <1>2, <1>3, <1>4, <1>5, <1>8, Triangle
<1> QED  BY <1>1, <1>4, <1>5, <1>6, <1>7, <1>8, <1>9

(***************************************************************************)
(* Neither clock domain ever believes in room or in items that are not     *)
(* there (full_wclk and empty err on the safe side).                       *)
(***************************************************************************)
THEOREM SidesNeverOptimistic == ASSUME FifoAssumptions PROVE AsyncSpec => []NeitherSideOptimistic
<1>1. AsyncInv => NeitherSideOptimistic  BY Ends
<1> QED  BY <1>1, AsyncInvariant, PTL

-------------------------------------------------------------------------------
(* The storage as a ring: n items, the first in the cell of pointer r.       *)
Place(r, i) == Cell((r + i) % (2 * Depth))
Circle(m, r, n) == [k \in 1 .. n |-> m[Cell((r + k - 1) % (2 * Depth))]]

LEMMA Places ==
  ASSUME Depth \in Nat, Depth >= 3, NEW r \in Ptrs, NEW i \in 0 .. Depth
  PROVE  (r + i) % (2 * Depth) = (IF r + i < 2 * Depth THEN r + i ELSE r + i - 2 * Depth)
BY DEF Ptrs

(* The cells of a ring are all different. *)
LEMMA PlaceFacts ==
  ASSUME Depth \in Nat, Depth >= 3, NEW r \in Ptrs, NEW i \in 0 .. Depth
  PROVE  /\ Place(r, i) \in Cells
         /\ Place(r, 0) = Cell(r)
         /\ \A w \in Ptrs : Dist(r, w) = i => Place(r, i) = Cell(w)
         /\ i >= 1 => Place(NextPtr(r), i - 1) = Place(r, i)
         /\ \A j \in 0 .. Depth - 1 : i < j => Place(r, i) # Place(r, j)
<1>1. (r + i) % (2 * Depth) = (IF r + i < 2 * Depth THEN r + i ELSE r + i - 2 * Depth)
  BY Places
<1>2. Place(r, i) \in Cells  BY <1>1 DEF Place, Cells, Cell, Ptrs
<1>3. Place(r, 0) = Cell(r)
  <2>1. 0 \in 0 .. Depth  OBVIOUS
  <2>2. (r + 0) % (2 * Depth) = (IF r + 0 < 2 * Depth THEN r + 0 ELSE r + 0 - 2 * Depth)
    BY <2>1, Places
  <2> QED  BY <2>2 DEF Place, Ptrs
<1>4. \A w \in Ptrs : Dist(r, w) = i => Place(r, i) = Cell(w)
  BY <1>1 DEF Place, Dist, Ptrs
<1>5. i >= 1 => Place(NextPtr(r), i - 1) = Place(r, i)
  <2> SUFFICES ASSUME i >= 1 PROVE Place(NextPtr(r), i - 1) = Place(r, i)  OBVIOUS
  <2>1. NextPtr(r) \in Ptrs /\ i - 1 \in 0 .. Depth  BY Pointers
  <2>2. (NextPtr(r) + (i - 1)) % (2 * Depth)
          = (IF NextPtr(r) + (i - 1) < 2 * Depth THEN NextPtr(r) + (i - 1)
                                              ELSE NextPtr(r) + (i - 1) - 2 * Depth)
    BY <2>1, Places
  <2>3. NextPtr(r) = (IF r + 1 = 2 * Depth THEN 0 ELSE r + 1)  BY DEF NextPtr, PtrSucc
  <2>4. (NextPtr(r) + (i - 1)) % (2 * Depth) = (r + i) % (2 * Depth)
    BY <1>1, <2>2, <2>3 DEF Ptrs
  <2> QED  BY <2>4 DEF Place
<1>6. ASSUME NEW j \in 0 .. Depth - 1, i < j PROVE Place(r, i) # Place(r, j)
  <2>1. j \in 0 .. Depth  OBVIOUS
  <2>2. (r + j) % (2 * Depth) = (IF r + j < 2 * Depth THEN r + j ELSE r + j - 2 * Depth)
    BY <2>1, Places
  <2> QED  BY <1>1, <1>6, <2>2 DEF Place, Cell, Ptrs
<1> QED  BY <1>2, <1>3, <1>4, <1>5, <1>6

LEMMA CircleIsSeq ==
  ASSUME Depth \in Nat, Depth >= 3, NEW m \in [Cells -> Item], NEW r \in Ptrs, NEW n \in 0 .. Depth
  PROVE  /\ Circle(m, r, n) \in Seq(Item) /\ Len(Circle(m, r, n)) = n
         /\ \A k \in 1 .. n : Circle(m, r, n)[k] = m[Place(r, k - 1)]
<1>1. n \in Nat  OBVIOUS
<1>2. \A k \in 1 .. n : Place(r, k - 1) \in Cells /\ r + k - 1 = r + (k - 1)
  <2> SUFFICES ASSUME NEW k \in 1 .. n PROVE Place(r, k - 1) \in Cells /\ r + k - 1 = r + (k - 1)
    OBVIOUS
  <2>1. k - 1 \in 0 .. Depth /\ k \in Int  OBVIOUS
  <2>2. r + k - 1 = r + (k - 1)  BY <2>1 DEF Ptrs
  <2> QED  BY <2>1, <2>2, PlaceFacts
<1>3. Circle(m, r, n) = [k \in 1 .. n |-> m[Place(r, k - 1)]]  BY <1>2 DEF Circle, Place
<1>4. Circle(m, r, n) \in [1 .. n -> Item]  BY <1>2, <1>3
<1> QED  BY <1>1, <1>3, <1>4

(* A put into the cell behind the last item appends it. *)
LEMMA CirclePut ==
  ASSUME Depth \in Nat, Depth >= 3, NEW m \in [Cells -> Item], NEW r \in Ptrs,
         NEW n \in 0 .. Depth - 1, NEW x \in Item, NEW c, c = Place(r, n)
  PROVE  Circle([m EXCEPT ![c] = x], r, n + 1) = Circle(m, r, n) \o <<x>>
<1> DEFINE m2 == [m EXCEPT ![c] = x]
           left == Circle(m2, r, n + 1)
           right == Circle(m, r, n) \o <<x>>
<1>0. n \in 0 .. Depth /\ n + 1 \in 0 .. Depth /\ n \in Nat  OBVIOUS
<1>1. c \in Cells /\ \A i \in 0 .. Depth : i < n => Place(r, i) \in Cells /\ Place(r, i) # c
  BY <1>0, PlaceFacts
<1>2. m2 \in [Cells -> Item] /\ m2[c] = x /\ \A d \in Cells : d # c => m2[d] = m[d]  BY <1>1
<1> HIDE DEF m2
<1>3. left \in Seq(Item) /\ Len(left) = n + 1 /\ \A k \in 1 .. n + 1 : left[k] = m2[Place(r, k - 1)]
  BY <1>0, <1>2, CircleIsSeq
<1>4. Circle(m, r, n) \in Seq(Item) /\ Len(Circle(m, r, n)) = n
      /\ \A k \in 1 .. n : Circle(m, r, n)[k] = m[Place(r, k - 1)]
  BY <1>0, CircleIsSeq
<1>5. <<x>> \in Seq(Item) /\ Len(<<x>>) = 1 /\ <<x>>[1] = x  OBVIOUS
<1>6. right \in Seq(Item) /\ Len(right) = n + 1
      /\ (\A k \in 1 .. n : right[k] = Circle(m, r, n)[k]) /\ right[n + 1] = x
  <2> DEFINE s == Circle(m, r, n)
             y == <<x>>
  <2>1. s \in Seq(Item) /\ Len(s) = n /\ y \in Seq(Item) /\ Len(y) = 1 /\ y[1] = x
    BY <1>4, <1>5
  <2> HIDE DEF s, y
  <2>2. /\ s \o y \in Seq(Item) /\ Len(s \o y) = Len(s) + Len(y)
        /\ \A k \in 1 .. Len(s) + Len(y) :
             (s \o y)[k] = IF k <= Len(s) THEN s[k] ELSE y[k - Len(s)]
    BY <2>1, ConcatProperties
  <2>3. (s \o y)[n + 1] = x
    <3>1. n + 1 \in 1 .. n + 1 /\ ~(n + 1 <= n) /\ n + 1 - n = 1  BY <1>0
    <3> QED  BY <2>1, <2>2, <3>1
  <2>4. \A k \in 1 .. n : (s \o y)[k] = s[k]  BY <1>0, <2>1, <2>2
  <2> QED  BY <2>1, <2>2, <2>3, <2>4 DEF s, y
<1> HIDE DEF left, right
<1>7. ASSUME NEW k \in 1 .. n + 1 PROVE left[k] = right[k]
  <2>1. CASE k = n + 1
    <3>1. k - 1 = n  BY <1>0, <2>1
    <3> QED  BY <1>2, <1>3, <1>6, <2>1, <3>1
  <2>2. CASE k # n + 1
    <3>1. k \in 1 .. n /\ k - 1 \in 0 .. Depth /\ k - 1 < n  BY <1>0, <2>2
    <3>2. Place(r, k - 1) \in Cells /\ Place(r, k - 1) # c  BY <1>1, <3>1
    <3> QED  BY <1>2, <1>3, <1>4, <1>6, <3>1, <3>2
  <2> QED  BY <2>1, <2>2
<1>8. left = right  BY <1>0, <1>3, <1>6, <1>7, SeqEqual
<1> QED  BY <1>8 DEF left, right, m2

(* A take drops the first. *)
LEMMA CircleTake ==
  ASSUME Depth \in Nat, Depth >= 3, NEW m \in [Cells -> Item], NEW r \in Ptrs, NEW n \in 1 .. Depth
  PROVE  /\ Circle(m, r, n) # <<>> /\ Head(Circle(m, r, n)) = m[Cell(r)]
         /\ Tail(Circle(m, r, n)) = Circle(m, NextPtr(r), n - 1)
<1> DEFINE s == Circle(m, r, n)
           t == Circle(m, NextPtr(r), n - 1)
<1>0. n \in 0 .. Depth /\ n - 1 \in 0 .. Depth /\ n \in Nat /\ n - 1 \in Nat /\ NextPtr(r) \in Ptrs
      /\ 1 \in 1 .. n /\ 0 \in 0 .. Depth
  BY Pointers
<1>1. s \in Seq(Item) /\ Len(s) = n /\ \A k \in 1 .. n : s[k] = m[Place(r, k - 1)]
  BY <1>0, CircleIsSeq
<1>2. t \in Seq(Item) /\ Len(t) = n - 1 /\ \A k \in 1 .. n - 1 : t[k] = m[Place(NextPtr(r), k - 1)]
  BY <1>0, CircleIsSeq
<1>3. Place(r, 0) = Cell(r)  BY <1>0, PlaceFacts
<1> HIDE DEF s, t
<1>4. s # <<>>  BY <1>0, <1>1
<1>5. Head(s) = m[Cell(r)]  BY <1>0, <1>1, <1>3, <1>4
<1>6. Tail(s) \in Seq(Item) /\ Len(Tail(s)) = n - 1 /\ \A k \in 1 .. n - 1 : Tail(s)[k] = s[k + 1]
  BY <1>0, <1>1, <1>4, HeadTailProperties
<1>7. ASSUME NEW k \in 1 .. n - 1 PROVE Tail(s)[k] = t[k]
  <2>1. k \in 0 .. Depth /\ k >= 1 /\ k + 1 \in 1 .. n /\ (k + 1) - 1 = k  BY <1>0
  <2>2. Place(NextPtr(r), k - 1) = Place(r, k)  BY <2>1, PlaceFacts
  <2>3. Tail(s)[k] = s[k + 1]  BY <1>6
  <2>4. s[k + 1] = m[Place(r, (k + 1) - 1)]  BY <1>1, <2>1
  <2>5. t[k] = m[Place(NextPtr(r), k - 1)]  BY <1>2
  <2> QED  BY <2>1, <2>2, <2>3, <2>4, <2>5
<1>8. Tail(s) = t  BY <1>0, <1>2, <1>6, <1>7, SeqEqual
<1> QED  BY <1>4, <1>5, <1>8 DEF s, t

-------------------------------------------------------------------------------
(* What an edge does to the contents: it takes from those there were, and    *)
(* appends what it puts.                                                     *)
LEMMA AsyncEdgeContents ==
  ASSUME FifoAssumptions, AsyncInv, AsyncInv', NEW incrW \in BOOLEAN, NEW incrR \in BOOLEAN, NEW x \in Item,
         incrW => wready, incrR => rvalid,
         fifo_rptr' = IF incrR THEN NextPtr(fifo_rptr) ELSE fifo_rptr,
         fifo_wptr' = IF incrW THEN NextPtr(fifo_wptr) ELSE fifo_wptr,
         storage' = IF incrW THEN [storage EXCEPT ![Cell(fifo_wptr)] = x] ELSE storage
  PROVE  LET put == IF incrW THEN <<x>> ELSE <<>>
             all == Contents \o put
         IN  /\ incrR => all # <<>> /\ Head(all) = storage[Cell(fifo_rptr)]
             /\ Contents' = IF incrR THEN Tail(all) ELSE all
             /\ Len(Contents') <= Depth
<1> DEFINE r == fifo_rptr
           w == fifo_wptr
           n == Dist(r, w)
           m == storage
           m2 == storage'
           r2 == fifo_rptr'
           w2 == fifo_wptr'
           n2 == Dist(r2, w2)
           p == IF incrW THEN 1 ELSE 0
           put == IF incrW THEN <<x>> ELSE <<>>
<1>1. Depth \in Nat /\ Depth >= 3  BY Parameters
<1>2. r \in Ptrs /\ w \in Ptrs /\ n \in 0 .. Depth /\ fifo_rptr_sync \in Ptrs
      /\ m \in [Cells -> Item]
  BY Ends DEF AsyncInv, AsyncTypes
<1>3. r2 \in Ptrs /\ w2 \in Ptrs /\ m2 \in [Cells -> Item]
  BY DEF AsyncInv, AsyncTypes, Ptrs, Cells
<1>4. incrW => n < Depth
  <2> SUFFICES ASSUME incrW, n = Depth PROVE FALSE  BY <1>1, <1>2
  <2>1. w # Flip(fifo_rptr_sync)  BY DEF wready, full_wclk
  <2>2. Dist(fifo_rptr_sync, w) # Depth  BY <1>1, <1>2, <2>1, Pointers
  <2>3. Dist(fifo_rptr_sync, r) + n <= Depth  BY Ends DEF NeitherSideOptimistic
  <2>4. Dist(fifo_rptr_sync, w) = Dist(fifo_rptr_sync, r) + n  BY <1>1, <1>2, <2>3, Triangle
  <2>5. Dist(fifo_rptr_sync, r) \in Nat  BY <1>1, <1>2, Distances
  <2> HIDE DEF n
  <2> QED  BY <1>1, <2>2, <2>3, <2>4, <2>5
<1>5. incrR => n >= 1
  <2> SUFFICES ASSUME incrR PROVE n >= 1  OBVIOUS
  <2>1. Ungray(fifo_wptr_gray_sync) \in Ptrs  BY CodesDecode DEF AsyncInv, AsyncTypes
  <2>2. Ungray(fifo_wptr_gray_sync) # r  BY DEF rvalid, empty
  <2>3. Dist(r, Ungray(fifo_wptr_gray_sync)) >= 1  BY <1>1, <1>2, <2>1, <2>2, Pointers
  <2>4. Dist(r, Ungray(fifo_wptr_gray_sync)) <= n  BY Ends DEF NeitherSideOptimistic
  <2>5. Dist(r, Ungray(fifo_wptr_gray_sync)) \in Nat  BY <1>1, <1>2, <2>1, Distances
  <2> HIDE DEF n
  <2> QED  BY <1>2, <2>3, <2>4, <2>5
<1>6. Dist(r, w2) = n + p
  <2>1. CASE incrW  BY <1>1, <1>2, <1>4, <2>1, Step
  <2>2. CASE ~incrW  BY <1>2, <2>2
  <2> QED  BY <2>1, <2>2
<1>7. n2 = n + p - (IF incrR THEN 1 ELSE 0)
  <2>1. CASE incrR
    <3>1. r # w2
      <4>1. Dist(r, w2) >= 1  BY <1>2, <1>5, <1>6, <2>1
      <4>2. Dist(r, r) = 0  BY <1>1, <1>2, Pointers
      <4> QED  BY <4>1, <4>2
    <3>2. Dist(NextPtr(r), w2) = Dist(r, w2) - 1  BY <1>1, <1>2, <1>3, <3>1, Step
    <3>3. r2 = NextPtr(r)  BY <2>1
    <3>4. n2 = Dist(NextPtr(r), w2)  BY <3>3
    <3>5. n \in Int /\ p \in Int  BY <1>2
    <3> HIDE DEF n, p, n2
    <3> QED  BY <1>6, <2>1, <3>2, <3>4, <3>5
  <2>2. CASE ~incrR
    <3>1. r2 = r  BY <2>2
    <3>2. n2 = Dist(r, w2)  BY <3>1
    <3>3. n \in Int /\ p \in Int  BY <1>2
    <3> HIDE DEF n, p, n2
    <3> QED  BY <1>6, <2>2, <3>2, <3>3
  <2> QED  BY <2>1, <2>2
<1>8. p \in {0, 1} /\ n + p \in 0 .. Depth  BY <1>1, <1>2, <1>4
<1>9. w2 = (IF incrW THEN NextPtr(w) ELSE w) /\ r2 = (IF incrR THEN NextPtr(r) ELSE r)
      /\ m2 = IF incrW THEN [m EXCEPT ![Cell(w)] = x] ELSE m
  OBVIOUS
<1>10. Contents = Circle(m, r, n)  BY DEF Contents, Circle
<1>11. Contents' = Circle(m2, r2, n2)  BY DEF Contents, Circle, Cell, Dist
<1>12. Place(r, n) = Cell(w)  BY <1>1, <1>2, PlaceFacts
<1>p. (incrW => p = 1 /\ put = <<x>>) /\ (~incrW => p = 0 /\ put = <<>>)  OBVIOUS
<1> SUFFICES /\ incrR => Contents \o put # <<>> /\ Head(Contents \o put) = m[Cell(r)]
             /\ Contents' = IF incrR THEN Tail(Contents \o put) ELSE Contents \o put
             /\ Len(Contents') <= Depth
  OBVIOUS
<1> HIDE DEF r, w, n, m, m2, r2, w2, n2, p, put
<1>13. Contents \o put = Circle(m2, r, n + p)
  <2>1. CASE incrW
    <3>1. n \in 0 .. Depth - 1  BY <1>1, <1>2, <1>4, <2>1
    <3>2. Circle([m EXCEPT ![Cell(w)] = x], r, n + 1) = Circle(m, r, n) \o <<x>>
      BY <1>1, <1>2, <1>12, <3>1, CirclePut
    <3> QED  BY <1>9, <1>10, <1>p, <2>1, <3>2
  <2>2. CASE ~incrW
    <3>1. Circle(m, r, n) \in Seq(Item)  BY <1>1, <1>2, CircleIsSeq
    <3>2. n + p = n  BY <1>2, <1>p, <2>2
    <3> QED  BY <1>9, <1>10, <1>p, <2>2, <3>1, <3>2, ConcatEmptySeq
  <2> QED  BY <2>1, <2>2
<1>14. n2 \in 0 .. Depth  BY <1>1, <1>2, <1>5, <1>7, <1>8
<1>15. Len(Contents') <= Depth
  <2>1. Len(Circle(m2, r2, n2)) = n2  BY <1>1, <1>3, <1>14, CircleIsSeq
  <2> QED  BY <1>1, <1>11, <1>14, <2>1
<1>16. ASSUME incrR
       PROVE  /\ Contents \o put # <<>> /\ Head(Contents \o put) = m[Cell(r)]
              /\ Contents' = Tail(Contents \o put)
  <2> DEFINE k == n + p
  <2>1. k \in 1 .. Depth  BY <1>2, <1>5, <1>8, <1>16
  <2>k. Contents \o put = Circle(m2, r, k)  BY <1>13
  <2>l. n2 = k - 1  BY <1>2, <1>7, <1>8, <1>16
  <2> HIDE DEF k
  <2>2. /\ Circle(m2, r, k) # <<>> /\ Head(Circle(m2, r, k)) = m2[Cell(r)]
        /\ Tail(Circle(m2, r, k)) = Circle(m2, NextPtr(r), k - 1)
    BY <1>1, <1>2, <1>3, <2>1, CircleTake
  <2>3. m2[Cell(r)] = m[Cell(r)]
    <3>1. CASE incrW
      <4>1. 0 \in 0 .. Depth /\ n \in 0 .. Depth - 1 /\ 0 < n
        BY <1>1, <1>2, <1>4, <1>5, <1>16, <3>1
      <4>2. Place(r, 0) # Place(r, n) /\ Place(r, 0) = Cell(r) /\ Place(r, 0) \in Cells
        BY <1>1, <1>2, <4>1, PlaceFacts
      <4> QED  BY <1>2, <1>9, <1>12, <3>1, <4>2
    <3>2. CASE ~incrW  BY <1>9, <3>2
    <3> QED  BY <3>1, <3>2
  <2>4. r2 = NextPtr(r)  BY <1>9, <1>16
  <2> QED  BY <1>11, <2>k, <2>l, <2>2, <2>3, <2>4
<1>17. ASSUME ~incrR PROVE Contents' = Contents \o put
  <2>1. r2 = r /\ n2 = n + p  BY <1>2, <1>7, <1>8, <1>9, <1>17
  <2> QED  BY <1>11, <1>13, <2>1
<1> QED  BY <1>15, <1>16, <1>17

(* Every step is one of the channel: a put, a take, both or neither.         *)
LEMMA StepIsEdge ==
  ASSUME FifoAssumptions, AsyncInv, AsyncNext PROVE Crossing!Next
<1> SUFFICES \E incrW, incrR \in BOOLEAN, x \in Item :
               LET put == IF incrW THEN <<x>> ELSE <<>>
                   all == Contents \o put
               IN  /\ incrR => all # <<>> /\ Head(all) = storage[Cell(fifo_rptr)]
                   /\ Contents' = IF incrR THEN Tail(all) ELSE all
                   /\ Len(Contents') <= Depth
                   /\ taken' = IF incrR THEN <<storage[Cell(fifo_rptr)]>> ELSE <<>>
  <2>1. PICK incrW \in BOOLEAN, incrR \in BOOLEAN, x \in Item :
               LET put == IF incrW THEN <<x>> ELSE <<>>
                   all == Contents \o put
               IN  /\ incrR => all # <<>> /\ Head(all) = storage[Cell(fifo_rptr)]
                   /\ Contents' = IF incrR THEN Tail(all) ELSE all
                   /\ Len(Contents') <= Depth
                   /\ taken' = IF incrR THEN <<storage[Cell(fifo_rptr)]>> ELSE <<>>
    OBVIOUS
  <2> DEFINE put == IF incrW THEN <<x>> ELSE <<>>
  <2>2. put \in {<<>>} \cup {<<y>> : y \in Item}  OBVIOUS
  <2>3. Crossing!Edge(put, incrR)  BY <2>1 DEF Crossing!Edge
  <2> QED  BY <2>2, <2>3 DEF Crossing!Next
<1>0. AsyncInv'  BY NextKeeps
<1>1. CASE WriteClock
  <2>1. PICK v \in BOOLEAN, x \in Item : WriteEdge(v, x)  BY <1>1 DEF WriteClock
  <2> DEFINE incrW == v /\ wready
  <2>2. incrW \in BOOLEAN /\ FALSE \in BOOLEAN /\ (incrW => wready)  BY DEF wready
  <2>3. /\ fifo_rptr' = IF FALSE THEN NextPtr(fifo_rptr) ELSE fifo_rptr
        /\ fifo_wptr' = IF incrW THEN NextPtr(fifo_wptr) ELSE fifo_wptr
        /\ storage' = IF incrW THEN [storage EXCEPT ![Cell(fifo_wptr)] = x] ELSE storage
        /\ taken' = IF FALSE THEN <<storage[Cell(fifo_rptr)]>> ELSE <<>>
    BY <2>1 DEF WriteEdge, WriteSide, readVars
  <2> HIDE DEF incrW
  <2> QED  BY <1>0, <2>2, <2>3, AsyncEdgeContents
<1>2. CASE ReadClock
  <2>1. PICK rdy \in BOOLEAN : ReadEdge(rdy)  BY <1>2 DEF ReadClock
  <2> DEFINE incrR == rvalid /\ rdy
  <2>2. incrR \in BOOLEAN /\ FALSE \in BOOLEAN /\ (incrR => rvalid)  BY DEF rvalid
  <2>3. PICK x \in Item : TRUE
    <3>1. storage \in [Cells -> Item] /\ 0 \in Cells  BY Parameters DEF AsyncInv, AsyncTypes, Cells
    <3> QED  BY <3>1
  <2>4. /\ fifo_rptr' = IF incrR THEN NextPtr(fifo_rptr) ELSE fifo_rptr
        /\ fifo_wptr' = IF FALSE THEN NextPtr(fifo_wptr) ELSE fifo_wptr
        /\ storage' = IF FALSE THEN [storage EXCEPT ![Cell(fifo_wptr)] = x] ELSE storage
        /\ taken' = IF incrR THEN <<storage[Cell(fifo_rptr)]>> ELSE <<>>
    BY <2>1 DEF ReadEdge, ReadSide, writeVars
  <2> HIDE DEF incrR
  <2> QED  BY <1>0, <2>2, <2>3, <2>4, AsyncEdgeContents
<1>3. CASE Together
  <2>1. PICK v \in BOOLEAN, rdy \in BOOLEAN, x \in Item : BothEdges(v, x, rdy)
    BY <1>3 DEF Together
  <2> DEFINE incrW == v /\ wready
             incrR == rvalid /\ rdy
  <2>2. incrW \in BOOLEAN /\ incrR \in BOOLEAN /\ (incrW => wready) /\ (incrR => rvalid)
    BY DEF wready, rvalid
  <2>3. /\ fifo_rptr' = IF incrR THEN NextPtr(fifo_rptr) ELSE fifo_rptr
        /\ fifo_wptr' = IF incrW THEN NextPtr(fifo_wptr) ELSE fifo_wptr
        /\ storage' = IF incrW THEN [storage EXCEPT ![Cell(fifo_wptr)] = x] ELSE storage
        /\ taken' = IF incrR THEN <<storage[Cell(fifo_rptr)]>> ELSE <<>>
    BY <2>1 DEF BothEdges, WriteSide, ReadSide
  <2> HIDE DEF incrW, incrR
  <2> QED  BY <1>0, <2>2, <2>3, AsyncEdgeContents
<1> QED  BY <1>1, <1>2, <1>3 DEF AsyncNext

(***************************************************************************)
(* Across the two clocks nothing is lost, duplicated or reordered, and     *)
(* storage is read only where it has been written: the FIFO implements     *)
(* FifoChannel.                                                            *)
(***************************************************************************)
THEOREM AsyncIsChannel == ASSUME FifoAssumptions PROVE AsyncSpec => AsyncImplementsChannel
<1>1. AsyncInit => Crossing!Init
  <2> SUFFICES ASSUME AsyncInit PROVE Contents = <<>> /\ taken = <<>>  BY DEF Crossing!Init
  <2>1. fifo_rptr = 0 /\ fifo_wptr = 0 /\ taken = <<>>  BY DEF AsyncInit
  <2>2. Dist(fifo_rptr, fifo_wptr) = 0  BY <2>1, Parameters DEF Dist
  <2> QED  BY <2>1, <2>2 DEF Contents
<1>2. AsyncInv /\ [AsyncNext]_asyncVars => [Crossing!Next]_<<Contents, taken>>
  <2>1. UNCHANGED asyncVars => UNCHANGED <<Contents, taken>>
    BY DEF asyncVars, readVars, writeVars, Contents, Dist, Cell
  <2> QED  BY <2>1, StepIsEdge
<1> QED  BY <1>1, <1>2, AsyncInvariant, PTL DEF AsyncSpec, AsyncImplementsChannel, Crossing!Spec
===============================================================================
