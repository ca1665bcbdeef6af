-------------------------- MODULE RegisterMapProofs --------------------------
(* The address map is disjoint for every description whose sizes do not step  *)
(* back: every entry adds spans between the offset it finds and the offset it *)
(* leaves.  Other numbers, counts and parameters among them, may be negative. *)
EXTENDS RegisterMap, FiniteSetTheorems, TLAPS

-----------------------------------------------------------------------------
(* Arithmetic. *)

\* Multiplying by a natural number keeps the order.
LEMMA TimesMonotonic ==
  ASSUME NEW a \in Nat, NEW b \in Nat, NEW s \in Nat, a <= b
  PROVE  a * s \in Nat /\ b * s \in Nat /\ a * s <= b * s
<1>1. b = a + (b - a) /\ b - a \in Nat
  OBVIOUS
<1>2. b * s = a * s + (b - a) * s /\ (b - a) * s \in Nat
  BY <1>1, SMT
<1> QED
  BY <1>2, SMT

\* The size a window is aligned to is a positive power of two.
LEMMA PowerSize == ASSUME NEW n \in Nat PROVE po2_size(n) \in Nat \ {0}
<1> DEFINE bytes == IF n > 0 THEN n ELSE 1 - n
           logs  == {k \in 0 .. MaxLog : 2 ^ k < bytes}
<1>1. IsFiniteSet(0 .. MaxLog) /\ Cardinality(0 .. MaxLog) = MaxLog + 1
  <2>1. 0 \in Int /\ MaxLog \in Int /\ 0 <= MaxLog /\ MaxLog - 0 + 1 = MaxLog + 1
    BY DEF MaxLog
  <2> HIDE DEF MaxLog
  <2> QED
    BY <2>1, FS_Interval
<1>2. Cardinality(logs) \in Nat /\ Cardinality(logs) <= MaxLog + 1
  <2>1. logs \subseteq 0 .. MaxLog
    OBVIOUS
  <2>2. IsFiniteSet(logs) /\ Cardinality(logs) <= Cardinality(0 .. MaxLog)
    BY <1>1, <2>1, FS_Subset
  <2> QED
    BY <1>1, <2>2, FS_CardinalityType
<1>3. Log2Up(bytes) \in 0 .. MaxLog + 1
  BY <1>2 DEF Log2Up, MaxLog
<1> QED
  BY <1>3, PowersAssumption DEF po2_size

\* Aligning never moves an offset down.
LEMMA AlignUpGrows ==
  ASSUME NEW at \in Nat, NEW size \in Nat \ {0}
  PROVE  AlignUp(at, size) \in Nat /\ AlignUp(at, size) >= at
<1> DEFINE q == at \div size
<1>1. q \in Nat /\ at % size \in 0 .. size - 1 /\ at = q * size + (at % size)
  BY SMT
<1>2. (q + 1) * size = q * size + size
  BY <1>1, SMT
<1>3. q * size \in Nat
  BY <1>1, SMT
<1> QED
  BY <1>1, <1>2, <1>3, SMT DEF AlignUp

-----------------------------------------------------------------------------
(* Keys. *)

\* A required key of a window is there when none is counted as missing.
LEMMA KeysCounted ==
  ASSUME NEW win
  PROVE  /\ check_keys(win, window_required) \in Nat
         /\ check_keys(win, window_required) = 0 => Has(win, "items")
<1>1. IsFiniteSet(window_required)
  <2>1. IsFiniteSet({"name"}) /\ IsFiniteSet({"desc"})
          /\ IsFiniteSet({"items"}) /\ IsFiniteSet({"swaccess"})
    BY FS_Singleton
  <2>2. IsFiniteSet({"name"} \cup {"desc"}) /\ IsFiniteSet({"items"} \cup {"swaccess"})
    BY <2>1, FS_Union
  <2>3. IsFiniteSet(({"name"} \cup {"desc"}) \cup ({"items"} \cup {"swaccess"}))
    BY <2>2, FS_Union
  <2>4. window_required = ({"name"} \cup {"desc"}) \cup ({"items"} \cup {"swaccess"})
    BY DEF window_required
  <2> QED
    BY <2>3, <2>4
<1> DEFINE missing == window_required \ DOMAIN win
<1>2. IsFiniteSet(missing)
  BY <1>1, FS_Difference
<1>3. Cardinality(missing) \in Nat /\ (Cardinality(missing) = 0 => missing = {})
  BY <1>2, FS_CardinalityType, FS_EmptySet
<1> QED
  BY <1>3 DEF check_keys, Has, window_required

-----------------------------------------------------------------------------
(* Laying out spans. *)

\* Spans that lie between the old end and the new one, and do not overlap among
\* themselves, keep the map laid out.
LEMMA Extend ==
  ASSUME NEW spans, NEW next \in Nat, NEW more, NEW end \in Nat, next <= end,
         Laid(spans, next),
         \A p \in more : p.from \in Nat /\ p.to \in Nat
                           /\ next <= p.from /\ p.from < p.to /\ p.to <= end,
         \A p, q \in more : p # q =>
           \/ p.to <= q.from
           \/ q.to <= p.from
           \/ p.kind = "sameaddr" /\ q.kind = "sameaddr" /\ p.base = q.base
  PROVE  Laid(spans \cup more, end)
<1>1. ASSUME NEW p \in spans \cup more
      PROVE  p.from \in Nat /\ p.to \in Nat /\ p.from < p.to /\ p.to <= end
  BY <1>1 DEF Laid
<1>2. ASSUME NEW p \in spans, NEW q \in more
      PROVE  p.to <= q.from
  BY <1>2 DEF Laid
<1>3. ASSUME NEW p \in spans \cup more, NEW q \in spans \cup more, p # q
      PROVE  \/ p.to <= q.from
             \/ q.to <= p.from
             \/ p.kind = "sameaddr" /\ q.kind = "sameaddr" /\ p.base = q.base
  <2>1. CASE p \in spans /\ q \in spans
    BY <2>1, <1>3 DEF Laid
  <2>2. CASE p \in more /\ q \in more
    BY <2>2, <1>3
  <2>3. CASE p \in spans /\ q \in more
    BY <2>3, <1>2
  <2>4. CASE p \in more /\ q \in spans
    BY <2>4, <1>2
  <2> QED
    BY <2>1, <2>2, <2>3, <2>4
<1> QED
  BY <1>1, <1>3 DEF Laid

\* One span is a special case, and so is none.
LEMMA ExtendOne ==
  ASSUME NEW spans, NEW next \in Nat, NEW end \in Nat, Laid(spans, next),
         NEW kind, NEW base, NEW reg, NEW from \in Nat, NEW size \in Nat \ {0},
         next <= from, from + size <= end
  PROVE  Laid(spans \cup {Span(kind, base, from, size, reg)}, end)
<1> DEFINE one == {Span(kind, base, from, size, reg)}
<1>1. \A p \in one : p.from \in Nat /\ p.to \in Nat
                       /\ next <= p.from /\ p.from < p.to /\ p.to <= end
  BY DEF Span
<1>2. \A p, q \in one : p # q =>
        \/ p.to <= q.from
        \/ q.to <= p.from
        \/ p.kind = "sameaddr" /\ q.kind = "sameaddr" /\ p.base = q.base
  OBVIOUS
<1>3. next <= end
  OBVIOUS
<1>4. Laid(spans \cup one, end)
  <2> HIDE DEF one
  <2> QED
    BY <1>1, <1>2, <1>3, Extend
<1> QED
  BY <1>4

LEMMA ExtendNone ==
  ASSUME NEW spans, NEW next \in Nat, NEW end \in Nat, next <= end, Laid(spans, next)
  PROVE  Laid(spans \cup {}, end)
<1>1. spans \cup {} = spans
  OBVIOUS
<1> QED
  BY <1>1 DEF Laid

-----------------------------------------------------------------------------
(* The inductive invariant: when the sizes do not step back, numbers are      *)
(* numbers and the map is laid out.                                           *)

NumbersOK ==
  /\ desc \in Descriptions /\ PositiveSizes
  /\ i \in Nat /\ offset \in Nat /\ (i = 0 => offset = 0)
  /\ \A n \in DOMAIN params : params[n] \in Int

IInv == NumbersOK /\ MapDisjoint

MapInv == desc \in Descriptions /\ (PositiveSizes => IInv)

LEMMA NumberInt ==
  ASSUME NEW x, Number(x)
  PROVE  check_int(x).val \in Int /\ check_int(x).err \in {0, 1}
BY BadIntAssumption DEF Number, check_int

LEMMA WidthNat == ASSUME NumbersOK PROVE fullwidth \in Nat \ {0} /\ addrsep \in Nat \ {0}
                                           /\ BytesPer(fullwidth) \in Nat
<1>1. Number(Get(desc, "regwidth", 32))
  BY DescriptionAssumption DEF NumbersOK
<1>2. fullwidth \in Nat \ {0}
  <2>1. fullwidth \in Int
    <3>1. check_int(Get(desc, "regwidth", 32)).val \in Int
      BY <1>1, NumberInt
    <3> QED
      BY <3>1 DEF fullwidth
  <2>2. fullwidth > 0
    BY DEF NumbersOK, PositiveSizes
  <2> QED
    BY <2>1, <2>2
<1> HIDE DEF fullwidth
<1>3. BytesPer(fullwidth) \in Nat
  BY <1>2, SMT DEF BytesPer
<1>4. fullwidth % 8 = 0 => BytesPer(fullwidth) # 0
  BY <1>2, SMT DEF BytesPer
<1> QED
  BY <1>2, <1>3, <1>4 DEF addrsep

\* The numbers of the entry at hand.
LEMMA EntryNumbers ==
  ASSUME NumbersOK, i \in DOMAIN RegList
  PROVE  /\ Number(Get(Entry, "reserved", 0)) /\ Number(Get(Entry, "skipto", 0))
         /\ Has(Entry, "window") => Number(Get(Entry.window, "items", 0))
         /\ Has(Entry, "multireg") =>
              Number(Get(Get(Entry.multireg, "count", [number |-> 0]), "number", 0))
         /\ check_int(Get(Entry, "reserved", 0)).val >= 0
         /\ Has(Entry, "window") => check_int(Get(Entry.window, "items", 0)).val >= 0
BY DescriptionAssumption DEF NumbersOK, PositiveSizes, Entry, RegList

-----------------------------------------------------------------------------
(* The steps. *)

\* An entry that lays spans between the old offset and the next keeps IInv,
\* given that its parameters are numbers.
LEMMA DoneKeeps ==
  ASSUME IInv, NEW e, NEW next \in Nat, NEW spans, Laid(placed \cup spans, next),
         Done(e, next, spans), \A n \in DOMAIN params' : params'[n] \in Int
  PROVE  IInv'
<1>1. desc' = desc /\ i' = i + 1 /\ offset' = next /\ placed' = placed \cup spans
  BY DEF Done
<1>2. NumbersOK'
  BY <1>1 DEF IInv, NumbersOK, PositiveSizes, fullwidth, RegList
<1>3. MapDisjoint'
  BY <1>1 DEF MapDisjoint
<1> QED
  BY <1>2, <1>3 DEF IInv

LEMMA NothingPlaced ==
  ASSUME IInv, NEW e, NEW next \in Nat, offset <= next,
         Done(e, next, {}), UNCHANGED params
  PROVE  IInv'
<1>1. offset \in Nat /\ Laid(placed, offset) /\ \A n \in DOMAIN params' : params'[n] \in Int
  BY DEF IInv, NumbersOK, MapDisjoint
<1>2. Laid(placed \cup {}, next)
  BY <1>1, ExtendNone
<1> QED
  BY <1>1, <1>2, DoneKeeps

\* A step that leaves the map and the numbers alone.
LEMMA Untouched ==
  ASSUME IInv, UNCHANGED <<desc, i, offset, params, placed>> PROVE IInv'
BY DEF IInv, NumbersOK, MapDisjoint, PositiveSizes, fullwidth, RegList

LEMMA CrashKeeps == ASSUME IInv, Crash PROVE IInv'
BY Untouched DEF Crash

LEMMA InitIInv == Init => MapInv
<1> SUFFICES ASSUME Init, PositiveSizes PROVE IInv
  BY DEF MapInv, Init
<1>1. NumbersOK
  BY DEF Init, NumbersOK
<1>2. MapDisjoint
  BY DEF Init, MapDisjoint, Laid
<1> QED
  BY <1>1, <1>2 DEF IInv

LEMMA ReservedKeeps == ASSUME IInv, Reserved PROVE IInv'
<1> DEFINE n == check_int(Entry.reserved)
<1>1. NumbersOK /\ i \in DOMAIN RegList /\ Has(Entry, "reserved")
  BY DEF IInv, Reserved, Only, Walking
<1>2. Number(Entry.reserved) /\ n.val >= 0
  BY <1>1, EntryNumbers DEF Get
<1>3. n.val \in Nat /\ addrsep \in Nat /\ offset \in Nat
  BY <1>1, <1>2, NumberInt, WidthNat DEF NumbersOK
<1>4. addrsep * n.val \in Nat
  BY <1>3, SMT
<1> DEFINE next == IF n.err = 1 THEN offset ELSE offset + addrsep * n.val
<1>5. next \in Nat /\ offset <= next
  BY <1>3, <1>4
<1>6. Done(n.err, next, {}) /\ UNCHANGED params
  BY DEF Reserved
<1> QED
  <2> HIDE DEF n, next
  <2> QED
    BY <1>5, <1>6, NothingPlaced

LEMMA SkiptoKeeps == ASSUME IInv, Skipto PROVE IInv'
<1> DEFINE to == check_int(Entry.skipto)
<1>1. NumbersOK /\ i \in DOMAIN RegList /\ Has(Entry, "skipto")
  BY DEF IInv, Skipto, Only, Walking
<1>2. Number(Entry.skipto)
  BY <1>1, EntryNumbers DEF Get
<1>3. to.val \in Int /\ offset \in Nat
  BY <1>1, <1>2, NumberInt DEF NumbersOK
<1>4. CASE to.err = 0 /\ SkiptoOk(to.val) /\ Done(0, to.val, {}) /\ UNCHANGED params
  <2>1. offset <= to.val
    BY <1>4 DEF SkiptoOk
  <2> HIDE DEF to
  <2>2. to.val \in Nat
    BY <1>3, <2>1
  <2> QED
    BY <1>4, <2>1, <2>2, NothingPlaced
<1>5. CASE Crash
  BY <1>5, CrashKeeps
<1>6. CASE Done(1, offset, {}) /\ UNCHANGED params
  <2>1. offset <= offset
    BY <1>3
  <2> QED
    BY <1>3, <1>6, <2>1, NothingPlaced
<1> QED
  BY <1>4, <1>5, <1>6 DEF Skipto

LEMMA MixedKeysKeeps == ASSUME IInv, MixedKeys PROVE IInv'
<1>1. offset \in Nat /\ offset <= offset
  BY DEF IInv, NumbersOK
<1>2. Done(check_zero_one_key(Entry), offset, {}) /\ UNCHANGED params
  BY DEF MixedKeys
<1> QED
  BY <1>1, <1>2, NothingPlaced

LEMMA RegisterKeeps == ASSUME IInv, Register PROVE IInv'
<1> DEFINE chk == validate_register(Entry, genrnames)
           one == {Span("reg", i, offset, addrsep, chk.reg)}
<1>1. NumbersOK /\ offset \in Nat /\ Laid(placed, offset)
  BY DEF IInv, NumbersOK, MapDisjoint
<1>2. addrsep \in Nat \ {0} /\ offset + addrsep \in Nat /\ offset < offset + addrsep
  <2>1. addrsep \in Nat \ {0}
    BY <1>1, WidthNat
  <2> QED
    BY <1>1, <2>1
<1>3. CASE chk.crash
  BY <1>3, CrashKeeps DEF Register, PlaceRegister
<1>4. CASE ~chk.crash
  <2>1. Done(chk.error, offset + addrsep, IF chk.placed THEN one ELSE {}) /\ UNCHANGED params
    BY <1>4 DEF Register, PlaceRegister
  <2>2. Laid(placed \cup one, offset + addrsep)
    BY <1>1, <1>2, ExtendOne
  <2>3. Laid(placed \cup {}, offset + addrsep)
    BY <1>1, <1>2, ExtendNone
  <2>4. \A n \in DOMAIN params' : params'[n] \in Int
    BY <1>1, <2>1 DEF NumbersOK
  <2> HIDE DEF chk, one
  <2> QED
    BY <1>2, <2>1, <2>2, <2>3, <2>4, DoneKeeps
<1> QED
  BY <1>3, <1>4

LEMMA SameAddrKeeps == ASSUME IInv, SameAddr PROVE IInv'
<1> DEFINE regs == Entry.sameaddr
           before(k) == genrnames \cup {regs[j].name : j \in {q \in 1 .. k - 1 : Has(regs[q], "name")}}
           chk == [k \in DOMAIN regs |-> validate_register(regs[k], before(k))]
           good == {k \in DOMAIN regs : chk[k].placed}
           spans == {Span("sameaddr", i, offset, addrsep, chk[k].reg) : k \in good}
           e == Total([k \in DOMAIN regs |-> chk[k].error])
<1>1. NumbersOK /\ offset \in Nat /\ Laid(placed, offset)
  BY DEF IInv, NumbersOK, MapDisjoint
<1>2. addrsep \in Nat \ {0} /\ offset + addrsep \in Nat /\ offset < offset + addrsep
  <2>1. addrsep \in Nat \ {0}
    BY <1>1, WidthNat
  <2> QED
    BY <1>1, <2>1
<1>3. CASE \E k \in DOMAIN regs : chk[k].crash
  <2>1. Crash
    BY <1>3 DEF SameAddr, PlaceSameAddr
  <2> QED
    BY <2>1, CrashKeeps
<1>4. CASE ~\E k \in DOMAIN regs : chk[k].crash
  <2>1. Done(e, offset + addrsep, spans) /\ UNCHANGED params
    BY <1>4 DEF SameAddr, PlaceSameAddr
  <2>2. \A p \in spans : p.kind = "sameaddr" /\ p.base = i /\ p.from = offset
                           /\ p.to = offset + addrsep
    <3> HIDE DEF good, chk
    <3> SUFFICES ASSUME NEW k \in good,
                        NEW p, p = Span("sameaddr", i, offset, addrsep, chk[k].reg)
                 PROVE  /\ p.kind = "sameaddr" /\ p.base = i
                        /\ p.from = offset /\ p.to = offset + addrsep
      OBVIOUS
    <3> QED
      BY DEF Span
  <2> HIDE DEF spans, e
  <2>3. Laid(placed \cup spans, offset + addrsep)
    <3>1. \A p \in spans : p.from \in Nat /\ p.to \in Nat
                             /\ offset <= p.from /\ p.from < p.to /\ p.to <= offset + addrsep
      BY <1>1, <1>2, <2>2
    <3>2. \A p, q \in spans : p # q =>
            \/ p.to <= q.from
            \/ q.to <= p.from
            \/ p.kind = "sameaddr" /\ q.kind = "sameaddr" /\ p.base = q.base
      BY <2>2
    <3> QED
      BY <1>1, <1>2, <3>1, <3>2, Extend
  <2>4. \A n \in DOMAIN params' : params'[n] \in Int
    BY <1>1, <2>1 DEF NumbersOK
  <2> QED
    BY <1>2, <2>1, <2>3, <2>4, DoneKeeps
<1> QED
  BY <1>3, <1>4

LEMMA WindowKeeps == ASSUME IInv, Window PROVE IInv'
<1> DEFINE win == validate_window(Entry.window, genrnames)
<1>1. NumbersOK /\ i \in DOMAIN RegList /\ Has(Entry, "window")
        /\ offset \in Nat /\ Laid(placed, offset)
  BY DEF IInv, NumbersOK, MapDisjoint, Window, Only, Walking
<1>2. /\ Number(Get(Entry.window, "items", 0)) /\ BytesPer(fullwidth) \in Nat
      /\ check_int(Get(Entry.window, "items", 0)).val >= 0
  BY <1>1, EntryNumbers, WidthNat
<1>3. UNCHANGED params => \A n \in DOMAIN params' : params'[n] \in Int
  BY <1>1 DEF NumbersOK
<1>4. CASE win.crash
  BY <1>4, CrashKeeps DEF Window
<1>5. CASE ~win.crash /\ ~win.placed
  <2>1. Done(win.error, offset, {}) /\ UNCHANGED params
    BY <1>5 DEF Window
  <2>2. offset <= offset
    BY <1>1
  <2> HIDE DEF win
  <2> QED
    BY <1>1, <2>1, <2>2, NothingPlaced
<1>6. CASE ~win.crash /\ win.placed
  <2>1. /\ Done(win.error, win.from + win.size, {Span("window", i, win.from, win.size, win.reg)})
        /\ UNCHANGED params
    BY <1>6 DEF Window
  <2>2. win.size \in Nat \ {0} /\ win.from \in Nat /\ offset <= win.from
    <3>1. PICK noalign \in BOOLEAN : win.from = WindowAt(offset, win.size, noalign)
      BY <1>6 DEF validate_window
    <3>2. Has(Entry.window, "items")
      <4>1. check_keys(Entry.window, window_required) \in Nat
              /\ (check_keys(Entry.window, window_required) = 0 => Has(Entry.window, "items"))
        BY KeysCounted DEF window_required
      <4>2. check_keys(Entry.window, window_required) = 0
        BY <1>6, <4>1 DEF validate_window
      <4> QED
        BY <4>1, <4>2
    <3>3. Number(Entry.window.items) /\ check_int(Entry.window.items).val >= 0
      BY <1>2, <3>2 DEF Get
    <3>4. win.size = (IF check_int(Entry.window.items).err = 1 THEN 4
                      ELSE check_int(Entry.window.items).val) * BytesPer(fullwidth)
      BY <1>6 DEF validate_window
    <3>5. win.size \in Nat \ {0}
      <4>0. win.size # 0
        BY <1>6 DEF validate_window
      <4>1. (IF check_int(Entry.window.items).err = 1 THEN 4
             ELSE check_int(Entry.window.items).val) \in Nat
        BY <3>3, NumberInt
      <4> QED
        BY <1>2, <3>4, <4>0, <4>1, SMT
    <3> HIDE DEF win
    <3>6. po2_size(win.size) \in Nat \ {0}
      BY <3>5, PowerSize
    <3> QED
      BY <1>1, <3>1, <3>5, <3>6, AlignUpGrows DEF WindowAt
  <2> HIDE DEF win
  <2>3. win.from + win.size \in Nat /\ win.from + win.size <= win.from + win.size
    BY <2>2
  <2>4. Laid(placed \cup {Span("window", i, win.from, win.size, win.reg)}, win.from + win.size)
    BY <1>1, <2>2, <2>3, ExtendOne
  <2> QED
    BY <1>3, <2>1, <2>3, <2>4, DoneKeeps
<1> QED
  BY <1>4, <1>5, <1>6

\* The three interrupt registers lie at the front.
LEMMA IntrLaid ==
  ASSUME NumbersOK, Laid(placed, offset), offset = 0, NEW intrs
  PROVE  /\ addrsep * Len(IntrKinds) \in Nat
         /\ Laid(placed \cup make_intr_regs(intrs), addrsep * Len(IntrKinds))
<1>1. addrsep \in Nat \ {0}
  BY WidthNat
<1>2. Len(IntrKinds) = 3 /\ DOMAIN IntrKinds = 1 .. 3
  BY DEF IntrKinds
<1>3. addrsep * 3 \in Nat /\ \A k \in 1 .. 3 : (k - 1) * addrsep \in Nat
                                    /\ (k - 1) * addrsep + addrsep <= addrsep * 3
  BY <1>1, SMT
<1>4. \A j, k \in 1 .. 3 : j < k => (j - 1) * addrsep + addrsep <= (k - 1) * addrsep
  BY <1>1, SMT
<1> DEFINE reg(k) == make_intr_reg(intrs, IntrKinds[k][1], IntrKinds[k][2], IntrKinds[k][3])
           at(k) == (k - 1) * addrsep
           spans == {Span("reg", 0, at(k), addrsep, reg(k)) : k \in 1 .. 3}
<1>5. make_intr_regs(intrs) = spans
  BY <1>2 DEF make_intr_regs
<1>6. ASSUME NEW p \in spans
      PROVE  \E k \in 1 .. 3 : p = Span("reg", 0, at(k), addrsep, reg(k))
                                 /\ p.from = at(k) /\ p.to = at(k) + addrsep
  <2> HIDE DEF reg, at
  <2> QED
    BY DEF Span
<1>7. \A p \in spans : p.from \in Nat /\ p.to \in Nat
                         /\ offset <= p.from /\ p.from < p.to /\ p.to <= addrsep * 3
  <2> SUFFICES ASSUME NEW p \in spans
               PROVE  p.from \in Nat /\ p.to \in Nat
                         /\ offset <= p.from /\ p.from < p.to /\ p.to <= addrsep * 3
    OBVIOUS
  <2>1. PICK k \in 1 .. 3 : p.from = at(k) /\ p.to = at(k) + addrsep
    BY <1>6
  <2>2. at(k) \in Nat /\ at(k) + addrsep <= addrsep * 3
    BY <1>3
  <2> HIDE DEF at, spans
  <2> QED
    BY <1>1, <2>1, <2>2
<1>8. \A p, q \in spans : p # q =>
        \/ p.to <= q.from
        \/ q.to <= p.from
        \/ p.kind = "sameaddr" /\ q.kind = "sameaddr" /\ p.base = q.base
  <2> SUFFICES ASSUME NEW p \in spans, NEW q \in spans, p # q
               PROVE  p.to <= q.from \/ q.to <= p.from
    OBVIOUS
  <2>1. PICK j \in 1 .. 3 : p = Span("reg", 0, at(j), addrsep, reg(j))
                              /\ p.from = at(j) /\ p.to = at(j) + addrsep
    BY <1>6
  <2>2. PICK k \in 1 .. 3 : q = Span("reg", 0, at(k), addrsep, reg(k))
                              /\ q.from = at(k) /\ q.to = at(k) + addrsep
    BY <1>6
  <2>3. j # k
    BY <2>1, <2>2
  <2>4. j < k \/ k < j
    BY <2>3
  <2>5. (j < k => at(j) + addrsep <= at(k)) /\ (k < j => at(k) + addrsep <= at(j))
    BY <1>4
  <2> HIDE DEF at, spans, reg
  <2> QED
    BY <2>1, <2>2, <2>4, <2>5
<1>9. Laid(placed \cup spans, addrsep * 3)
  <2> HIDE DEF spans
  <2>1. offset \in Nat /\ offset <= addrsep * 3
    BY <1>3
  <2> QED
    BY <1>3, <1>7, <1>8, <2>1, Extend
<1> QED
  BY <1>2, <1>3, <1>5, <1>9

LEMMA StartKeeps == ASSUME IInv, Start PROVE IInv'
<1>1. NumbersOK /\ i = 0 /\ offset = 0 /\ Laid(placed, offset)
  BY DEF IInv, NumbersOK, MapDisjoint, Start
<1>2. CASE TopErrors > 0
  <2>1. UNCHANGED <<desc, i, offset, params, placed>>
    BY <1>2 DEF Start
  <2> QED
    BY <2>1, Untouched
<1>3. CASE ~(TopErrors > 0) /\ WantsIntrRegs /\ ~TooManyIntrs /\ IntrCrash
  <2>1. Crash
    BY <1>3 DEF Start
  <2> QED
    BY <2>1, CrashKeeps
<1>4. CASE ~(TopErrors > 0) /\ ~(WantsIntrRegs /\ ~TooManyIntrs /\ IntrCrash)
  <2> DEFINE list  == Get(desc, "param_list", <<>>)
             at(n) == CHOOSE k \in DOMAIN list : list[k].name = n
             default(n) == Get(list[at(n)], "default", 1)
             intrs == IF WantsIntrRegs /\ ~TooManyIntrs
                        THEN make_intr_regs(desc.interrupt_list) ELSE {}
             e     == check_int(Get(desc, "regwidth", 32)).err
                        + check_bool(Get(desc, "no_auto_intr_regs", "false")).err
                        + (IF WantsIntrRegs /\ TooManyIntrs THEN 1 ELSE 0)
             next  == IF intrs = {} THEN 0 ELSE addrsep * Len(IntrKinds)
  <2>1. /\ params' = [n \in {list[k].name : k \in DOMAIN list} |-> check_int(default(n)).val]
        /\ Done(e, next, intrs)
    BY <1>4 DEF Start
  <2>2. \A n \in DOMAIN params' : params'[n] \in Int
    <3> SUFFICES ASSUME NEW n \in {list[k].name : k \in DOMAIN list}
                 PROVE  check_int(Get(list[at(n)], "default", 1)).val \in Int
      BY <2>1
    <3>1. at(n) \in DOMAIN list
      OBVIOUS
    <3>2. \A k \in DOMAIN list : Number(Get(list[k], "default", 1))
      BY <1>1, DescriptionAssumption DEF NumbersOK
    <3> QED
      BY <3>1, <3>2, NumberInt
  <2>3. next \in Nat /\ Laid(placed \cup intrs, next)
    <3>1. CASE intrs = {}
      <4>1. Laid(placed \cup {}, 0)
        BY <1>1, ExtendNone
      <4> QED
        BY <3>1, <4>1
    <3>2. CASE intrs # {}
      <4>1. intrs = make_intr_regs(desc.interrupt_list)
        BY <3>2
      <4>2. /\ addrsep * Len(IntrKinds) \in Nat
            /\ Laid(placed \cup make_intr_regs(desc.interrupt_list), addrsep * Len(IntrKinds))
        BY <1>1, IntrLaid
      <4> QED
        BY <3>2, <4>1, <4>2
    <3> QED
      BY <3>1, <3>2
  <2> HIDE DEF list, at, default, intrs, e, next
  <2> QED
    BY <2>1, <2>2, <2>3, DoneKeeps
<1> QED
  BY <1>2, <1>3, <1>4

\* The count of a multi-register is a number, and so are the parameters it leaves.
LEMMA CountNumbers ==
  ASSUME NumbersOK, NEW m, Number(Get(Get(m, "count", [number |-> 0]), "number", 0))
  PROVE  /\ check_count(m).val \in Int
         /\ \A n \in DOMAIN check_count(m).params : check_count(m).params[n] \in Int
<1> DEFINE count == Get(m, "count", [number |-> 0])
           number == check_int(Get(count, "number", 0))
           with  == With(params, m.name, number.val)
<1>1. \A n \in DOMAIN params : params[n] \in Int
  BY DEF NumbersOK
<1>2. CASE Has(count, "number")
  <2>1. number.val \in Int
    BY NumberInt
  <2>2. \A n \in DOMAIN with : with[n] \in Int
    <3> HIDE DEF count, number
    <3> QED
      BY <1>1, <2>1 DEF With
  <2>3. /\ check_count(m).val = number.val
        /\ check_count(m).params = IF number.err = 1 \/ m.name \in DOMAIN params
                                    THEN params ELSE with
    BY <1>2 DEF check_count
  <2> HIDE DEF count, number, with
  <2> QED
    BY <1>1, <2>1, <2>2, <2>3
<1>3. CASE ~Has(count, "number") /\ count.param \in DOMAIN params
  <2>1. check_count(m).val = params[count.param] /\ check_count(m).params = params
    BY <1>3 DEF check_count
  <2> QED
    BY <1>1, <1>3, <2>1
<1>4. CASE ~Has(count, "number") /\ count.param \notin DOMAIN params
  <2>1. check_count(m).val = 0 /\ check_count(m).params = params
    BY <1>4 DEF check_count
  <2> QED
    BY <1>1, <2>1
<1> QED
  BY <1>2, <1>3, <1>4

\* However the validation of a multi-register ends, it yields a natural number of
\* registers and parameters that are numbers.
LEMMA MultiNumbers ==
  ASSUME NumbersOK, NEW mreg, NEW names,
         Number(Get(Get(mreg, "count", [number |-> 0]), "number", 0))
  PROVE  LET multi == validate_multi(mreg, names)
         IN  /\ multi.n \in Nat
             /\ \A n \in DOMAIN multi.params : multi.params[n] \in Int
<1> DEFINE multi == validate_multi(mreg, names)
           m     == IF Has(mreg, "name") THEN mreg ELSE With(mreg, "name", <<"MREG_", offset>>)
           count == check_count(m)
<1>1. \A n \in DOMAIN params : params[n] \in Int
  BY DEF NumbersOK
<1>2. Get(m, "count", [number |-> 0]) = Get(mreg, "count", [number |-> 0])
  BY DEF Get, Has, With
<1>3. count.val \in Int /\ \A n \in DOMAIN count.params : count.params[n] \in Int
  <2> HIDE DEF m
  <2> QED
    BY <1>2, CountNumbers
<1>4. ASSUME NEW K
      PROVE  Cardinality({r \in 0 .. count.val - 1 : r * K < count.val}) \in Nat
  <2>1. IsFiniteSet(0 .. count.val - 1)
    BY <1>3, FS_Interval
  <2> QED
    BY <2>1, FS_Subset, FS_CardinalityType
<1>5. multi.params = params \/ multi.params = count.params
  BY DEF validate_multi, GenRegs, MultiOutcome
<1>6. \/ multi.n = 0
      \/ \E K : multi.n = Cardinality({r \in 0 .. count.val - 1 : r * K < count.val})
  <2> DEFINE gen == validate_fields(m.fields, m.name, validate_reg_defaults(m), fullwidth)
             K   == Cardinality(Slots(gen.used))
  <2>1. \/ multi.n = 0
        \/ multi.n = Cardinality({r \in 0 .. count.val - 1 : r * K < count.val})
    BY DEF validate_multi, GenRegs, MultiOutcome
  <2> QED
    BY <2>1
<1>7. multi.n \in Nat /\ \A n \in DOMAIN multi.params : multi.params[n] \in Int
  <2> HIDE DEF multi, count
  <2>1. multi.n \in Nat
    <3>1. CASE multi.n = 0
      BY <3>1
    <3>2. CASE multi.n # 0
      <4>1. PICK K : multi.n = Cardinality({r \in 0 .. count.val - 1 : r * K < count.val})
        BY <1>6, <3>2
      <4>2. Cardinality({r \in 0 .. count.val - 1 : r * K < count.val}) \in Nat
        BY <1>4
      <4> QED
        BY <4>1, <4>2
    <3> QED
      BY <3>1, <3>2
  <2>2. \A n \in DOMAIN multi.params : multi.params[n] \in Int
    BY <1>1, <1>3, <1>5
  <2> QED
    BY <2>1, <2>2
<1> QED
  BY <1>7

LEMMA MultiLaid ==
  ASSUME NumbersOK, Laid(placed, offset), NEW n \in Nat, NEW regs
  PROVE  /\ offset + addrsep * n \in Nat
         /\ Laid(placed \cup {Span("multireg", i, offset + r * addrsep, addrsep, regs[r]) :
                                r \in 0 .. n - 1},
                 offset + addrsep * n)
<1> DEFINE at(r) == offset + r * addrsep
           spans == {Span("multireg", i, at(r), addrsep, regs[r]) : r \in 0 .. n - 1}
<1>1. addrsep \in Nat \ {0} /\ offset \in Nat
  BY WidthNat DEF NumbersOK
<1>2. \A q, r \in Nat : q < r => q * addrsep + addrsep <= r * addrsep
                                   /\ q * addrsep \in Nat /\ r * addrsep \in Nat
  <2> SUFFICES ASSUME NEW q \in Nat, NEW r \in Nat, q < r
               PROVE  q * addrsep + addrsep <= r * addrsep
                        /\ q * addrsep \in Nat /\ r * addrsep \in Nat
    OBVIOUS
  <2>1. q + 1 \in Nat /\ q + 1 <= r
    OBVIOUS
  <2>2. (q + 1) * addrsep <= r * addrsep /\ r * addrsep \in Nat
    BY <1>1, <2>1, TimesMonotonic
  <2>3. q * addrsep \in Nat
    BY <1>1, TimesMonotonic
  <2>4. (q + 1) * addrsep = q * addrsep + addrsep
    BY <1>1, SMT
  <2> QED
    BY <2>2, <2>3, <2>4
<1>3. addrsep * n = n * addrsep /\ addrsep * n \in Nat
  BY <1>1, SMT
<1>4. \A r \in 0 .. n - 1 : at(r) \in Nat /\ offset <= at(r)
                              /\ at(r) + addrsep <= offset + addrsep * n
  BY <1>1, <1>2, <1>3
<1>5. \A q, r \in 0 .. n - 1 : q < r => at(q) + addrsep <= at(r)
  BY <1>1, <1>2
<1>6. ASSUME NEW p \in spans
      PROVE  \E r \in 0 .. n - 1 : p = Span("multireg", i, at(r), addrsep, regs[r])
                                 /\ p.from = at(r) /\ p.to = at(r) + addrsep
  <2> HIDE DEF at
  <2> QED
    BY DEF Span
<1> HIDE DEF at
<1>7. \A p \in spans : p.from \in Nat /\ p.to \in Nat
                         /\ offset <= p.from /\ p.from < p.to /\ p.to <= offset + addrsep * n
  <2> SUFFICES ASSUME NEW p \in spans
               PROVE  p.from \in Nat /\ p.to \in Nat
                         /\ offset <= p.from /\ p.from < p.to /\ p.to <= offset + addrsep * n
    OBVIOUS
  <2>1. PICK r \in 0 .. n - 1 : p.from = at(r) /\ p.to = at(r) + addrsep
    BY <1>6
  <2>2. at(r) \in Nat /\ offset <= at(r) /\ at(r) + addrsep <= offset + addrsep * n
    BY <1>4
  <2> HIDE DEF spans
  <2> QED
    BY <1>1, <2>1, <2>2
<1>8. \A p, q \in spans : p # q =>
        \/ p.to <= q.from
        \/ q.to <= p.from
        \/ p.kind = "sameaddr" /\ q.kind = "sameaddr" /\ p.base = q.base
  <2> SUFFICES ASSUME NEW p \in spans, NEW q \in spans, p # q
               PROVE  p.to <= q.from \/ q.to <= p.from
    OBVIOUS
  <2>1. PICK j \in 0 .. n - 1 : p = Span("multireg", i, at(j), addrsep, regs[j])
                              /\ p.from = at(j) /\ p.to = at(j) + addrsep
    BY <1>6
  <2>2. PICK k \in 0 .. n - 1 : q = Span("multireg", i, at(k), addrsep, regs[k])
                              /\ q.from = at(k) /\ q.to = at(k) + addrsep
    BY <1>6
  <2>3. j < k \/ k < j
    BY <2>1, <2>2
  <2>4. (j < k => at(j) + addrsep <= at(k)) /\ (k < j => at(k) + addrsep <= at(j))
    BY <1>5
  <2> HIDE DEF spans
  <2> QED
    BY <2>1, <2>2, <2>3, <2>4
<1>9. Laid(placed \cup spans, offset + addrsep * n)
  <2> HIDE DEF spans
  <2>1. offset + addrsep * n \in Nat /\ offset <= offset + addrsep * n
    BY <1>1, <1>3
  <2> QED
    BY <1>1, <1>7, <1>8, <2>1, Extend
<1> QED
  BY <1>1, <1>3, <1>9 DEF at

LEMMA MultiRegisterKeeps == ASSUME IInv, MultiRegister PROVE IInv'
<1> DEFINE multi == validate_multi(Entry.multireg, genrnames)
           spans == {Span("multireg", i, offset + r * addrsep, addrsep, multi.regs[r]) :
                       r \in 0 .. multi.n - 1}
<1>1. NumbersOK /\ i \in DOMAIN RegList /\ Has(Entry, "multireg") /\ Laid(placed, offset)
  BY DEF IInv, NumbersOK, MapDisjoint, MultiRegister, Only, Walking
<1>2. CASE multi.crash
  BY <1>2, CrashKeeps DEF MultiRegister, PlaceMulti
<1>3. CASE ~multi.crash
  <2>1. /\ Done(multi.error, offset + addrsep * multi.n, spans)
        /\ params' = multi.params
    BY <1>3 DEF MultiRegister, PlaceMulti
  <2>2. multi.n \in Nat /\ \A n \in DOMAIN multi.params : multi.params[n] \in Int
    BY <1>1, EntryNumbers, MultiNumbers
  <2>3. /\ offset + addrsep * multi.n \in Nat
        /\ Laid(placed \cup spans, offset + addrsep * multi.n)
    <3> HIDE DEF multi
    <3> QED
      BY <1>1, <2>2, MultiLaid
  <2> HIDE DEF multi, spans
  <2> QED
    BY <2>1, <2>2, <2>3, DoneKeeps
<1> QED
  BY <1>2, <1>3

-----------------------------------------------------------------------------

LEMMA NextKeeps == ASSUME IInv, [Next]_vars PROVE IInv'
<1>1. CASE Start
  BY <1>1, StartKeeps
<1>2. CASE MixedKeys
  BY <1>2, MixedKeysKeeps
<1>3. CASE Reserved
  BY <1>3, ReservedKeeps
<1>4. CASE Skipto
  BY <1>4, SkiptoKeeps
<1>5. CASE SameAddr
  BY <1>5, SameAddrKeeps
<1>6. CASE Window
  BY <1>6, WindowKeeps
<1>7. CASE MultiRegister
  BY <1>7, MultiRegisterKeeps
<1>8. CASE Register
  BY <1>8, RegisterKeeps
<1>9. CASE Finish \/ GenRtl \/ GenHeader \/ Stopped \/ UNCHANGED vars
  <2>1. UNCHANGED <<desc, i, offset, params, placed>>
    BY <1>9 DEF Finish, GenRtl, GenHeader, Stopped, vars
  <2> QED
    BY <2>1, Untouched
<1> QED
  BY <1>1, <1>2, <1>3, <1>4, <1>5, <1>6, <1>7, <1>8, <1>9 DEF Next

\* The description does not change, nor does what it says about sizes.
LEMMA NextMapInv == ASSUME MapInv, [Next]_vars PROVE MapInv'
<1>1. desc' = desc
  BY DEF Next, Start, MixedKeys, Reserved, Skipto, SameAddr, PlaceSameAddr, Window, MultiRegister,
         PlaceMulti, Register, PlaceRegister, Done, Crash, Finish, GenRtl, GenHeader, Stopped, vars
<1>2. PositiveSizes' <=> PositiveSizes
  BY <1>1 DEF PositiveSizes, fullwidth, RegList
<1> QED
  BY <1>1, <1>2, NextKeeps DEF MapInv

\* For any list of descriptions, with whatever other numbers in them: when no
\* size steps back, registers and windows take addresses of their own below the
\* offset the walk has reached.
THEOREM MapDisjointAlways == Spec => []MapDisjoint
<1>1. Init => MapInv
  BY InitIInv
<1>2. MapInv /\ [Next]_vars => MapInv'
  BY NextMapInv
<1>3. MapInv => MapDisjoint
  BY DEF MapInv, IInv, MapDisjoint
<1> QED
  BY <1>1, <1>2, <1>3, PTL DEF Spec
=============================================================================
