----------------------------- MODULE RegisterMap -----------------------------
(***************************************************************************)
(* The register generator: validate() of flow/tools/reggen/validate.py     *)
(* walks the list of a description and gives every register and window its *)
(* place; run_reggen (flow/tools/reggen_wrapper.py) raises when errors     *)
(* were counted and otherwise writes the RTL, the C header and the page.   *)
(***************************************************************************)
EXTENDS RegisterFields

CONSTANTS
  Descriptions     \* the descriptions a user may write

\* Numbers are numbers, negative ones included, or text that is none.  Parameters
\* have names of their own, as the RTL package needs them.
Number(x) == x = BadInt \/ x \in Int

ASSUME DescriptionAssumption ==
  \A d \in Descriptions :
    /\ Number(Get(d, "regwidth", 32))
    /\ LET list == Get(d, "param_list", <<>>)
       IN  \A k \in DOMAIN list :
             /\ Number(Get(list[k], "default", 1))
             /\ \A j \in DOMAIN list : list[j].name = list[k].name => j = k
    /\ \A k \in DOMAIN Get(d, "registers", <<>>) :
         LET x == Get(d, "registers", <<>>)[k]
         IN  /\ Number(Get(x, "reserved", 0)) /\ Number(Get(x, "skipto", 0))
             /\ Has(x, "window") => Number(Get(x.window, "items", 0))
             /\ Has(x, "multireg") =>
                  Number(Get(Get(x.multireg, "count", [number |-> 0]), "number", 0))

VARIABLES
  desc,            \* the description
  i,               \* the entry of its register list that comes next
  offset,          \* where the next register would go
  error,           \* errors counted so far
  genrnames,       \* names taken
  genwennames,     \* registers named as write enables, in order
  params,          \* param_list: name to default
  placed,          \* what has a place: .from, .to, .base (the entry), .kind, .reg
  status,          \* "validating", "raised", "validated", "crashed", "generated"
  files            \* the generated files

vars == <<desc, i, offset, error, genrnames, genwennames, params, placed, status, files>>

RegList   == Get(desc, "registers", <<>>)
fullwidth == LET width == check_int(Get(desc, "regwidth", 32))
             IN  IF width.err = 0 THEN width.val ELSE 32
BytesPer(width) == width \div 8
addrsep == IF fullwidth % 8 # 0 THEN BytesPer(fullwidth) + 1 ELSE BytesPer(fullwidth)

Span(kind, base, from, size, reg) ==
  [kind |-> kind, base |-> base, from |-> from, to |-> from + size, reg |-> reg]

-----------------------------------------------------------------------------
(* One register. *)

NameErrors(reg, names) ==
  IF ~Has(reg, "name")
    THEN 0
    ELSE (IF reg.name \in Keywords THEN 1 ELSE 0) + (IF reg.name \in names THEN 1 ELSE 0)

\* A register with top errors above its fields, defaults def and fields gen:
\* when anything is wrong above the fields they are left alone.
Judged(reg, top, def, gen) ==
  LET by(f, g) == f.bits[1] < g.bits[1]
  IN  IF top > 0
        THEN [error |-> top, crash |-> def.crash, placed |-> FALSE, reg |-> reg]
        ELSE [error |-> gen.error, crash |-> def.crash \/ gen.crash, placed |-> TRUE,
              reg |-> [name   |-> reg.name, hwext |-> def.hwext, hwq |-> def.hwq,
                       sw     |-> Get(reg, "swaccess", None),
                       fields |-> IF gen.error = 0 THEN SortSeq(gen.fields, by) ELSE gen.fields,
                       resval |-> gen.resval, resmask |-> gen.resmask, used |-> gen.used,
                       regwen |-> Get(reg, "regwen", <<>>)]]

\* A register object checked: what is wrong, and the register with its fields.
validate_register(reg, names) ==
  LET def == validate_reg_defaults(reg)
  IN  Judged(reg, NameErrors(reg, names) + check_keys(reg, reg_required) + def.error,
             def, validate_fields(reg.fields, reg.name, def, fullwidth))

Named(reg, names) == IF Has(reg, "name") THEN names \cup {reg.name} ELSE names

AddWen(wens, regwen) ==
  IF regwen = <<>> \/ regwen \in Range(wens) THEN wens ELSE Append(wens, regwen)

-----------------------------------------------------------------------------
(* Interrupt registers: one bit field per entry of interrupt_list. *)

Width(intr) == Get(intr, "width", 1)
no_autoi == check_bool(Get(desc, "no_auto_intr_regs", "false")).val
WantsIntrRegs == Has(desc, "interrupt_list") /\ ~no_autoi
TooManyIntrs ==
  Total([k \in DOMAIN desc.interrupt_list |-> Width(desc.interrupt_list[k])]) > fullwidth
\* a mask is shifted by the width
IntrCrash == \E k \in DOMAIN desc.interrupt_list : Width(desc.interrupt_list[k]) < 0

\* The position advances by one whatever the width of the entry.
make_intr_reg(intrs, name, sw, hw) ==
  LET field(k) == [name |-> intrs[k].name, bits |-> <<k - 1 + Width(intrs[k]) - 1, k - 1>>,
                   swaccess |-> sw, hwaccess |-> hw, genresval |-> {}, genresvalx |-> FALSE,
                   hwq |-> IF name = <<"intr_test">> THEN {"qe"} ELSE {}]
      bits     == {k - 1 : k \in DOMAIN intrs}
  IN  [name |-> name, hwext |-> name = <<"intr_test">>,
       hwq |-> IF name = <<"intr_test">> THEN {"qe"} ELSE {}, sw |-> None,
       fields |-> [k \in DOMAIN intrs |-> field(k)],
       resval |-> {}, resmask |-> bits, used |-> bits, regwen |-> <<>>]

IntrKinds == << << <<"intr_state">>, "rw1c", "hrw" >>, << <<"intr_enable">>, "rw", "hro" >>,
                << <<"intr_test">>, "wo", "hro" >> >>

make_intr_regs(intrs) ==
  {Span("reg", 0, (k - 1) * addrsep, addrsep,
        make_intr_reg(intrs, IntrKinds[k][1], IntrKinds[k][2], IntrKinds[k][3])) :
     k \in DOMAIN IntrKinds}

-----------------------------------------------------------------------------
(* Multi-registers. *)

\* The count: .param names a parameter, .number is written in place and makes
\* a parameter with the name of the multi-register.
check_count(mreg) ==
  LET count == Get(mreg, "count", [number |-> 0])
      taken(val, err) == [val |-> val, err |-> err, params |-> params]
      number == check_int(Get(count, "number", 0))
  IN  IF Has(count, "number")
        THEN [taken(number.val, number.err) EXCEPT
                !.params = IF number.err = 1 \/ mreg.name \in DOMAIN params THEN params
                           ELSE With(params, mreg.name, number.val)]
        ELSE IF count.param \in DOMAIN params THEN taken(params[count.param], 0)
        ELSE taken(0, 1)

\* The bit positions at which one register takes copies of the base mask:
\* from bit 0 up, each at the first place where it overlaps no earlier copy.
Slots(used) ==
  FoldLeft(LAMBDA taken, b :
             IF /\ \A u \in ShiftUp(used, b) : u < fullwidth
                /\ \A t \in taken : ShiftUp(used, b) \cap ShiftUp(used, t) = {}
               THEN taken \cup {b} ELSE taken,
           {}, [k \in 1 .. fullwidth |-> k - 1])

\* mutant
Copy_NoResval(field, inum, bpos) ==
  [name |-> field.name \o <<inum>>, desc |-> field.desc, swaccess |-> field.swaccess,
   hwaccess |-> field.hwaccess, bits |-> bitfield_add(field.bits, bpos)]
Copy(field, inum, bpos) ==
  With(With(field, "name", field.name \o <<inum>>), "bits", bitfield_add(field.bits, bpos))

\* The r-th generated register holds the copies r * K, r * K + 1, ...
\* The reset value of the multi-register itself is not handed on.
GenReg(mreg, def, fields, slots, r, count) ==
  LET sorted == SelectSeq([k \in 1 .. fullwidth |-> k - 1], LAMBDA b : b \in slots)
      mine   == [k \in 1 .. Len(sorted) |-> r * Len(sorted) + k - 1]
      copies(k) == [j \in DOMAIN fields |-> Copy(fields[j], mine[k], sorted[k])]
      full   == [k \in {j \in DOMAIN sorted : mine[j] < count} |-> copies(k)]
      reg    == [name |-> mreg.name \o <<r>>, desc |-> mreg.desc, hwaccess |-> def.hw,
                 hwext |-> IF def.hwext THEN "true" ELSE "false",
                 hwqe  |-> IF "qe" \in def.hwq THEN "true" ELSE "false",
                 hwre  |-> IF "re" \in def.hwq THEN "true" ELSE "false",
                 regwen |-> IF Get(mreg, "regwen_incr", "false") = "true" /\ Has(mreg, "regwen")
                              THEN mreg.regwen \o <<r>> ELSE Get(mreg, "regwen", <<>>),
                 fields |-> FlattenSeq(full)]
  IN  With(reg, "swaccess", def.sw)

Suffixed(name, rs) == {name \o <<r>> : r \in rs}

\* The names taken once a multi-register of n registers is done: its own, and
\* the generated ones, but a single register gives its generated name back.
\* mutant
MultiNames_PopsOwn(names, own, n) ==
  names \cup Suffixed(own, 0 .. n - 1) \cup (IF n = 1 THEN {} ELSE {own})
MultiNames(names, own, n) ==
  names \cup {own} \cup (IF n = 1 THEN {} ELSE Suffixed(own, 0 .. n - 1))

\* What comes of a multi-register m with top errors above its fields, defaults
\* def, fields gen and n generated registers, checked one by one in chk.
MultiOutcome(m, names, top, def, gen, count, n, chk) ==
  LET incr   == Get(m, "regwen_incr", "false") = "true" /\ Has(m, "regwen")
      own    == gen.error + count.err
      rs     == 0 .. n - 1
      \* a mask of negative width, or no place for a copy however many registers
      narrow == fullwidth < 0 \/ (fullwidth = 0 /\ count.val > 0)
      bad    == {r \in rs : chk[r].error > 0 \/ chk[r].crash}
      first  == CHOOSE r \in bad : \A q \in bad : r <= q
      ok     == top = 0 /\ own = 0 /\ bad = {}
      \* a single register takes the name and the write enable of its multi-register
      alone(reg) == [reg EXCEPT !.name = m.name, !.regwen = Get(m, "regwen", <<>>)]
  IN  [n      |-> IF ok THEN n ELSE 0,
       regs   |-> IF ok THEN [r \in rs |-> IF n = 1 THEN alone(chk[r].reg) ELSE chk[r].reg]
                  ELSE <<>>,
       crash  |-> \/ top > 0 \/ def.crash \/ gen.crash
                  \/ own = 0 /\ narrow
                  \/ own = 0 /\ bad # {} /\ chk[first].crash,
       error  |-> IF top > 0 THEN top
                  ELSE IF own > 0 THEN own
                  ELSE IF bad # {} THEN chk[first].error
                  ELSE IF n = 1 /\ incr THEN 1 ELSE 0,
       params |-> IF top > 0 THEN params ELSE count.params,
       names  |-> IF top > 0 \/ own > 0 THEN names
                  ELSE IF bad # {} THEN names \cup Suffixed(m.name, 0 .. first)
                  ELSE MultiNames(names, m.name, n)]

GenRegs(m, names, top, def, gen, count) ==
  LET slots == Slots(gen.used)
      n     == Cardinality({r \in 0 .. count.val - 1 : r * Cardinality(slots) < count.val})
  IN  MultiOutcome(m, names, top, def, gen, count, n,
        [r \in 0 .. n - 1 |->
           validate_register(GenReg(m, def, gen.fields, slots, r, count.val),
                             names \cup Suffixed(m.name, 0 .. r - 1))])

\* validate_multi: .error, .crash, .n registers, .regs checked, .names and .params
\* taken.  An error above the fields is returned alone where two values are
\* expected, and the caller's unpacking fails.
validate_multi(mreg, names) ==
  LET m   == IF Has(mreg, "name") THEN mreg ELSE With(mreg, "name", <<"MREG_", offset>>)
      def == validate_reg_defaults(m)
      top == check_keys(m, multireg_required) + def.error
               + (IF Has(m, "regwen") THEN check_bool(Get(m, "regwen_incr", "false")).err ELSE 0)
  IN  GenRegs(m, names, top, def, validate_fields(m.fields, m.name, def, fullwidth), check_count(m))

-----------------------------------------------------------------------------
(* Windows. *)

MaxLog == 29     \* bound: windows of at most 2^30 bytes

ASSUME PowersAssumption == \A k \in 0 .. MaxLog + 1 : 2 ^ k \in Nat \ {0}

\* the least k with n <= 2^k
Log2Up(n) == Cardinality({k \in 0 .. MaxLog : 2 ^ k < n})
\* bit_length leaves the sign away, and no power equals a negative size
po2_size(winsize) == 2 ^ Log2Up(IF winsize > 0 THEN winsize ELSE 1 - winsize)

AlignUp(at, size) == IF at % size = 0 THEN at ELSE (at \div size + 1) * size

WindowAt(at, winsize, noalign) == IF noalign THEN at ELSE AlignUp(at, po2_size(winsize))

\* validate_window: nothing is placed after an error above the sizes.
validate_window(win, names) ==
  LET top    == (IF Has(win, "name") /\ win.name \in names THEN 1 ELSE 0)
                  + check_keys(win, window_required)
      bits   == check_int(Get(win, "validbits", fullwidth))
      items  == check_int(win.items)
      size   == (IF items.err = 1 THEN 4 ELSE items.val) * BytesPer(fullwidth)
      wide   == bits.val > fullwidth
  IN  IF top > 0
        THEN [error |-> top, placed |-> FALSE, crash |-> FALSE]
        ELSE [error |-> bits.err + items.err + (IF wide THEN 1 ELSE 0),
              placed |-> TRUE, crash |-> size = 0, size |-> size,
              from |-> WindowAt(offset, size, Get(win, "noalign", "false") = "true"),
              reg  |-> [name |-> win.name, items |-> win.items, swaccess |-> win.swaccess,
                        validbits |-> IF bits.err = 1 \/ wide THEN fullwidth ELSE bits.val]]

-----------------------------------------------------------------------------
(* The walk over the register list. *)

Entry == RegList[i]
Walking == status = "validating" /\ i \in DOMAIN RegList
Plain == DOMAIN Entry \cap list_optone = {}

\* The entry is done: e more errors, the next offset, what it placed.
Done(e, next, spans) ==
  /\ i' = i + 1
  /\ error' = error + e
  /\ offset' = next
  /\ placed' = placed \cup spans
  /\ UNCHANGED <<desc, status, files>>

Crash == status' = "crashed"
         /\ UNCHANGED <<desc, i, offset, error, genrnames, genwennames, params, placed, files>>

Init ==
  /\ desc \in Descriptions
  /\ i = 0 /\ offset = 0 /\ error = 0
  /\ genrnames = {} /\ genwennames = <<>>
  /\ params = [n \in {} |-> 0]
  /\ placed = {} /\ status = "validating" /\ files = <<>>

TopErrors ==
  check_keys(desc, top_required) + check_ln(Get(desc, "interrupt_list", <<>>))
    + check_lp(Get(desc, "param_list", <<>>))

\* The component's own keys, then the interrupt registers at the front.
Start ==
  /\ status = "validating" /\ i = 0
  /\ IF TopErrors > 0
       THEN /\ status' = "raised" /\ error' = TopErrors
            /\ UNCHANGED <<desc, i, offset, genrnames, genwennames, params, placed, files>>
     ELSE IF WantsIntrRegs /\ ~TooManyIntrs /\ IntrCrash
       THEN Crash
       ELSE LET list  == Get(desc, "param_list", <<>>)
                at(n) == CHOOSE k \in DOMAIN list : list[k].name = n
                intrs  == IF WantsIntrRegs /\ ~TooManyIntrs
                            THEN make_intr_regs(desc.interrupt_list) ELSE {}
            IN  /\ params' = [n \in {list[k].name : k \in DOMAIN list} |->
                                check_int(Get(list[at(n)], "default", 1)).val]
                /\ genrnames' = {IntrKinds[k][1] : k \in IF intrs = {} THEN {} ELSE DOMAIN IntrKinds}
                /\ UNCHANGED genwennames
                /\ Done(check_int(Get(desc, "regwidth", 32)).err
                          + check_bool(Get(desc, "no_auto_intr_regs", "false")).err
                          + (IF WantsIntrRegs /\ TooManyIntrs THEN 1 ELSE 0),
                        IF intrs = {} THEN 0 ELSE addrsep * Len(IntrKinds), intrs)

MixedKeys ==
  /\ Walking /\ check_zero_one_key(Entry) > 0
  /\ Done(check_zero_one_key(Entry), offset, {})
  /\ UNCHANGED <<genrnames, genwennames, params>>

Only(key) == Walking /\ check_zero_one_key(Entry) = 0 /\ Has(Entry, key)

Reserved ==
  /\ Only("reserved")
  /\ LET n == check_int(Entry.reserved)
     IN  Done(n.err, IF n.err = 1 THEN offset ELSE offset + addrsep * n.val, {})
  /\ UNCHANGED <<genrnames, genwennames, params>>

Divides(size, at) == size # 0 /\ at % (IF size > 0 THEN size ELSE -size) = 0

\* mutant
SkiptoOk_Anywhere(to) == Divides(addrsep, to)
SkiptoOk(to) == offset <= to /\ Divides(addrsep, to)

\* A number the message cannot be joined with, or a division by zero.
SkiptoCrash(to) == to < 0 \/ (offset <= to /\ addrsep = 0)

Skipto ==
  /\ Only("skipto")
  /\ LET to == check_int(Entry.skipto)
     IN  \/ /\ to.err = 0 /\ SkiptoOk(to.val)
            /\ Done(0, to.val, {}) /\ UNCHANGED <<genrnames, genwennames, params>>
         \/ /\ to.err = 0 /\ ~SkiptoOk(to.val) /\ SkiptoCrash(to.val)
            /\ Crash
         \/ /\ to.err = 1 \/ ~(SkiptoOk(to.val) \/ SkiptoCrash(to.val))
            /\ Done(1, offset, {}) /\ UNCHANGED <<genrnames, genwennames, params>>

PlaceSameAddr(regs, chk, names) ==
  LET good == {k \in DOMAIN regs : chk[k].placed}
  IN  IF \E k \in DOMAIN regs : chk[k].crash
        THEN Crash
        ELSE /\ Done(Total([k \in DOMAIN regs |-> chk[k].error]), offset + addrsep,
                     {Span("sameaddr", i, offset, addrsep, chk[k].reg) : k \in good})
             /\ genrnames' = names
             /\ genwennames' = FoldLeft(LAMBDA w, k : IF k \in good THEN AddWen(w, chk[k].reg.regwen)
                                                      ELSE w,
                                        genwennames, [k \in DOMAIN regs |-> k])
             /\ UNCHANGED params

\* One register after the other, all at the same offset.
SameAddr ==
  /\ Only("sameaddr")
  /\ LET regs == Entry.sameaddr
         before(k) == genrnames \cup {regs[j].name : j \in {q \in 1 .. k - 1 : Has(regs[q], "name")}}
     IN  PlaceSameAddr(regs, [k \in DOMAIN regs |-> validate_register(regs[k], before(k))],
                       before(Len(regs) + 1))

Window ==
  /\ Only("window")
  /\ LET win == validate_window(Entry.window, genrnames)
     IN  IF win.crash
           THEN Crash
           ELSE /\ IF win.placed
                     THEN Done(win.error, win.from + win.size,
                               {Span("window", i, win.from, win.size, win.reg)})
                     ELSE Done(win.error, offset, {})
                /\ genrnames' = Named(Entry.window, genrnames)
                /\ UNCHANGED <<genwennames, params>>

\* The generated registers lie one after the other.
PlaceMulti(multi) ==
  IF multi.crash
    THEN Crash
    ELSE /\ Done(multi.error, offset + addrsep * multi.n,
                 {Span("multireg", i, offset + r * addrsep, addrsep, multi.regs[r]) :
                    r \in 0 .. multi.n - 1})
         /\ genrnames' = multi.names
         /\ params' = multi.params
         /\ genwennames' = FoldLeft(AddWen, genwennames,
                                    [k \in 1 .. multi.n |-> multi.regs[k - 1].regwen])

MultiRegister ==
  /\ Only("multireg")
  /\ PlaceMulti(validate_multi(Entry.multireg, genrnames))

\* The offset moves on even when nothing is placed.
PlaceRegister(chk) ==
  IF chk.crash
    THEN Crash
    ELSE /\ Done(chk.error, offset + addrsep,
                 IF chk.placed THEN {Span("reg", i, offset, addrsep, chk.reg)} ELSE {})
         /\ genrnames' = Named(Entry, genrnames)
         /\ genwennames' = IF chk.placed THEN AddWen(genwennames, chk.reg.regwen)
                           ELSE genwennames
         /\ UNCHANGED params

Register ==
  /\ Walking /\ check_zero_one_key(Entry) = 0 /\ Plain
  /\ PlaceRegister(validate_register(Entry, genrnames))

-----------------------------------------------------------------------------
(* The end: the write enables, and the outputs. *)

Of(kind, base) == {p \in placed : p.kind = kind /\ p.base = base}
InOrder(spans) ==
  [k \in 1 .. Cardinality(spans) |->
     CHOOSE p \in spans : Cardinality({q \in spans : q.from < p.from}) = k - 1]

\* What may be a write enable: .name, .set (resets to something) and .sw.
\* The interrupt registers are not in the list yet, sameaddr entries never are.
RegisterNames ==
  LET plain(b) == [k \in DOMAIN InOrder(Of("reg", b)) |->
                     LET reg == InOrder(Of("reg", b))[k].reg
                     IN  [name |-> reg.name, set |-> reg.resval # {}, sw |-> reg.sw]]
      fields(p) == [k \in DOMAIN p.reg.fields |->
                      LET f == p.reg.fields[k]
                      IN  [name |-> p.reg.name \o <<"_">> \o f.name, set |-> f.genresval # {},
                           sw |-> f.swaccess]]
      multi(b) == FlattenSeq([k \in DOMAIN InOrder(Of("multireg", b)) |->
                                fields(InOrder(Of("multireg", b))[k])])
  IN  FlattenSeq([b \in DOMAIN RegList |-> plain(b)])
        \o FlattenSeq([b \in DOMAIN RegList |-> multi(b)])

\* A name that is not found is logged and the register found last judged again.
check_wen_regs(names, wens) ==
  FoldLeft(LAMBDA acc, x :
             LET at  == {k \in DOMAIN names : names[k].name = x}
                 idx == IF at = {} THEN acc.idx ELSE CHOOSE k \in at : \A j \in at : k <= j
             IN  [idx |-> idx,
                  error |-> acc.error + (IF names[idx].set THEN 0 ELSE 1)
                              + (IF names[idx].sw \in {"rw0c", "rw1c"} THEN 0 ELSE 1)],
           [idx |-> 1, error |-> 0], wens).error

\* a description whose write enables cannot even be checked: a register without
\* an access, a multi-register that failed, or none at all to look at
FieldErrors(mreg) ==
  validate_fields(mreg.fields, Get(mreg, "name", <<>>), validate_reg_defaults(mreg), fullwidth).error > 0
WenCrash ==
  \/ \E p \in placed : p.kind = "reg" /\ p.base > 0 /\ p.reg.sw = None
  \/ \E k \in DOMAIN RegList :
       /\ Has(RegList[k], "multireg") /\ check_zero_one_key(RegList[k]) = 0
       /\ LET count == check_count(With(RegList[k].multireg, "name", <<>>))
          IN  Of("multireg", k) = {} /\ (count.err = 1 \/ count.val > 0 \/ FieldErrors(RegList[k].multireg))
  \/ RegisterNames = <<>> /\ genwennames # <<>>

gensize == po2_size(offset)

Finish ==
  /\ status = "validating" /\ i = Len(RegList) + 1
  /\ IF WenCrash
       THEN status' = "crashed" /\ UNCHANGED error
       ELSE /\ error' = error + check_wen_regs(RegisterNames, genwennames)
            /\ status' = IF error' = 0 THEN "validated" ELSE "raised"
  /\ UNCHANGED <<desc, i, offset, genrnames, genwennames, params, placed, files>>

\* The RTL generator's view (gen_rtl.py, data.py): what is at which address.
parse_field(reg, f) ==
  [name |-> IF f.name = <<>> /\ Len(reg.fields) = 1 THEN reg.name ELSE f.name,
   lsb |-> Lsb(f), width |-> Cardinality(Mask(f)), resval |-> f.genresval,
   swrdaccess |-> SwRead[f.swaccess], swwraccess |-> SwWrite[f.swaccess],
   hwaccess |-> f.hwaccess, hwq |-> f.hwq, hwext |-> reg.hwext]

parse_reg(p) ==
  [name |-> p.reg.name, offset |-> p.from, regwen |-> p.reg.regwen,
   fields |-> {parse_field(p.reg, f) : f \in Range(p.reg.fields)}]

\* mutant
parse_win_Items(p) ==
  [name |-> p.reg.name, base_addr |-> p.from, limit_addr |-> p.from + p.reg.items]
parse_win(p) ==
  [name |-> p.reg.name, base_addr |-> p.from,
   limit_addr |-> p.from + p.reg.items * BytesPer(fullwidth)]

\* Entries with sameaddr are not supported and left out.
json_to_reg ==
  [regs |-> {parse_reg(p) : p \in {q \in placed : q.kind \in {"reg", "multireg"}}},
   wins |-> {parse_win(p) : p \in {q \in placed : q.kind = "window"}},
   addr_width |-> Log2Up(gensize)]

\* A multi-register of no instances has no first register to copy from, and one
\* without fields no first field.
NoFirst == \E k \in DOMAIN RegList :
             Has(RegList[k], "multireg")
               /\ (Of("multireg", k) = {} \/ RegList[k].multireg.fields = <<>>)

\* A register without fields fails in the template, which is only logged.
TemplateFails == \E p \in placed : p.kind = "reg" /\ p.reg.fields = <<>>

NoRtl == [regs |-> {}, wins |-> {}, addr_width |-> 0]

GenRtl ==
  /\ status = "validated" /\ files = <<>>
  /\ IF NoFirst
       THEN status' = "crashed" /\ UNCHANGED files
       ELSE /\ files' = << IF TemplateFails THEN NoRtl ELSE json_to_reg >>
            /\ UNCHANGED status
  /\ UNCHANGED <<desc, i, offset, error, genrnames, genwennames, params, placed>>

\* The C header (gen_ctheader.py): an address for every register, sameaddr
\* entries included, and place, size and default of every field.
gen_cdefine_register(p) ==
  [name |-> p.reg.name, offset |-> p.from,
   fields |-> {[name |-> f.name, lsb |-> Lsb(f), size |-> Cardinality(Mask(f)),
                default |-> f.genresval] : f \in Range(p.reg.fields)}]

gen_cdefine_window(p) ==
  [name |-> p.reg.name, offset |-> p.from, bytes |-> p.reg.items * BytesPer(fullwidth),
   mask |-> p.reg.validbits]

gen_cdefines ==
  [regs |-> {gen_cdefine_register(p) : p \in {q \in placed : q.kind # "window"}},
   wins |-> {gen_cdefine_window(p) : p \in {q \in placed : q.kind = "window"}}]

\* Negative numbers of bits and negative enum values do not convert.
HeaderCrash ==
  \E p \in placed :
    \/ p.kind = "window" /\ p.reg.validbits < 0 /\ p.reg.validbits # fullwidth
    \/ /\ p.kind # "window"
       /\ \E f \in Range(p.reg.fields) : \E entry \in Range(Get(f, "enum", <<>>)) :
            check_int(entry.value).val < 0

GenHeader ==
  /\ status = "validated" /\ Len(files) = 1
  /\ IF HeaderCrash
       THEN status' = "crashed" /\ UNCHANGED files
       ELSE files' = Append(files, gen_cdefines) /\ status' = "generated"
  /\ UNCHANGED <<desc, i, offset, error, genrnames, genwennames, params, placed>>

Stopped == status \in {"raised", "crashed", "generated"} /\ UNCHANGED vars

Next ==
  \/ Start \/ MixedKeys \/ Reserved \/ Skipto \/ SameAddr \/ Window \/ MultiRegister \/ Register
  \/ Finish \/ GenRtl \/ GenHeader \/ Stopped

Spec == Init /\ [][Next]_vars

-----------------------------------------------------------------------------
(* Properties. *)

Rtl    == files[1]
Header == files[2]
Valid  == status \in {"validated", "generated"}

\* No size in the description steps back: registers have bits, no negative
\* number of them is reserved and no window has a negative number of words.
\* check_int lets such numbers through, and no later check finds them.
PositiveSizes ==
  /\ fullwidth > 0
  /\ \A k \in DOMAIN RegList :
       /\ check_int(Get(RegList[k], "reserved", 0)).val >= 0
       /\ Has(RegList[k], "window") => check_int(Get(RegList[k].window, "items", 0)).val >= 0

\* Everything placed takes addresses below next, and two things share one only
\* when they are the entries of one sameaddr list.
Laid(spans, next) ==
  /\ \A p \in spans : p.from \in Nat /\ p.to \in Nat /\ p.from < p.to /\ p.to <= next
  /\ \A p, q \in spans :
       p # q => \/ p.to <= q.from
                \/ q.to <= p.from
                \/ p.kind = "sameaddr" /\ q.kind = "sameaddr" /\ p.base = q.base

\* The address map, at every point of the walk: registers and windows never
\* overlap and lie below the next offset, in a description whose sizes do not
\* step back (validate(), validate_window, validate_multi, make_intr_regs).
MapDisjoint == PositiveSizes => Laid(placed, offset)

\* an interrupt register with an entry of other than one bit: make_intr_reg goes on
\* one bit further whatever the width
UnevenIntr(p) ==
  p.base = 0 /\ \E n \in DOMAIN desc.interrupt_list : Width(desc.interrupt_list[n]) # 1

\* In a description that passed validation the fields of a register share no
\* bit and lie within its width, and a field resets to a value it can hold.
\* Excepted are interrupt registers with an entry of other than one bit, and
\* reset values written as negative numbers, which no check refuses.
FieldsFit ==
  Valid => \A p \in placed :
    p.kind = "window" \/ UnevenIntr(p) \/ LET fields == p.reg.fields IN
      /\ \A k \in DOMAIN fields :
           /\ Mask(fields[k]) # {}
           /\ \/ fields[k].genresval = Below0
              \/ ShiftUp(fields[k].genresval, Lsb(fields[k])) \subseteq Mask(fields[k])
           /\ Mask(fields[k]) \subseteq 0 .. fullwidth - 1
      /\ \A j, k \in DOMAIN fields :
           j < k => Mask(fields[j]) \cap Mask(fields[k]) = {}

\* A multi-register of n instances with k fields gives each of its n * k copies
\* exactly one place, with the shape of its original and, where the original
\* has one of its own, its reset value.
MultiregComplete ==
  Valid => \A b \in DOMAIN RegList :
    Has(RegList[b], "multireg") =>
      LET mreg   == RegList[b].multireg
          count  == check_count(With(mreg, "name", <<>>)).val
          copies == UNION {{<<p, f>> : f \in Range(p.reg.fields)} : p \in Of("multireg", b)}
      IN  /\ Cardinality(copies) = Cardinality(0 .. count - 1) * Len(mreg.fields)
          /\ \A k \in DOMAIN mreg.fields, inum \in 0 .. count - 1 :
               LET field == mreg.fields[k]
                   name  == Get(field, "name", mreg.name) \o <<inum>>
                   mine  == {c \in copies : c[2].name = name}
               IN  /\ Cardinality(mine) = 1
                   /\ \A c \in mine :
                        /\ Cardinality(Mask(c[2])) = Cardinality(Mask(field))
                        /\ Has(field, "resval") /\ field.resval # XBits
                             => c[2].genresval = field.resval

\* Software and hardware agree: each register of the C header is the one the
\* RTL decodes at that address, field by field, and the address bits of the RTL
\* reach it.  Entries with sameaddr are missing from the RTL, and all of it is
\* when a register without fields made the template fail.  Sizes that step
\* back are excepted: the address bits are those of the last offset.
HeaderMatchesRtl ==
  status = "generated" /\ ~TemplateFails /\ PositiveSizes =>
    /\ \A h \in Header.regs :
         \/ \E p \in placed : p.kind = "sameaddr" /\ p.from = h.offset
         \/ /\ h.offset < 2 ^ Rtl.addr_width
            /\ \E r \in Rtl.regs :
                 /\ r.offset = h.offset /\ r.name = h.name
                 /\ \A f \in h.fields : \E g \in r.fields :
                      g.lsb = f.lsb /\ g.width = f.size /\ g.resval = f.default
            /\ \A w \in Rtl.wins : h.offset < w.base_addr \/ h.offset >= w.limit_addr
    /\ \A h \in Header.wins : \E w \in Rtl.wins :
         h.offset = w.base_addr /\ h.offset + h.bytes = w.limit_addr
           /\ w.limit_addr <= 2 ^ Rtl.addr_width

\* the only register of a multi-register, which takes its name
TakesOwnName(p) == p.kind = "multireg" /\ Of("multireg", p.base) = {p}

\* In a description that passed validation names identify registers and
\* windows.  Excepted is the later of two entries when it is the only register
\* of a multi-register: validate_multi never asks whether its name was taken.
NamesUnique ==
  Valid => \A p, q \in placed :
    p # q /\ p.base <= q.base /\ p.reg.name = q.reg.name => p.base < q.base /\ TakesOwnName(q)

\* "An error is reported if REGWEN does not exist, contains more than one bit, is
\* not `rw1c` or does not default to 1" (flow/tools/reggen/gen_selfdoc.py:175).
RegwenErrorReported ==
  Valid => \A k \in DOMAIN genwennames : \E p \in placed :
    /\ p.kind # "window"
    /\ \/ p.reg.name = genwennames[k]
       \/ \E f \in Range(p.reg.fields) : p.reg.name \o <<"_">> \o f.name = genwennames[k]
=============================================================================
