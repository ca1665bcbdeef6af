---------------------------- MODULE RegisterFields ----------------------------
(***************************************************************************)
(* The register generator's checks of one register's fields, as            *)
(* flow/tools/reggen/validate.py makes them.  An object of the Hjson       *)
(* description is a function from the keys it has to their values.         *)
(*                                                                         *)
(* A bit mask is the set of its bit positions, and so is a value held in   *)
(* bits.  A name is a sequence whose concatenation is the text, case left  *)
(* out: <<"a">> for "a", <<"a", 0>> for "a0".  Text that is no number is   *)
(* BadInt or BadBits, and "error" counts messages as the code does.        *)
(*                                                                         *)
(* A number may be written in quotes or without.  Without, Hjson makes it  *)
(* an int and no check ever looks at it, so that it may be negative; a     *)
(* negative number is always one without quotes, and joining it to the     *)
(* text of a message or shifting by it raises an exception ("crash").      *)
(***************************************************************************)
EXTENDS Integers, Sequences, FiniteSets, SequencesExt

CONSTANTS
  Keywords,      \* names that SystemVerilog reserves
  BadInt         \* text that is no number

ASSUME BadIntAssumption == BadInt \notin Int

BadBits == {-2}
XBits   == {-1}        \* a reset value written as x
NoBits  == {-3}        \* Python's None for a reset value
Below0  == {-4}        \* a negative reset value of a field
None    == "None"      \* Python's None for an access

-----------------------------------------------------------------------------
(* The tables of keys and of permitted values. *)

top_required      == {"name", "clock_primary", "bus_device", "registers"}
list_optone       == {"reserved", "skipto", "sameaddr", "window", "multireg"}
reg_required      == {"name", "desc", "fields"}
window_required   == {"name", "desc", "items", "swaccess"}
multireg_required == {"name", "desc", "count", "cname", "fields"}
field_required    == {"name", "desc", "bits"}
enum_required     == {"name", "desc", "value"}
ln_required       == {"name", "desc"}
lp_required       == {"name"}

\* what the hardware does on a software read and write (SwRdAccess, SwWrAccess)
SwRead  == [ro |-> "RD", rc |-> "RC", rw |-> "RD", r0w1c |-> "NONE",
            rw1s |-> "RD", rw1c |-> "RD", rw0c |-> "RD", wo |-> "NONE"]
SwWrite == [ro |-> "NONE", rc |-> "WR", rw |-> "WR", r0w1c |-> "WR",
            rw1s |-> "WR", rw1c |-> "WR", rw0c |-> "WR", wo |-> "WR"]
swaccess_permitted == DOMAIN SwRead
hwaccess_permitted == {"hro", "hrw", "hwo", "none"}

Has(obj, key)          == key \in DOMAIN obj
Get(obj, key, default) == IF Has(obj, key) THEN obj[key] ELSE default
With(obj, key, value)  == [k \in DOMAIN obj \cup {key} |-> IF k = key THEN value ELSE obj[k]]

\* Keys nobody knows only draw a warning.
check_keys(obj, required) == Cardinality(required \ DOMAIN obj)

check_int(x)  == [val |-> IF x = BadInt THEN 0 ELSE x, err |-> IF x = BadInt THEN 1 ELSE 0]
check_bool(x) == [val |-> x = "true", err |-> IF x \in {"true", "false"} THEN 0 ELSE 1]
check_bits(x) == [val |-> IF x = BadBits THEN {} ELSE x, err |-> IF x = BadBits THEN 1 ELSE 0]

\* More than one key of list_optone, or one of them next to other keys.
check_zero_one_key(obj) ==
  LET seen == Cardinality(DOMAIN obj \cap list_optone)
  IN  IF seen > 1 \/ (seen = 1 /\ Cardinality(DOMAIN obj) > 1)
        THEN Cardinality(DOMAIN obj) ELSE 0

Total(errors) == FoldLeft(LAMBDA sum, e : sum + e, 0, errors)

check_ln(list) ==
  Total([i \in DOMAIN list |-> check_keys(list[i], ln_required)
                                 + check_int(Get(list[i], "width", 1)).err])

check_lp(list) ==
  Total([i \in DOMAIN list |-> check_keys(list[i], lp_required)
                                 + check_int(Get(list[i], "default", 1)).err])

-----------------------------------------------------------------------------
(* Fields. *)

\* bits is <<msb, lsb>>; a range written backwards has no bits
bitmask(bits) == bits[2] .. bits[1]
MaxInField(mask) == 2 ^ Cardinality(mask) - 1

Lsb(field)         == field.bits[2]
Mask(field)        == bitmask(field.bits)
ShiftUp(set, n)    == {b + n : b \in set}
Slice(value, bits) == {b - bits[2] : b \in value \cap bitmask(bits)}
bitfield_add(bits, n) == <<bits[1] + n, bits[2] + n>>

NamedField(field, rname, alone) ==
  IF Has(field, "name") \/ ~alone
    THEN field
    ELSE With(With(field, "name", rname), "desc", Get(field, "desc", "none"))

FieldNameErrors(field, fieldnames) ==
  IF ~Has(field, "name")
    THEN 0
    ELSE (IF field.name \in Keywords THEN 1 ELSE 0)
           + (IF field.name # <<>> /\ field.name \in fieldnames THEN 1 ELSE 0)

\* The access a field gets: its own, else the register's; a bad one counts.
Access(own, default, permitted, fallback) ==
  CASE own = None /\ default = None        -> [val |-> fallback, err |-> 1]
    [] own = None /\ default # None        -> [val |-> default, err |-> 0]
    [] own # None /\ own \in permitted     -> [val |-> own, err |-> 0]
    [] own # None /\ own \notin permitted  -> [val |-> fallback, err |-> 1]

\* mutant
BitErrors_OverlapOk(mask, used, width) ==
  IF mask = {} \/ \E b \in mask : b >= width THEN 1 ELSE 0
BitErrors(mask, used, width) ==
  IF mask = {} \/ mask \cap used # {} \/ \E b \in mask : b >= width THEN 1 ELSE 0

\* The reset value: .val, .x when it is unknown, .err messages.  A negative one
\* is not greater than what the field can hold and is kept.
FieldResval(field, swaccess, full_resval) ==
  LET mask    == Mask(field)
      room    == 0 .. Cardinality(mask) - 1
      given   == check_bits(Get(field, "resval", NoBits))
      value   == given.val \cap room
      default == Slice(full_resval, field.bits)
  IN  CASE given.val = XBits ->
             [val |-> {}, x |-> TRUE, err |-> 0]
        [] given.val = Below0 ->
             [val |-> Below0, x |-> FALSE, err |-> 0]
        [] given.val \notin {XBits, NoBits, Below0} ->
             [val |-> value, x |-> FALSE,
              err |-> given.err + (IF value # given.val THEN 1 ELSE 0)
                        + (IF full_resval # NoBits /\ value # default THEN 1 ELSE 0)]
        [] given.val = NoBits /\ full_resval # NoBits ->
             [val |-> default, x |-> FALSE, err |-> 0]
        [] given.val = NoBits /\ full_resval = NoBits ->
             [val |-> {}, x |-> swaccess = "wo", err |-> 0]

EnumErrors(field) ==
  LET One(entry) ==
        IF check_keys(entry, enum_required) > 0
          THEN check_keys(entry, enum_required)
          ELSE check_int(entry.value).err
                 + (IF check_int(entry.value).val > MaxInField(Mask(field)) THEN 1 ELSE 0)
      entries == Get(field, "enum", <<>>)
  IN  Total([i \in DOMAIN entries |-> One(entries[i])])

\* A negative reset value differs from the register's, which the message about
\* it cannot say; in a field of up to 7 bits a bit is shifted by an enum value.
FieldCrash(field, full_resval) ==
  \/ Get(field, "resval", NoBits) = Below0 /\ full_resval # NoBits
  \/ /\ Cardinality(Mask(field)) <= 7
     /\ \E entry \in Range(Get(field, "enum", <<>>)) :
          check_keys(entry, enum_required) = 0 /\ check_int(entry.value).val < 0

\* One turn of validate_fields' loop.
CheckField(acc, field, ctx) ==
  LET named  == NamedField(field, ctx.rname, ctx.alone)
      nerr   == FieldNameErrors(field, acc.names)
      names  == acc.names \cup (IF Has(field, "name") THEN {field.name} ELSE {})
      absent == check_keys(named, field_required)
      sw     == Access(Get(named, "swaccess", None), ctx.sw, swaccess_permitted, "wo")
      hw     == Access(Get(named, "hwaccess", None), ctx.hw, hwaccess_permitted, "hro")
      mask   == Mask(named)
      res    == FieldResval(named, sw.val, ctx.resval)
      done   == With(With(With(With(With(named, "swaccess", sw.val), "hwaccess", hw.val),
                               "genresval", res.val), "genresvalx", res.x), "hwq", ctx.hwq)
  IN  IF absent > 0
        THEN [acc EXCEPT !.error = @ + nerr + absent, !.names = names,
                         !.fields = Append(@, named)]
        ELSE [crash   |-> acc.crash \/ FieldCrash(named, ctx.resval),
              error   |-> acc.error + nerr + sw.err + hw.err
                            + BitErrors(mask, acc.used, ctx.width) + res.err + EnumErrors(named),
              names   |-> names,
              used    |-> acc.used \cup mask,
              resval  |-> acc.resval \cup (IF res.val = Below0 THEN mask
                                         ELSE ShiftUp(res.val, Lsb(named))),
              resmask |-> IF res.x THEN acc.resmask ELSE acc.resmask \cup mask,
              fields  |-> Append(acc.fields, done)]

\* def: what validate_reg_defaults gives for the register
validate_fields(fields, rname, def, width) ==
  FoldLeft(LAMBDA acc, f :
             CheckField(acc, f, [rname |-> rname, alone |-> Len(fields) = 1, sw |-> def.sw,
                                 hw |-> def.hw, resval |-> def.resval, hwq |-> def.hwq,
                                 width |-> width]),
           [crash |-> FALSE, error |-> 0, names |-> {}, used |-> {}, resval |-> {}, resmask |-> {},
            fields |-> <<>>],
           fields)

-----------------------------------------------------------------------------
(* Defaults a register hands down to its fields. *)

validate_reg_defaults(reg) ==
  LET sw     == Get(reg, "swaccess", None)
      swdef  == IF sw \in swaccess_permitted THEN sw ELSE None
      hw     == Get(reg, "hwaccess", "hro")
      hwdef  == IF hw \in hwaccess_permitted THEN hw ELSE None
      hwext  == check_bool(Get(reg, "hwext", "false"))
      hwqe   == check_bool(Get(reg, "hwqe", "false"))
      hwre   == check_bool(Get(reg, "hwre", "false"))
      resval == check_bits(Get(reg, "resval", NoBits))
      ext    == hwext.err = 0 /\ hwext.val
      \* an external register that software writes tells the hardware so
      forced == ext /\ hwqe.err = 0 /\ ~hwqe.val
  IN  [sw     |-> swdef,
       hw     |-> IF ext /\ hwdef = "hro" /\ swdef \notin {"wo", "r0w1c"} THEN "hrw" ELSE hwdef,
       resval |-> IF resval.err = 0 THEN resval.val ELSE NoBits,
       hwext  |-> ext,
       hwq    |-> {s \in {"qe", "re"} :
                     \/ s = "qe" /\ ((hwqe.err = 0 /\ hwqe.val) \/ (forced /\ sw # "ro"))
                     \/ s = "re" /\ hwre.err = 0 /\ hwre.val /\ ext},
       error  |-> (IF sw # None /\ swdef = None THEN 1 ELSE 0) + (IF hwdef = None THEN 1 ELSE 0)
                    + hwext.err + hwqe.err + hwre.err + resval.err,
       \* reg['swaccess'] is read without asking whether it is there, and a
       \* generated register carries None there
       crash  |-> sw = None /\ (forced \/ Has(reg, "swaccess"))]
=============================================================================
