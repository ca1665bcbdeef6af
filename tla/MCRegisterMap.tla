--------------------------- MODULE MCRegisterMap ---------------------------
(* Descriptions of up to three entries, drawn from the kinds of entry that the *)
(* walk tells apart, in registers of 8 and of 32 bits.                         *)
EXTENDS RegisterMap, RegisterPage

CONSTANTS MaxEntries

Field(name, msb, lsb) == [name |-> <<name>>, desc |-> "d", bits |-> <<msb, lsb>>]
Reg(name, fields)     == [name |-> name, desc |-> "d", swaccess |-> "rw", hwaccess |-> "hrw",
                          fields |-> fields]
Multi(name, number, fields) ==
  Reg(name, fields) @@ [cname |-> "c", count |-> [number |-> number]]

Fields ==
  {<<Field("f", 0, 0)>>,
   <<Field("g", 7, 4), With(Field("f", 1, 1), "resval", {0})>>,
   <<Field("f", 2, 0), Field("g", 3, 2)>>,                       \* overlap
   <<With(Field("f", 1, 0), "resval", {2})>>,                    \* too large a reset value
   <<Field("reg", 0, 0)>>, << >>}

\* fields at and over the line breaks of a wide picture
TallFields ==
  {<<Field("g", 20, 16), Field("f", 15, 8)>>, <<Field("g", 19, 12), Field("f", 3, 2)>>,
   <<Field("f", 17, 16)>>, <<Field("g", 63, 32), Field("f", 31, 0)>>}

Registers ==
  {Reg(<<"a">>, fs) : fs \in Fields}
    \cup {Reg(<<"a", 0>>, <<Field("f", 0, 0)>>),
          [name |-> <<"a">>, fields |-> <<>>],                    \* no description
          With(Reg(<<"b">>, <<Field("f", 0, 0)>>), "regwen", <<"w">>),
          With(Reg(<<"x">>, <<Field("f", 0, 0)>>), "regwen", <<"gone">>),
          [name |-> <<"w">>, desc |-> "d", swaccess |-> "rw1c",
           fields |-> <<[bits |-> <<0, 0>>, resval |-> {0}]>>],
          [name |-> <<"c">>, desc |-> "d", fields |-> <<With(Field("f", 0, 0), "swaccess", "ro")>>],
          With(With(Reg(<<"d">>, <<Field("f", 3, 2), Field("h", 1, 1)>>), "resval", {1, 2}),
               "hwext", "true"),
          With(With(Reg(<<"e">>, <<With(Field("f", 6, 3), "enum",
                                        <<[name |-> "x", desc |-> "d", value |-> 15]>>)>>),
                    "resval", {3}), "hwqe", "true")}

Multis ==
  {[multireg |-> m] : m \in
    {Multi(<<"a">>, 1, <<Field("f", 0, 0)>>),
     Multi(<<"m">>, 3, <<Field("f", 2, 0), With(Field("g", 4, 4), "resval", {0})>>),
     Multi(<<"m">>, 9, <<Field("f", 1, 1)>>),
     With(Multi(<<"m">>, 2, <<Field("f", 5, 4), Field("g", 2, 0)>>), "resval", {0, 4}),
     With(Multi(<<"m">>, 1, <<Field("f", 2, 0)>>), "count", [param |-> <<"N">>]),
     With(Multi(<<"m">>, 0, <<Field("f", 0, 0)>>), "cname", "c"),
     With(With(Multi(<<"m">>, 9, <<Field("f", 0, 0)>>), "regwen", <<"w">>), "regwen_incr", "true"),
     [name |-> <<"m">>, desc |-> "d"]}}

Windows ==
  {[window |-> [name |-> <<"win">>, desc |-> "d", swaccess |-> "rw", items |-> n]] : n \in {1, 3, 0}}
    \cup {[window |-> [name |-> <<"v">>, desc |-> "d", swaccess |-> "ro", items |-> 2,
                       noalign |-> "true", validbits |-> 4]],
          [window |-> [name |-> <<"a">>, desc |-> "d", items |-> 2]]}

Others ==
  {[reserved |-> 1], [reserved |-> BadInt], [skipto |-> 8], [skipto |-> 3],
   [skipto |-> 4, reserved |-> 1],
   [sameaddr |-> <<Reg(<<"s">>, <<Field("f", 0, 0)>>), Reg(<<"t">>, <<Field("f", 1, 0)>>)>>]}

Entries == Registers \cup Multis \cup Windows \cup Others

Component(entries, width) ==
  [name |-> "c", clock_primary |-> "clk", bus_device |-> "tlul", registers |-> entries,
   regwidth |-> width, param_list |-> <<[name |-> <<"N">>, default |-> 4]>>]

\* numbers without quotes that are negative, and registers without bits
Negatives ==
  {[reserved |-> -1], [reserved |-> -2], [skipto |-> -1], [skipto |-> -2],
   [window |-> [name |-> <<"win">>, desc |-> "d", swaccess |-> "rw", items |-> -3]],
   [window |-> [name |-> <<"win">>, desc |-> "d", swaccess |-> "rw", items |-> 1, validbits |-> -1]],
   [multireg |-> Multi(<<"m">>, -1, <<Field("f", 0, 0)>>)],
   [multireg |-> Multi(<<"m">>, BadInt, <<Field("f", 0, 0)>>)],
   [multireg |-> Multi(<<"m">>, 1, <<>>)],
   Reg(<<"n">>, <<With(Field("f", 3, 0), "resval", Below0)>>),
   With(Reg(<<"n">>, <<With(Field("f", 3, 0), "resval", Below0)>>), "resval", {0, 1, 2, 3}),
   Reg(<<"n">>, <<With(Field("f", 6, 0), "enum", <<[name |-> "x", desc |-> "d", value |-> -1]>>)>>),
   Reg(<<"n">>, <<With(Field("f", 7, 0), "enum", <<[name |-> "x", desc |-> "d", value |-> -1]>>)>>)}

SteppingBack == {Reg(<<"a">>, <<Field("f", 0, 0)>>), Reg(<<"q">>, <<>>)} \cup Windows

Intrs(widths) ==
  [k \in DOMAIN widths |-> [name |-> <<"i", k>>, desc |-> "d", width |-> widths[k]]]

MCDescriptions ==
  {Component(es, 8) : es \in UNION {[1 .. n -> Entries] : n \in 0 .. MaxEntries}}
    \cup {Component(<<e, f>>, w) : e \in Entries, f \in Multis \cup Windows, w \in {12, 32}}
    \cup {Component(<<e, [skipto |-> 0], f>>, 8) : e \in Entries, f \in Multis \cup Windows}
    \cup {Component(<<Reg(<<"p">>, fs)>>, w) : fs \in TallFields, w \in {32, 64}}
    \cup {With(Component(<<e>>, 8), "interrupt_list", Intrs(ws)) :
            e \in Entries, ws \in {<<1, 1>>, <<2, 1>>, <<8, 1>>, <<0, 1>>, <<-1, 1>>}}
    \cup {Component(<<a, n, b>>, w) :
            a \in SteppingBack, n \in Negatives, b \in SteppingBack, w \in {8, 0, -8}}
    \cup {With(Component(<<>>, 8), "no_auto_intr_regs", "true") @@ [interrupt_list |-> Intrs(<<1>>)],
          [name |-> "c", registers |-> <<>>]}

MCKeywords == {<<"reg">>}

\* The page of every register of an accepted description: its picture and its
\* table show every bit once, apart from bit 0 below a lowest field at bit 1.
\* Excepted are interrupt registers with an entry of other than one bit.
PageShowsFields ==
  Valid => \A p \in placed :
    p.kind = "window" \/ UnevenIntr(p)
      \/ /\ PictureShows(p.reg, fullwidth)
         /\ TableCovers(p.reg, IF p.kind # "multireg" THEN NoBits
                               ELSE UNION {Mask(f) : f \in Range(RegList[p.base].multireg.fields)})
=============================================================================
