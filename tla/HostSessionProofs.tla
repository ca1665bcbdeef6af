-------------------------- MODULE HostSessionProofs --------------------------
(***************************************************************************)
(* What holds in every session, whatever the size of the rings, the length *)
(* of the program and the number of keys.                                  *)
(*                                                                         *)
(* The script is 36 or 37 commands long; ScriptLines says what stands at   *)
(* each line, so that Scripted can tie the line to the state of the hart   *)
(* and to the words already cleared.  The rings are followed by distances  *)
(* from the reader's place: Outputs says what every place between the last *)
(* character printed and the last one stored holds, Draining that what the *)
(* host has read of it stays true, Inputs the same of the keys.            *)
(***************************************************************************)
EXTENDS HostSession, SequenceTheorems, TLAPS

-----------------------------------------------------------------------------
(* The lines of the script, one by one. *)
dmi(field) == <<"dmi", field>>
poll == <<"poll", "allhavereset">>
write(at, value) == <<"write", at, value>>
word(name) == <<name>>

Words == {"flags", "retval", "obuf_widx", "obuf_ridx", "ibuf_widx", "ibuf_ridx"}
Commands ==
  {dmi(field) : field \in {{}, {"ackhavereset"}, {"setresethaltreq"}, {"clrresethaltreq"}, {"ndmreset"}}}
    \cup {write(at, 0) : at \in Words} \cup {write("ddr_ctrl", value) : value \in {0, 1}}
    \cup {poll}
    \cup {word(name) : name \in {"arp_examine", "load_image", "reg_pc", "set_mem_access_sysbus",
                                 "resume", "enter_loop", "await_calibration", "announce", "load_data"}}

(* What joining two stretches of a script gives. *)
IsJoin(r, s, t) ==
  /\ Len(r) = Len(s) + Len(t)
  /\ \A i \in 1 .. Len(s) + Len(t) : r[i] = IF i <= Len(s) THEN s[i] ELSE t[i - Len(s)]
LEMMA Joined ==
  ASSUME NEW s \in Seq(Commands), NEW t \in Seq(Commands)
  PROVE  s \o t \in Seq(Commands) /\ IsJoin(s \o t, s, t)
<1> DEFINE r == s \o t
<1>1. /\ r \in Seq(Commands) /\ Len(r) = Len(s) + Len(t)
      /\ \A i \in 1 .. Len(s) + Len(t) : r[i] = IF i <= Len(s) THEN s[i] ELSE t[i - Len(s)]
  BY ConcatProperties
<1> HIDE DEF r
<1>2. r \in Seq(Commands) /\ IsJoin(r, s, t)
  BY <1>1 DEF IsJoin
<1>3. QED BY <1>2 DEF r

(* The reset of the hart into debug mode takes twelve commands. *)
LEMMA ResetHaltLines ==
  LET r == reset_halt_rvlab_cpu
  IN  /\ r \in Seq(Commands) /\ Len(r) = 12
      /\ \A i \in {1, 3, 5, 8, 10, 12} : r[i] = dmi({})
      /\ r[2] = dmi({"ackhavereset"}) /\ r[4] = dmi({"setresethaltreq"})
      /\ r[6] = dmi({"ndmreset"}) /\ r[7] = poll
      /\ r[9] = dmi({"ackhavereset"}) /\ r[11] = dmi({"clrresethaltreq"})
<1> DEFINE a == dm_start \o dm_ackhavereset
           b == a \o dm_set_resethaltreq
           c == b \o dm_ndmreset
           d == c \o dm_ackhavereset
           e == d \o dm_clear_resethaltreq
<1>1. dm_start \in Seq(Commands) /\ Len(dm_start) = 1 /\ dm_start[1] = dmi({})
  BY DEF dm_start, Commands, dmi
<1>2. /\ dm_ackhavereset \in Seq(Commands) /\ Len(dm_ackhavereset) = 2
      /\ dm_ackhavereset[1] = dmi({"ackhavereset"}) /\ dm_ackhavereset[2] = dmi({})
  BY DEF dm_ackhavereset, Pulse, Commands, dmi
<1>3. /\ dm_set_resethaltreq \in Seq(Commands) /\ Len(dm_set_resethaltreq) = 2
      /\ dm_set_resethaltreq[1] = dmi({"setresethaltreq"}) /\ dm_set_resethaltreq[2] = dmi({})
  BY DEF dm_set_resethaltreq, Pulse, Commands, dmi
<1>4. /\ dm_clear_resethaltreq \in Seq(Commands) /\ Len(dm_clear_resethaltreq) = 2
      /\ dm_clear_resethaltreq[1] = dmi({"clrresethaltreq"}) /\ dm_clear_resethaltreq[2] = dmi({})
  BY DEF dm_clear_resethaltreq, Pulse, Commands, dmi
<1>5. /\ dm_ndmreset \in Seq(Commands) /\ Len(dm_ndmreset) = 3
      /\ dm_ndmreset[1] = dmi({"ndmreset"}) /\ dm_ndmreset[2] = poll
      /\ dm_ndmreset[3] = dmi({})
  BY DEF dm_ndmreset, Pulse, Commands, dmi, poll
<1>6. a \in Seq(Commands) /\ IsJoin(a, dm_start, dm_ackhavereset)
  BY <1>1, <1>2, Joined
<1> HIDE DEF a
<1>7. b \in Seq(Commands) /\ IsJoin(b, a, dm_set_resethaltreq)
  BY <1>3, <1>6, Joined
<1> HIDE DEF b
<1>8. c \in Seq(Commands) /\ IsJoin(c, b, dm_ndmreset)
  BY <1>5, <1>7, Joined
<1> HIDE DEF c
<1>9. d \in Seq(Commands) /\ IsJoin(d, c, dm_ackhavereset)
  BY <1>2, <1>8, Joined
<1> HIDE DEF d
<1>10. e \in Seq(Commands) /\ IsJoin(e, d, dm_clear_resethaltreq)
  BY <1>4, <1>9, Joined
<1>11. e = reset_halt_rvlab_cpu
  BY DEF reset_halt_rvlab_cpu, a, b, c, d
<1> HIDE DEF e
<1>12. Len(a) = 3 /\ Len(b) = 5 /\ Len(c) = 8 /\ Len(d) = 10 /\ Len(e) = 12
  BY <1>1, <1>2, <1>3, <1>4, <1>5, <1>6, <1>7, <1>8, <1>9, <1>10 DEF IsJoin
<1>13. a[1] = dmi({}) /\ a[2] = dmi({"ackhavereset"}) /\ a[3] = dmi({})
  BY <1>1, <1>2, <1>6 DEF IsJoin
<1>14. b[1] = a[1] /\ b[2] = a[2] /\ b[3] = a[3] /\ b[4] = dmi({"setresethaltreq"}) /\ b[5] = dmi({})
  BY <1>3, <1>7, <1>12 DEF IsJoin
<1>15. /\ \A i \in 1 .. 5 : c[i] = b[i]
       /\ c[6] = dmi({"ndmreset"}) /\ c[7] = poll /\ c[8] = dmi({})
  BY <1>5, <1>8, <1>12 DEF IsJoin
<1>16. (\A i \in 1 .. 8 : d[i] = c[i]) /\ d[9] = dmi({"ackhavereset"}) /\ d[10] = dmi({})
  BY <1>2, <1>9, <1>12 DEF IsJoin
<1>17. (\A i \in 1 .. 10 : e[i] = d[i]) /\ e[11] = dmi({"clrresethaltreq"}) /\ e[12] = dmi({})
  BY <1>4, <1>10, <1>12 DEF IsJoin
<1>18. QED BY <1>10, <1>11, <1>12, <1>13, <1>14, <1>15, <1>16, <1>17

(* The six writes that clear the words of hostio. *)
Cleared == <<"flags", "retval", "obuf_widx", "obuf_ridx", "ibuf_widx", "ibuf_ridx">>
LEMMA ClearLines ==
  /\ hostio_clear \in Seq(Commands) /\ Len(hostio_clear) = 6
  /\ \A i \in 1 .. 6 : hostio_clear[i] = write(Cleared[i], 0)
<1> DEFINE w(at) == << write(at, 0) >>
           a == w("flags") \o w("retval")
           b == a \o w("obuf_widx")
           c == b \o w("obuf_ridx")
           d == c \o w("ibuf_widx")
           e == d \o w("ibuf_ridx")
<1>1. ASSUME NEW at \in Words
      PROVE  w(at) \in Seq(Commands) /\ Len(w(at)) = 1 /\ w(at)[1] = write(at, 0)
  <2>1. write(at, 0) \in Commands
    BY DEF Commands
  <2> HIDE DEF Words
  <2>2. QED BY <2>1
<1>2. hostio_clear = e
  BY DEF hostio_clear, writeword, write
<1>3. /\ "flags" \in Words /\ "retval" \in Words /\ "obuf_widx" \in Words
      /\ "obuf_ridx" \in Words /\ "ibuf_widx" \in Words /\ "ibuf_ridx" \in Words
  BY DEF Words
<1> HIDE DEF w
<1>4. /\ a \in Seq(Commands) /\ IsJoin(a, w("flags"), w("retval"))
  BY <1>1, <1>3, Joined
<1> HIDE DEF a
<1>5. Len(a) = 2 /\ a[1] = write("flags", 0) /\ a[2] = write("retval", 0)
  BY <1>1, <1>3, <1>4 DEF IsJoin
<1>6. b \in Seq(Commands) /\ IsJoin(b, a, w("obuf_widx"))
  BY <1>1, <1>3, <1>4, Joined
<1> HIDE DEF b
<1>7. Len(b) = 3 /\ b[1] = a[1] /\ b[2] = a[2] /\ b[3] = write("obuf_widx", 0)
  BY <1>1, <1>3, <1>5, <1>6 DEF IsJoin
<1>8. c \in Seq(Commands) /\ IsJoin(c, b, w("obuf_ridx"))
  BY <1>1, <1>3, <1>6, Joined
<1> HIDE DEF c
<1>9. Len(c) = 4 /\ c[1] = b[1] /\ c[2] = b[2] /\ c[3] = b[3] /\ c[4] = write("obuf_ridx", 0)
  BY <1>1, <1>3, <1>7, <1>8 DEF IsJoin
<1>10. d \in Seq(Commands) /\ IsJoin(d, c, w("ibuf_widx"))
  BY <1>1, <1>3, <1>8, Joined
<1> HIDE DEF d
<1>11. /\ Len(d) = 5 /\ d[1] = c[1] /\ d[2] = c[2] /\ d[3] = c[3] /\ d[4] = c[4]
       /\ d[5] = write("ibuf_widx", 0)
  BY <1>1, <1>3, <1>9, <1>10 DEF IsJoin
<1>12. e \in Seq(Commands) /\ IsJoin(e, d, w("ibuf_ridx"))
  BY <1>1, <1>3, <1>10, Joined
<1> HIDE DEF e
<1>13. Len(e) = 6 /\ (\A i \in 1 .. 5 : e[i] = d[i]) /\ e[6] = write("ibuf_ridx", 0)
  <2>1. Len(w("ibuf_ridx")) = 1 /\ w("ibuf_ridx")[1] = write("ibuf_ridx", 0)
    BY <1>1, <1>3
  <2>2. Len(e) = 6
    BY <1>11, <1>12, <2>1 DEF IsJoin
  <2>3. e[1] = d[1] /\ e[2] = d[2] /\ e[3] = d[3] /\ e[4] = d[4] /\ e[5] = d[5]
    BY <1>11, <1>12, <2>1 DEF IsJoin
  <2>4. e[6] = write("ibuf_ridx", 0)
    BY <1>11, <1>12, <2>1 DEF IsJoin
  <2>5. QED BY <2>2, <2>3, <2>4
<1>14. \A i \in 1 .. 6 : e[i] = write(Cleared[i], 0)
  BY <1>5, <1>7, <1>9, <1>11, <1>13 DEF Cleared
<1>15. QED BY <1>2, <1>12, <1>13, <1>14

(* Both scripts begin with EnterDebug and the clearing of hostio. *)
LEMMA FirstLines ==
  LET s == EnterDebug \o hostio_clear
  IN  /\ s \in Seq(Commands) /\ Len(s) = 31
      /\ \A i \in 1 .. 12 : s[i] = reset_halt_rvlab_cpu[i]
      /\ s[13] = word("arp_examine")
      /\ \A i \in 14 .. 25 : s[i] = reset_halt_rvlab_cpu[i - 13]
      /\ \A i \in 26 .. 31 : s[i] = hostio_clear[i - 25]
<1> DEFINE r == reset_halt_rvlab_cpu
           x == << word("arp_examine") >>
           a == r \o x
           b == a \o r
           s == b \o hostio_clear
<1>1. r \in Seq(Commands) /\ Len(r) = 12
  BY ResetHaltLines
<1>2. x \in Seq(Commands) /\ Len(x) = 1 /\ x[1] = word("arp_examine")
  BY DEF Commands
<1>3. hostio_clear \in Seq(Commands) /\ Len(hostio_clear) = 6
  BY ClearLines
<1> HIDE DEF r, x
<1>4. a \in Seq(Commands) /\ IsJoin(a, r, x)
  BY <1>1, <1>2, Joined
<1> HIDE DEF a
<1>5. b \in Seq(Commands) /\ IsJoin(b, a, r)
  BY <1>1, <1>4, Joined
<1> HIDE DEF b
<1>6. s \in Seq(Commands) /\ IsJoin(s, b, hostio_clear)
  BY <1>3, <1>5, Joined
<1>7. s = EnterDebug \o hostio_clear
  BY DEF EnterDebug, a, b, r, x, word
<1> HIDE DEF s
<1>8. Len(a) = 13 /\ Len(b) = 25 /\ Len(s) = 31
  BY <1>1, <1>2, <1>3, <1>4, <1>5, <1>6 DEF IsJoin
<1>9. (\A i \in 1 .. 12 : a[i] = r[i]) /\ a[13] = word("arp_examine")
  BY <1>1, <1>2, <1>4 DEF IsJoin
<1>10. (\A i \in 1 .. 13 : b[i] = a[i]) /\ (\A i \in 14 .. 25 : b[i] = r[i - 13])
  BY <1>1, <1>5, <1>8 DEF IsJoin
<1>11. (\A i \in 1 .. 25 : s[i] = b[i]) /\ (\A i \in 26 .. 31 : s[i] = hostio_clear[i - 25])
  BY <1>3, <1>6, <1>8 DEF IsJoin
<1>12. \A i \in 1 .. 12 : s[i] = r[i]
  BY <1>9, <1>10, <1>11
<1>13. s[13] = word("arp_examine")
  BY <1>9, <1>10, <1>11
<1>14. \A i \in 14 .. 25 : s[i] = r[i - 13]
  BY <1>10, <1>11
<1>15. QED BY <1>6, <1>7, <1>8, <1>11, <1>12, <1>13, <1>14 DEF r

(* The whole script of the session. *)
LEMMA ScriptLines ==
  /\ Len(Script) = IF task = "run_prog" THEN 36 ELSE 37
  /\ \A i \in {1, 3, 5, 8, 10, 12, 14, 16, 18, 21, 23, 25} : Script[i] = dmi({})
  /\ \A i \in {2, 9, 15, 22} : Script[i] = dmi({"ackhavereset"})
  /\ \A i \in {4, 17} : Script[i] = dmi({"setresethaltreq"})
  /\ \A i \in {6, 19} : Script[i] = dmi({"ndmreset"})
  /\ \A i \in {11, 24} : Script[i] = dmi({"clrresethaltreq"})
  /\ \A i \in {7, 20} : Script[i] = poll
  /\ Script[13] = word("arp_examine")
  /\ \A i \in 26 .. 31 : Script[i] = write(Cleared[i - 25], 0)
  /\ task = "run_prog" =>
       /\ Script[32] = word("load_image") /\ Script[33] = word("reg_pc")
       /\ Script[34] = word("set_mem_access_sysbus")
       /\ Script[35] = word("resume") /\ Script[36] = word("enter_loop")
  /\ task # "run_prog" =>
       /\ Script[32] = word("set_mem_access_sysbus")
       /\ Script[33] = write("ddr_ctrl", 0) /\ Script[34] = write("ddr_ctrl", 1)
       /\ Script[35] = word("await_calibration") /\ Script[36] = word("announce")
       /\ Script[37] = word("load_data")
<1> DEFINE s == EnterDebug \o hostio_clear
<1>1. s \in Seq(Commands) /\ Len(s) = 31
  BY FirstLines
<1>2. /\ \A i \in {1, 3, 5, 8, 10, 12, 14, 16, 18, 21, 23, 25} : s[i] = dmi({})
      /\ \A i \in {2, 9, 15, 22} : s[i] = dmi({"ackhavereset"})
      /\ \A i \in {4, 17} : s[i] = dmi({"setresethaltreq"})
      /\ \A i \in {6, 19} : s[i] = dmi({"ndmreset"})
      /\ \A i \in {11, 24} : s[i] = dmi({"clrresethaltreq"})
      /\ \A i \in {7, 20} : s[i] = poll
      /\ s[13] = word("arp_examine")
      /\ \A i \in 26 .. 31 : s[i] = write(Cleared[i - 25], 0)
  <2> HIDE DEF s
  <2>1. /\ \A i \in 1 .. 12 : s[i] = reset_halt_rvlab_cpu[i]
        /\ s[13] = word("arp_examine")
        /\ \A i \in 14 .. 25 : s[i] = reset_halt_rvlab_cpu[i - 13]
        /\ \A i \in 26 .. 31 : s[i] = hostio_clear[i - 25]
    BY FirstLines DEF s
  <2> DEFINE r == reset_halt_rvlab_cpu
  <2>2. /\ \A i \in {1, 3, 5, 8, 10, 12} : r[i] = dmi({})
        /\ r[2] = dmi({"ackhavereset"}) /\ r[4] = dmi({"setresethaltreq"})
        /\ r[6] = dmi({"ndmreset"}) /\ r[7] = poll
        /\ r[9] = dmi({"ackhavereset"}) /\ r[11] = dmi({"clrresethaltreq"})
    BY ResetHaltLines
  <2>3. \A i \in 26 .. 31 : s[i] = write(Cleared[i - 25], 0)
    <3>1. \A i \in 1 .. 6 : hostio_clear[i] = write(Cleared[i], 0)
      BY ClearLines
    <3>2. \A i \in 26 .. 31 : i - 25 \in 1 .. 6
      OBVIOUS
    <3>3. QED BY <2>1, <3>1, <3>2
  <2> HIDE DEF r
  <2>4. /\ \A i \in 1 .. 12 : s[i] = r[i]
        /\ \A i \in 14 .. 25 : s[i] = r[i - 13]
    BY <2>1 DEF r
  <2>5. QED BY <2>1, <2>2, <2>3, <2>4
<1> HIDE DEF s
<1>3. CASE task = "run_prog"
  <2> DEFINE l == << word("resume"), word("enter_loop") >>
             p == s \o load_image
             q == p \o l
  <2>1. /\ load_image \in Seq(Commands) /\ Len(load_image) = 3 /\ load_image[1] = word("load_image")
        /\ load_image[2] = word("reg_pc") /\ load_image[3] = word("set_mem_access_sysbus")
    <3>1. load_image = << word("load_image"), word("reg_pc"), word("set_mem_access_sysbus") >>
      BY DEF load_image, word
    <3>2. QED BY <3>1 DEF Commands
  <2>2. l \in Seq(Commands) /\ Len(l) = 2 /\ l[1] = word("resume") /\ l[2] = word("enter_loop")
    BY DEF Commands
  <2> HIDE DEF l
  <2>3. p \in Seq(Commands) /\ IsJoin(p, s, load_image)
    BY <1>1, <2>1, Joined
  <2> HIDE DEF p
  <2>4. q \in Seq(Commands) /\ IsJoin(q, p, l)
    BY <2>2, <2>3, Joined
  <2>5. q = Script
    BY <1>3 DEF Script, run_prog, p, l, s, word
  <2> HIDE DEF q
  <2>6. /\ Len(p) = 34 /\ Len(q) = 36 /\ \A i \in 1 .. 31 : q[i] = s[i]
    <3>1. Len(p) = 34 /\ Len(q) = 36
      BY <1>1, <2>1, <2>2, <2>3, <2>4 DEF IsJoin
    <3>2. ASSUME NEW i \in 1 .. 31 PROVE p[i] = s[i]
      <4>1. i \in 1 .. Len(s) + Len(load_image) /\ i <= Len(s)
        BY <1>1, <2>1
      <4>2. QED BY <2>3, <4>1 DEF IsJoin
    <3>3. ASSUME NEW i \in 1 .. 34 PROVE q[i] = p[i]
      <4>1. i \in 1 .. Len(p) + Len(l) /\ i <= Len(p)
        BY <2>2, <3>1
      <4>2. QED BY <2>4, <4>1 DEF IsJoin
    <3>4. QED BY <3>1, <3>2, <3>3
  <2>7. /\ q[32] = word("load_image") /\ q[33] = word("reg_pc") /\ q[34] = word("set_mem_access_sysbus")
        /\ q[35] = word("resume") /\ q[36] = word("enter_loop")
    <3>1. p[32] = load_image[1] /\ p[33] = load_image[2] /\ p[34] = load_image[3]
      BY <1>1, <2>1, <2>3, <2>6 DEF IsJoin
    <3>2. q[32] = p[32] /\ q[33] = p[33] /\ q[34] = p[34]
      BY <2>2, <2>4, <2>6 DEF IsJoin
    <3>3. q[35] = l[1] /\ q[36] = l[2]
      BY <2>2, <2>4, <2>6 DEF IsJoin
    <3>4. QED BY <2>1, <2>2, <3>1, <3>2, <3>3
  <2>8. QED BY <1>2, <1>3, <2>5, <2>6, <2>7
<1>4. CASE task # "run_prog"
  <2> DEFINE l == << word("set_mem_access_sysbus") >>
             off == << write("ddr_ctrl", 0) >>
             on == << write("ddr_ctrl", 1) >>
             z == << word("await_calibration"), word("announce"), word("load_data") >>
             p == s \o l
             o == p \o off
             k == o \o on
             q == k \o z
  <2>1. l \in Seq(Commands) /\ Len(l) = 1 /\ l[1] = word("set_mem_access_sysbus")
    BY DEF Commands
  <2>2. /\ z \in Seq(Commands) /\ Len(z) = 3 /\ z[1] = word("await_calibration")
        /\ z[2] = word("announce") /\ z[3] = word("load_data")
    BY DEF Commands
  <2>3. /\ off \in Seq(Commands) /\ Len(off) = 1 /\ off[1] = write("ddr_ctrl", 0)
        /\ on \in Seq(Commands) /\ Len(on) = 1 /\ on[1] = write("ddr_ctrl", 1)
    BY DEF Commands
  <2> HIDE DEF l, z, off, on
  <2>4. p \in Seq(Commands) /\ IsJoin(p, s, l)
    BY <1>1, <2>1, Joined
  <2> HIDE DEF p
  <2>5. o \in Seq(Commands) /\ IsJoin(o, p, off)
    BY <2>3, <2>4, Joined
  <2> HIDE DEF o
  <2>6. k \in Seq(Commands) /\ IsJoin(k, o, on)
    BY <2>3, <2>5, Joined
  <2> HIDE DEF k
  <2>7. q \in Seq(Commands) /\ IsJoin(q, k, z)
    BY <2>2, <2>6, Joined
  <2>8. q = Script
    BY <1>4 DEF Script, init_board, p, o, k, l, z, off, on, s, word, write, writeword
  <2> HIDE DEF q
  <2>9. Len(p) = 32 /\ Len(o) = 33 /\ Len(k) = 34 /\ Len(q) = 37
    <3>1. Len(p) = 32
      BY <1>1, <2>1, <2>4 DEF IsJoin
    <3>2. Len(o) = 33
      BY <2>3, <2>5, <3>1 DEF IsJoin
    <3>3. Len(k) = 34
      BY <2>3, <2>6, <3>2 DEF IsJoin
    <3>4. Len(q) = 37
      BY <2>2, <2>7, <3>3 DEF IsJoin
    <3>5. QED BY <3>1, <3>2, <3>3, <3>4
  <2>10. (\A i \in 1 .. 31 : p[i] = s[i]) /\ p[32] = word("set_mem_access_sysbus")
    BY <1>1, <2>1, <2>4 DEF IsJoin
  <2>11. (\A i \in 1 .. 32 : o[i] = p[i]) /\ o[33] = write("ddr_ctrl", 0)
    <3>1. ASSUME NEW i \in 1 .. 32 PROVE o[i] = p[i]
      <4>1. i \in 1 .. Len(p) + Len(off) /\ i <= Len(p)
        BY <2>3, <2>9
      <4>2. QED BY <2>5, <4>1 DEF IsJoin
    <3>2. o[33] = off[1]
      BY <2>3, <2>5, <2>9 DEF IsJoin
    <3>3. QED BY <2>3, <3>1, <3>2
  <2>12. (\A i \in 1 .. 33 : k[i] = o[i]) /\ k[34] = write("ddr_ctrl", 1)
    <3>1. ASSUME NEW i \in 1 .. 33 PROVE k[i] = o[i]
      <4>1. i \in 1 .. Len(o) + Len(on) /\ i <= Len(o)
        BY <2>3, <2>9
      <4>2. QED BY <2>6, <4>1 DEF IsJoin
    <3>2. k[34] = on[1]
      BY <2>3, <2>6, <2>9 DEF IsJoin
    <3>3. QED BY <2>3, <3>1, <3>2
  <2>13. /\ \A i \in 1 .. 34 : q[i] = k[i]
         /\ q[35] = word("await_calibration") /\ q[36] = word("announce") /\ q[37] = word("load_data")
    BY <2>2, <2>7, <2>9 DEF IsJoin
  <2>14. \A i \in 1 .. 31 : q[i] = s[i]
    BY <2>10, <2>11, <2>12, <2>13
  <2>15. /\ q[32] = word("set_mem_access_sysbus") /\ q[33] = write("ddr_ctrl", 0)
         /\ q[34] = write("ddr_ctrl", 1)
    BY <2>10, <2>11, <2>12, <2>13
  <2>16. QED BY <1>2, <1>4, <2>8, <2>9, <2>13, <2>14, <2>15
<1>5. QED BY <1>3, <1>4

-----------------------------------------------------------------------------
Loop == {"flags", "widx", "drain", "select", "ibuf", "ibuf_read", "ibuf_write", "ibuf_widx"}
Ends == {"restore", "retval", "shutdown", "over"}
Booting == {"crt0", "crt0_retval", "crt0_obuf_widx", "crt0_ibuf_ridx"}
Programming == Booting \cup {"main", "putc", "getc", "returned", "end_loop"}

(* Going round a ring, and how far one place is behind another. *)
Plus(i, d) == IF i + d < BUF_SIZE THEN i + d ELSE i + d - BUF_SIZE
Minus(i, j) == IF j <= i THEN i - j ELSE i - j + BUF_SIZE

Places == {"script"} \cup Loop \cup Ends
Hosts == [flags: Int, widx: Int, wordaddr: Int, word: [0 .. WORD - 1 -> Int],
          obuf_ridx: Indices, ibuf_widx: Indices, char: Int,
          iword: [0 .. WORD - 1 -> Int], ridx: Int, retval: Int, failed: BOOLEAN]
Ttys == [queue: Seq(Int), buf: Seq(Int), typed: Nat, raw: BOOLEAN]
Memories == [obuf: [Indices -> Int], ibuf: [Indices -> Int], flags: Int, retval: Int,
             obuf_widx: Int, obuf_ridx: Int, ibuf_widx: Int, ibuf_ridx: Int]
DebugModules == [resethaltreq: BOOLEAN, havereset: BOOLEAN, ndmreset: BOOLEAN]
Boards == [access: {"progbuf", "sysbus"}, openocd: {"up", "ended", "reset", "killed"},
           ddr_ctrl: Int, calibrated: BOOLEAN]
Histories == [printed: Seq(Int), put: Nat, got: Seq(Int), overrun: BOOLEAN, announced: BOOLEAN]
Types ==
  /\ pc \in Places
  /\ line \in Int
  /\ host \in Hosts
  /\ tty \in Ttys
  /\ mem \in Memories
  /\ dm \in DebugModules
  /\ hart \in {"running", "halted", "reset"}
  /\ prog \in {"old"} \cup Programming
  /\ board \in Boards
  /\ seen \in Histories

(* The terminal is only raw in the loop, OpenOCD is gone at the end. *)
Terminal ==
  /\ tty.raw => pc \in Loop \cup {"restore"}
  /\ pc = "over" => board.openocd = "killed"

(* How far the script has brought the hart. *)
Scripted ==
  pc = "script" =>
    /\ line \in 1 .. (IF task = "run_prog" THEN 36 ELSE 37)
    /\ line \in 5 .. 11 \cup 18 .. 24 => dm.resethaltreq
    /\ line \in {7, 8, 20, 21} => hart = "reset" /\ dm.ndmreset /\ dm.havereset
    /\ line \in {9, 22} => hart \in {"reset", "halted"} /\ ~dm.ndmreset /\ dm.havereset
    /\ line \in 10 .. 19 \cup 23 .. 37 =>
         /\ ~dm.ndmreset
         /\ hart = IF task = "run_prog" /\ line = 36 THEN "running" ELSE "halted"
    /\ \A i \in 1 .. 6 : line > 25 + i /\ hart = "halted" => mem[Cleared[i]] = 0
    /\ prog = "old" <=> (line <= 32 \/ task # "run_prog")
    /\ line > 32 /\ task # "run_prog" => board.access = "sysbus"

(* What is untouched until the loop begins, and until the program runs. *)
Untouched ==
  /\ pc \in Loop \cup {"restore", "retval"} => prog # "old"
  /\ pc = "script" \/ prog = "old" =>
       /\ host.flags = 0 /\ host.obuf_ridx = 0 /\ host.ibuf_widx = 0
       /\ tty.queue = <<>> /\ tty.buf = <<>> /\ tty.typed = 0
       /\ seen.printed = <<>> /\ ~seen.overrun
  /\ prog = "old" => seen.put = 0 /\ seen.got = <<>>
  /\ prog # "old" => \/ hart = "running"
                     \/ pc = "script" /\ line <= 35
                     \/ hart = "halted" /\ host.failed /\ pc \in {"shutdown", "over"}
  /\ prog \in Booting =>
       mem.obuf_widx = 0 /\ mem.ibuf_ridx = 0 /\ seen.put = 0 /\ seen.got = <<>>

(* Numbers of characters: stored and published by the program, printed. *)
published == IF prog = "putc" THEN seen.put - 1 ELSE seen.put
printed == Len(seen.printed)

(* The output ring: what is printed, what is published, what is stored. *)
Outputs ==
  prog # "old" =>
    /\ mem.obuf_ridx \in Indices
    /\ printed <= published
    /\ Minus(host.obuf_ridx, mem.obuf_ridx) + seen.put - printed <= BUF_SIZE - 1
    /\ mem.obuf_widx = Plus(host.obuf_ridx, published - printed)
    /\ \A d \in 0 .. seen.put - printed - 1 :
         mem.obuf[Plus(host.obuf_ridx, d)] = printed + d + 1

(* While the host drains: the index and the word it has read hold good. *)
Draining ==
  pc = "drain" =>
    /\ host.widx \in Indices
    /\ Minus(host.widx, host.obuf_ridx) <= published - printed
    /\ host.flags = 1 => Minus(host.widx, host.obuf_ridx) = published - printed
    /\ \A d \in 0 .. Minus(host.widx, host.obuf_ridx) - 1 :
         WordOf(Plus(host.obuf_ridx, d)) = host.wordaddr =>
           host.word[Plus(host.obuf_ridx, d) % WORD] = printed + d + 1

(* What the program leaves behind, and what the host knows of it. *)
Finishing ==
  /\ prog # "old" => mem.flags = IF prog = "end_loop" THEN 1 ELSE 0
  /\ prog \in {"returned", "end_loop"} => mem.retval = 1
  /\ host.flags \in {0, 1}
  /\ host.flags = 1 => prog = "end_loop" /\ (pc \in {"widx", "drain"} \/ host.failed \/ printed = seen.put)
  /\ host.flags = 1 /\ pc \in {"shutdown", "over"} => host.failed \/ host.retval = 1

(* Keys: the k-th key read or waiting is k, or the interrupt. *)
keys == tty.typed - Len(tty.queue) - Len(tty.buf)
Keys ==
  /\ keys >= 0
  /\ \A i \in 1 .. Len(tty.buf) : tty.buf[i] \in {Interrupt, keys + i}
  /\ \A i \in 1 .. Len(tty.queue) : tty.queue[i] \in {Interrupt, keys + Len(tty.buf) + i}
  /\ pc \in {"ibuf", "ibuf_read", "ibuf_write", "ibuf_widx"} => host.char = keys

(* The input ring: what the program has taken, what waits for it. *)
taken == IF prog = "getc" THEN Len(seen.got) - 1 ELSE Len(seen.got)
unread == Minus(mem.ibuf_widx, mem.ibuf_ridx)
Inputs ==
  prog # "old" =>
    /\ mem.ibuf_widx = host.ibuf_widx /\ mem.ibuf_ridx \in Indices
    /\ pc = "ibuf_write" => host.iword = Word(mem.ibuf, WordOf(host.ibuf_widx))
    /\ pc = "ibuf_widx" => mem.ibuf[host.ibuf_widx] = host.char
    /\ ~seen.overrun =>
         /\ prog = "getc" => unread >= 1
         /\ pc \in {"script", "flags", "widx", "drain", "select"} => taken + unread = keys
         /\ pc \in {"ibuf", "ibuf_read", "ibuf_write", "ibuf_widx"} => taken + unread = keys - 1
         /\ \A d \in 0 .. unread - 1 : mem.ibuf[Plus(mem.ibuf_ridx, d)] = taken + d + 1

InOrder ==
  /\ seen.printed = UpTo(printed)
  /\ ~seen.overrun => seen.got = UpTo(Len(seen.got))

IInv ==
  /\ Types /\ Terminal /\ Scripted /\ Untouched /\ Outputs /\ Draining /\ Finishing
  /\ Keys /\ Inputs /\ InOrder

-----------------------------------------------------------------------------
(* What a command of the script says of the line it stands at.             *)
LEMMA Commanded ==
  ASSUME Scripted, pc = "script"
  PROVE  /\ Script[line][1] = "dmi" =>
              \/ line \in {1, 3, 5, 8, 10, 12, 14, 16, 18, 21, 23, 25} /\ Script[line][2] = {}
              \/ line \in {2, 9, 15, 22} /\ Script[line][2] = {"ackhavereset"}
              \/ line \in {4, 17} /\ Script[line][2] = {"setresethaltreq"}
              \/ line \in {6, 19} /\ Script[line][2] = {"ndmreset"}
              \/ line \in {11, 24} /\ Script[line][2] = {"clrresethaltreq"}
         /\ Script[line][1] = "poll" => line \in {7, 20}
         /\ Script[line][1] = "arp_examine" => line = 13
         /\ Script[line][1] = "write" =>
              \/ line \in 26 .. 31 /\ Script[line][2] = Cleared[line - 25] /\ Script[line][3] = 0
              \/ /\ task # "run_prog" /\ line \in {33, 34} /\ Script[line][2] = "ddr_ctrl"
                 /\ Script[line][3] \in {0, 1}
         /\ Script[line][1] = "load_image" => task = "run_prog" /\ line = 32
         /\ Script[line][1] = "reg_pc" => task = "run_prog" /\ line = 33
         /\ Script[line][1] = "set_mem_access_sysbus" => line = IF task = "run_prog" THEN 34 ELSE 32
         /\ Script[line][1] = "resume" => task = "run_prog" /\ line = 35
         /\ Script[line][1] = "enter_loop" => task = "run_prog" /\ line = 36
         /\ Script[line][1] = "await_calibration" => task # "run_prog" /\ line = 35
         /\ Script[line][1] = "announce" => task # "run_prog" /\ line = 36
         /\ Script[line][1] = "load_data" => task # "run_prog" /\ line = 37
<1>1. line \in 1 .. 37 /\ (task = "run_prog" => line <= 36)
  BY DEF Scripted
<1> DEFINE c == Script[line]
<1>2. \/ line \in {1, 3, 5, 8, 10, 12, 14, 16, 18, 21, 23, 25} /\ c = dmi({})
      \/ line \in {2, 9, 15, 22} /\ c = dmi({"ackhavereset"})
      \/ line \in {4, 17} /\ c = dmi({"setresethaltreq"})
      \/ line \in {6, 19} /\ c = dmi({"ndmreset"})
      \/ line \in {11, 24} /\ c = dmi({"clrresethaltreq"})
      \/ line \in {7, 20} /\ c = poll
      \/ line = 13 /\ c = word("arp_examine")
      \/ line \in 26 .. 31 /\ c = write(Cleared[line - 25], 0)
      \/ task = "run_prog" /\ line = 32 /\ c = word("load_image")
      \/ task = "run_prog" /\ line = 33 /\ c = word("reg_pc")
      \/ task = "run_prog" /\ line = 34 /\ c = word("set_mem_access_sysbus")
      \/ task = "run_prog" /\ line = 35 /\ c = word("resume")
      \/ task = "run_prog" /\ line = 36 /\ c = word("enter_loop")
      \/ task # "run_prog" /\ line = 32 /\ c = word("set_mem_access_sysbus")
      \/ task # "run_prog" /\ line = 33 /\ c = write("ddr_ctrl", 0)
      \/ task # "run_prog" /\ line = 34 /\ c = write("ddr_ctrl", 1)
      \/ task # "run_prog" /\ line = 35 /\ c = word("await_calibration")
      \/ task # "run_prog" /\ line = 36 /\ c = word("announce")
      \/ task # "run_prog" /\ line = 37 /\ c = word("load_data")
  BY <1>1, ScriptLines
<1> HIDE DEF c
<1>3. /\ \A field : (dmi(field))[1] = "dmi" /\ (dmi(field))[2] = field
      /\ poll[1] = "poll"
      /\ \A at, value : LET w == write(at, value) IN w[1] = "write" /\ w[2] = at /\ w[3] = value
      /\ \A name : (word(name))[1] = name
  BY DEF dmi, poll, write, word
<1>4. QED BY <1>2, <1>3 DEF c

(* The rings: the operators of the code go round as Plus and Minus do.     *)
LEMMA Rings ==
  ASSUME NEW i \in Indices, NEW j \in Indices
  PROVE  /\ Next1(i) = Plus(i, 1) /\ Enqueued(i, j) = Minus(i, j)
         /\ Plus(i, 1) \in Indices /\ Minus(i, j) \in Indices
BY BufferAssumption DEF Indices, Next1, Enqueued, Plus, Minus

LEMMA RingArithmetic ==
  ASSUME NEW i \in Indices, NEW d \in Indices
  PROVE  /\ Plus(i, d) \in Indices
         /\ Plus(i, 0) = i
         /\ Minus(i, i) = 0
         /\ Minus(Plus(i, d), i) = d
         /\ \A j \in Indices : Minus(j, i) = d <=> j = Plus(i, d)
         /\ d + 1 < BUF_SIZE => Plus(Plus(i, d), 1) = Plus(i, d + 1) /\ Plus(Plus(i, 1), d) = Plus(i, d + 1)
         /\ \A e \in Indices : e # d => Plus(i, e) # Plus(i, d)
BY BufferAssumption DEF Indices, Plus, Minus

(* Multiples of a number lie at least that number apart.                   *)
LEMMA Multiples ==
  ASSUME NEW w \in Int, w > 0, NEW x \in Int, NEW y \in Int, x % w = 0, y % w = 0, x < y
  PROVE  x + w <= y
<1>1. PICK p \in Int : x = w * p
  OBVIOUS
<1>2. PICK q \in Int : y = w * q
  OBVIOUS
<1>3. w * p < w * q => p < q
  <2>1. ASSUME q <= p PROVE w * q <= w * p
    BY <2>1
  <2>2. w * p \in Int /\ w * q \in Int
    OBVIOUS
  <2>3. QED BY <2>1, <2>2
<1>4. p + 1 <= q
  BY <1>1, <1>2, <1>3
<1>5. w * (p + 1) <= w * q
  BY <1>4
<1>6. w * (p + 1) = x + w
  BY <1>1
<1>7. QED BY <1>2, <1>5, <1>6

(* Rounding down to a multiple.                                            *)
LEMMA Rounding ==
  ASSUME NEW w \in Int, w > 0, NEW i \in Int, i >= 0
  PROVE  (i - (i % w)) % w = 0 /\ i % w \in 0 .. w - 1 /\ i - (i % w) >= 0
<1>1. (i - (i % w)) % w = 0
  OBVIOUS
<1>2. i % w \in 0 .. w - 1
  OBVIOUS
<1>3. i - (i % w) >= 0
  OBVIOUS
<1>4. QED BY <1>1, <1>2, <1>3

(* The word a place of a ring lies in is all in the ring.                  *)
LEMMA WordAlignment ==
  ASSUME NEW i \in Indices
  PROVE  /\ i % WORD \in 0 .. WORD - 1 /\ WordOf(i) \in Indices /\ WordOf(i) + (i % WORD) = i
         /\ \A k \in 0 .. WORD - 1 : WordOf(i) + k \in Indices
<1>1. WORD \in Int /\ WORD > 0 /\ BUF_SIZE \in Int /\ BUF_SIZE > 0 /\ i \in Int /\ i >= 0 /\ i < BUF_SIZE
  BY BufferAssumption DEF Indices
<1>2. (i - (i % WORD)) % WORD = 0 /\ i % WORD \in 0 .. WORD - 1 /\ i - (i % WORD) >= 0
  BY <1>1, Rounding
<1> DEFINE m == i - (i % WORD)
<1>3. m \in Int /\ m % WORD = 0 /\ m >= 0 /\ m <= i /\ m + (i % WORD) = i
  BY <1>1, <1>2
<1>4. m + WORD <= BUF_SIZE
  <2> HIDE DEF m
  <2>1. m < BUF_SIZE
    BY <1>1, <1>3
  <2>2. QED BY <1>1, <1>3, <2>1, BufferAssumption, Multiples
<1>5. WordOf(i) = m
  BY DEF WordOf
<1> HIDE DEF m
<1>6. m \in Indices /\ \A k \in 0 .. WORD - 1 : m + k \in Indices
  BY <1>1, <1>3, <1>4 DEF Indices
<1>7. QED BY <1>2, <1>3, <1>5, <1>6

LEMMA Counting ==
  ASSUME NEW n \in Nat
  PROVE  UpTo(n) \in Seq(Int) /\ Len(UpTo(n)) = n /\ Append(UpTo(n), n + 1) = UpTo(n + 1)
<1>1. UpTo(n) \in Seq(Int) /\ Len(UpTo(n)) = n /\ UpTo(n + 1) \in Seq(Int) /\ Len(UpTo(n + 1)) = n + 1
  BY DEF UpTo
<1>2. Append(UpTo(n), n + 1) = UpTo(n + 1)
  BY DEF UpTo
<1>3. QED BY <1>1, <1>2

(* Replacing one entry of a record of the state by another of its type.    *)
LEMMA MemoryWord ==
  ASSUME NEW m \in Memories, NEW at \in Words, NEW v \in Int
  PROVE  [m EXCEPT ![at] = v] \in Memories
BY DEF Memories, Words

(* A reset of everything but the debug module takes the DDR down.          *)
LEMMA BoardReset ==
  ASSUME NEW b \in Boards, NEW c \in Int, NEW d \in BOOLEAN
  PROVE  [b EXCEPT !.ddr_ctrl = c, !.calibrated = d] \in Boards
BY DEF Boards

(* What a write of dmcontrol makes of the debug module.                    *)
LEMMA DmControls ==
  ASSUME NEW fields, DmControl(fields)
  PROVE  /\ dm' \in DebugModules
         /\ dm'.resethaltreq <=>
              "clrresethaltreq" \notin fields /\ (dm.resethaltreq \/ "setresethaltreq" \in fields)
         /\ dm'.ndmreset <=> "ndmreset" \in fields
         /\ dm'.havereset <=>
              "ndmreset" \in fields \/ (dm.havereset /\ "ackhavereset" \notin fields)
<1> DEFINE req == IF "clrresethaltreq" \in fields THEN FALSE
                  ELSE dm.resethaltreq \/ "setresethaltreq" \in fields
           ndm == "ndmreset" \in fields
           have == "ndmreset" \in fields \/ (dm.havereset /\ "ackhavereset" \notin fields)
<1>1. req \in BOOLEAN
  OBVIOUS
<1>2. ndm \in BOOLEAN
  OBVIOUS
<1>3. have \in BOOLEAN
  BY Zenon
<1>4. dm' = [resethaltreq |-> req, ndmreset |-> ndm, havereset |-> have]
  BY Zenon DEF DmControl
<1>5. req <=> "clrresethaltreq" \notin fields /\ (dm.resethaltreq \/ "setresethaltreq" \in fields)
  BY Zenon
<1> HIDE DEF req, ndm, have
<1>6. dm' \in DebugModules
  BY <1>2, <1>1, <1>3, <1>4 DEF DebugModules
<1>7. dm'.resethaltreq = req /\ dm'.ndmreset = ndm /\ dm'.havereset = have
  BY <1>4
<1> USE DEF ndm, have
<1>8. QED BY <1>5, <1>6, <1>7

(* The writes of dmcontrol: the request to halt is set before the reset and *)
(* outlives it, so the hart is held, then halts.                           *)
LEMMA DmiWriteKeeps ==
  ASSUME IInv, DmiWrite, UNCHANGED task
  PROVE  IInv'
<1> DEFINE f == Script[line][2]
<1>1. /\ pc = "script" /\ pc' = pc /\ line' = line + 1 /\ line \in 1 .. 25 /\ HartSettled
      /\ line \notin {7, 13, 20} /\ DmControl(f)
      /\ "ndmreset" \in f <=> line \in {6, 19}
      /\ "ackhavereset" \in f <=> line \in {2, 9, 15, 22}
      /\ "setresethaltreq" \in f <=> line \in {4, 17}
      /\ "clrresethaltreq" \in f <=> line \in {11, 24}
  <2>1. /\ pc = "script" /\ pc' = pc /\ line' = line + 1 /\ HartSettled /\ DmControl(f)
    BY DEF DmiWrite, Sent, At, Done
  <2>2. \/ line \in {1, 3, 5, 8, 10, 12, 14, 16, 18, 21, 23, 25} /\ f = {}
        \/ line \in {2, 9, 15, 22} /\ f = {"ackhavereset"}
        \/ line \in {4, 17} /\ f = {"setresethaltreq"}
        \/ line \in {6, 19} /\ f = {"ndmreset"}
        \/ line \in {11, 24} /\ f = {"clrresethaltreq"}
    BY <2>1, Commanded DEF IInv, DmiWrite, Sent, At
  <2> HIDE DEF f
  <2>3. QED BY <2>1, <2>2
<1> HIDE DEF f
<1>2. /\ line \in {6, 19} => hart' = "reset" /\ dm'.ndmreset /\ dm'.havereset
      /\ line \notin {6, 19} => hart' = hart /\ ~dm'.ndmreset
      /\ line \notin {2, 6, 9, 15, 19, 22} => (dm'.havereset <=> dm.havereset)
      /\ line \in {4, 17} => dm'.resethaltreq
      /\ line \notin {4, 11, 17, 24} => (dm'.resethaltreq <=> dm.resethaltreq)
      /\ dm' \in DebugModules
  <2>1. line \in {6, 19} => hart' = "reset"
    BY <1>1 DEF DmControl
  <2>2. line \notin {6, 19} => hart' = hart
    BY <1>1 DEF DmControl
  <2>3. QED BY <1>1, <2>1, <2>2, DmControls
<1>3. Types'
  <2>1. dm' \in DebugModules
    BY <1>2
  <2>2. hart' \in {"running", "halted", "reset"} /\ board' \in Boards
    <3>1. board' = board \/ board' = [board EXCEPT !.ddr_ctrl = 0, !.calibrated = FALSE]
      BY <1>1 DEF DmControl
    <3>2. [board EXCEPT !.ddr_ctrl = 0, !.calibrated = FALSE] \in Boards
      <4>1. board \in Boards /\ 0 \in Int /\ FALSE \in BOOLEAN
        BY DEF IInv, Types
      <4>2. QED BY <4>1, BoardReset
    <3>3. QED BY <1>2, <3>1, <3>2 DEF IInv, Types
  <2>3. QED BY <1>1, <2>1, <2>2 DEF IInv, Types, DmiWrite
<1>4. Scripted'
  <2>1. prog = "old" /\ prog' = prog /\ UNCHANGED mem
    BY <1>1 DEF IInv, Scripted, DmiWrite
  <2>2. line' \in 2 .. 26
    BY <1>1
  <2>3. dm \in DebugModules
    BY DEF IInv, Types
  <2>4. dm'.resethaltreq \/ line' \notin 5 .. 11 \cup 18 .. 24
    BY <1>2, <1>1 DEF IInv, Scripted
  <2>5. line' \in {7, 8, 20, 21} => hart' = "reset" /\ dm'.ndmreset /\ dm'.havereset
    BY <1>2, <1>1 DEF IInv, Scripted
  <2>6. line' \in {9, 22} => hart' \in {"reset", "halted"} /\ ~dm'.ndmreset /\ dm'.havereset
    BY <1>2, <1>1 DEF IInv, Scripted
  <2>7. line' \in 10 .. 19 \cup 23 .. 37 => ~dm'.ndmreset /\ hart' = "halted"
    BY <1>2, <1>1 DEF IInv, Scripted, HartSettled
  <2>8. QED BY <1>1, <2>1, <2>2, <2>4, <2>5, <2>6, <2>7 DEF Scripted
<1>5. Terminal' /\ Untouched' /\ Outputs' /\ Draining' /\ Finishing' /\ Keys' /\ Inputs' /\ InOrder'
  BY <1>1 DEF IInv, Types, Untouched, Hosts, Memories, Ttys, DebugModules, Boards, Histories, Loop,
     Ends, Programming, Booting, Interrupt, Terminal, Outputs, published, printed, Draining, Finishing,
     Keys, keys, Inputs, taken, unread, InOrder, DmiWrite, Scripted
<1>6. QED BY <1>3, <1>4, <1>5 DEF IInv

(* The wait for havereset leaves everything as it is.                      *)
LEMMA PollHaveResetKeeps ==
  ASSUME IInv, PollHaveReset, UNCHANGED task
  PROVE  IInv'
<1>1. pc = "script" /\ pc' = pc /\ line' = line + 1 /\ line \in {7, 20}
  BY Commanded DEF IInv, PollHaveReset, Sent, At, Done
<1>2. Types'
  BY <1>1 DEF IInv, Types, PollHaveReset
<1>3. Scripted'
  BY <1>1 DEF IInv, Scripted, PollHaveReset
<1>4. Terminal' /\ Untouched' /\ Outputs' /\ Draining' /\ Finishing' /\ Keys' /\ Inputs' /\ InOrder'
  BY <1>1 DEF IInv, Types, Untouched, Hosts, Memories, Ttys, DebugModules, Boards, Histories, Loop,
     Ends, Programming, Booting, Interrupt, Terminal, Outputs, published, printed, Draining, Finishing,
     Keys, keys, Inputs, taken, unread, InOrder, PollHaveReset
<1>5. QED BY <1>2, <1>3, <1>4 DEF IInv

(* hostio_clear: one word after the other, with the hart halted.           *)
LEMMA WriteHostioKeeps ==
  ASSUME IInv, WriteHostio, UNCHANGED task
  PROVE  IInv'
<1>1. /\ pc = "script" /\ pc' = pc /\ line' = line + 1 /\ line \in 26 .. 31
      /\ mem' = [mem EXCEPT ![Cleared[line - 25]] = 0]
  <2>1. Script[line][2] # "ddr_ctrl"
    BY DEF IInv, Types, Memories, WriteHostio
  <2>2. QED BY <2>1, Commanded DEF IInv, WriteHostio, Sent, At, Done
<1>2. Cleared[line - 25] \in Words /\ prog = "old" /\ prog' = prog
  BY <1>1 DEF Cleared, Words, IInv, Scripted, WriteHostio
<1>3. Types'
  <2> DEFINE at == Cleared[line - 25]
  <2>1. 0 \in Int /\ mem \in Memories /\ at \in Words /\ mem' = [mem EXCEPT ![at] = 0]
    BY <1>1, <1>2 DEF IInv, Types
  <2> HIDE DEF at
  <2>2. mem' \in Memories
    BY <2>1, MemoryWord
  <2>3. QED BY <1>1, <2>2 DEF IInv, Types, WriteHostio
<1>4. Scripted'
  <2>1. \A i \in 1 .. 6 : line' > 25 + i /\ hart' = "halted" => mem'[Cleared[i]] = 0
    <3>1. ASSUME NEW i \in 1 .. 6, line' > 25 + i, hart' = "halted" PROVE mem'[Cleared[i]] = 0
      <4>1. Cleared[i] \in Words /\ DOMAIN mem = Words \cup {"obuf", "ibuf"}
        BY DEF Cleared, Words, IInv, Types, Memories
      <4>2. CASE i = line - 25
        BY <1>1, <4>1, <4>2
      <4>3. CASE i # line - 25
        <5>1. mem[Cleared[i]] = 0
          BY <1>1, <3>1, <4>3 DEF IInv, Scripted, WriteHostio
        <5>2. QED BY <1>1, <4>1, <5>1
      <4>4. QED BY <4>2, <4>3
    <3>2. QED BY <3>1
  <2>2. QED BY <1>1, <1>2, <2>1 DEF IInv, Scripted, WriteHostio
<1>5. Terminal' /\ Untouched' /\ Outputs' /\ Draining' /\ Finishing' /\ Keys' /\ Inputs' /\ InOrder'
  BY <1>1, <1>2 DEF IInv, Types, Untouched, Hosts, Memories, Ttys, DebugModules, Boards, Histories,
     Loop, Ends, Programming, Booting, Interrupt, Terminal, Outputs, published, printed, Draining,
     Finishing, Keys, keys, Inputs, taken, unread, InOrder, WriteHostio, Words
<1>6. QED BY <1>3, <1>4, <1>5 DEF IInv

(* The DDR's reset is written, which the script does over the system bus.  *)
LEMMA WriteDdrCtrlKeeps ==
  ASSUME IInv, WriteDdrCtrl, UNCHANGED task
  PROVE  IInv'
<1>1. /\ pc = "script" /\ pc' = pc /\ line' = line + 1 /\ task # "run_prog" /\ line \in {33, 34}
      /\ board' = [board EXCEPT !.ddr_ctrl = Script[line][3]] /\ Script[line][3] \in {0, 1}
  <2>1. \A i \in 1 .. 6 : Cleared[i] # "ddr_ctrl"
    BY DEF Cleared
  <2>2. QED BY <2>1, Commanded DEF IInv, WriteDdrCtrl, Sent, At, Done
<1>2. Types'
  <2>1. board' \in Boards
    BY <1>1 DEF IInv, Types, Boards
  <2>2. QED BY <1>1, <2>1 DEF IInv, Types, WriteDdrCtrl
<1>3. Scripted'
  BY <1>1 DEF IInv, Scripted, WriteDdrCtrl, Types, Boards
<1>4. Terminal' /\ Untouched' /\ Outputs' /\ Draining' /\ Finishing' /\ Keys' /\ Inputs' /\ InOrder'
  BY <1>1 DEF IInv, Types, Untouched, Hosts, Memories, Ttys, DebugModules, Boards, Histories, Loop,
     Ends, Programming, Booting, Interrupt, Terminal, Outputs, published, printed, Draining, Finishing,
     Keys, keys, Inputs, taken, unread, InOrder, WriteDdrCtrl, Scripted
<1>5. QED BY <1>2, <1>3, <1>4 DEF IInv

(* The new program is loaded over a cleared hostio: rings empty, nothing put. *)
LEMMA LoadImageKeeps ==
  ASSUME IInv, LoadImage, UNCHANGED task
  PROVE  IInv'
<1>1. pc = "script" /\ pc' = pc /\ line' = line + 1 /\ task = "run_prog" /\ line = 32 /\ hart = "halted"
  BY Commanded DEF IInv, LoadImage, Sent, At, Done, Scripted
<1>2. prog = "old" /\ prog' = "crt0"
  BY <1>1 DEF IInv, Scripted, LoadImage
<1>3. /\ mem.flags = 0 /\ mem.obuf_widx = 0 /\ mem.obuf_ridx = 0
      /\ mem.ibuf_widx = 0 /\ mem.ibuf_ridx = 0
  <2>1. \A i \in 1 .. 6 : mem[Cleared[i]] = 0
    BY <1>1 DEF IInv, Scripted
  <2>2. QED BY <2>1 DEF Cleared
<1>4. /\ host.flags = 0 /\ host.obuf_ridx = 0 /\ host.ibuf_widx = 0
      /\ tty.queue = <<>> /\ tty.buf = <<>> /\ tty.typed = 0
      /\ seen.printed = <<>> /\ ~seen.overrun /\ seen.put = 0 /\ seen.got = <<>>
  BY <1>1, <1>2 DEF IInv, Untouched
<1>5. UNCHANGED <<host, tty, mem, dm, hart, board, seen>>
  BY DEF LoadImage
<1>6. 0 \in Indices /\ Minus(0, 0) = 0 /\ Plus(0, 0) = 0
  BY BufferAssumption DEF Indices, Minus, Plus
<1>7. Types'
  BY <1>1, <1>2, <1>5 DEF IInv, Types, Programming, Booting
<1>8. Scripted' /\ Untouched'
  BY <1>1, <1>2, <1>3, <1>4, <1>5 DEF IInv, Scripted, Untouched, Booting
<1>9. Outputs'
  <2>1. published' = 0 /\ printed' = 0
    BY <1>2, <1>4, <1>5 DEF published, printed
  <2>2. QED BY <1>2, <1>3, <1>4, <1>5, <1>6, <2>1, BufferAssumption DEF Outputs
<1>10. Inputs'
  <2>1. unread' = 0 /\ taken' = 0 /\ keys' = 0
    BY <1>2, <1>3, <1>4, <1>5, <1>6 DEF unread, taken, keys
  <2>2. QED BY <1>1, <1>2, <1>3, <1>4, <1>5, <1>6, <2>1 DEF Inputs
<1>11. Terminal' /\ Draining' /\ Finishing' /\ Keys' /\ InOrder'
  BY <1>1, <1>2, <1>3, <1>4, <1>5 DEF IInv, Types, Untouched, Hosts, Memories, Ttys, DebugModules,
     Boards, Histories, Loop, Ends, Programming, Booting, Interrupt, Terminal, Draining, published,
     printed, Finishing, Keys, keys, InOrder, LoadImage
<1>12. QED BY <1>7, <1>8, <1>9, <1>10, <1>11 DEF IInv

(* The switch to the system bus.                                           *)
LEMMA UseSysbusKeeps ==
  ASSUME IInv, UseSysbus, UNCHANGED task
  PROVE  IInv'
<1>1. /\ pc = "script" /\ pc' = pc /\ line' = line + 1 /\ line = IF task = "run_prog" THEN 34 ELSE 32
      /\ board' = [board EXCEPT !.access = "sysbus"]
  BY Commanded DEF IInv, UseSysbus, Sent, At, Done
<1>2. Types'
  <2>1. board' \in Boards
    BY <1>1 DEF IInv, Types, Boards
  <2>2. QED BY <1>1, <2>1 DEF IInv, Types, UseSysbus
<1>3. Scripted'
  <2>1. board'.access = "sysbus"
    BY <1>1 DEF IInv, Types, Boards
  <2>2. QED BY <1>1, <2>1 DEF IInv, Scripted, UseSysbus
<1>4. Terminal' /\ Untouched' /\ Outputs' /\ Draining' /\ Finishing' /\ Keys' /\ Inputs' /\ InOrder'
  BY <1>1 DEF IInv, Types, Untouched, Hosts, Memories, Ttys, DebugModules, Boards, Histories, Loop,
     Ends, Programming, Booting, Interrupt, Terminal, Outputs, published, printed, Draining, Finishing,
     Keys, keys, Inputs, taken, unread, InOrder, UseSysbus, Scripted
<1>5. QED BY <1>2, <1>3, <1>4 DEF IInv

(* The hart runs the program in the last line but one.                     *)
LEMMA ResumeKeeps ==
  ASSUME IInv, Resume, UNCHANGED task
  PROVE  IInv'
<1>1. pc = "script" /\ pc' = pc /\ line' = line + 1 /\ task = "run_prog" /\ line = 35
  BY Commanded DEF IInv, Resume, Sent, At, Done
<1>2. Types'
  BY <1>1 DEF IInv, Types, Resume
<1>3. UNCHANGED <<host, tty, mem, dm, prog, calls, board, seen>> /\ hart' = "running"
  BY DEF Resume
<1>4. Untouched'
  BY <1>1, <1>3 DEF IInv, Untouched, Loop, Booting
<1>5. Terminal' /\ Scripted'
  BY <1>1, <1>3 DEF IInv, Terminal, Scripted
<1>6. Outputs' /\ Draining' /\ Finishing' /\ Keys' /\ Inputs' /\ InOrder'
  BY <1>1, <1>3 DEF IInv, Outputs, published, printed, Draining, Finishing, Keys, keys, Inputs, taken,
     unread, InOrder
<1>7. QED BY <1>2, <1>4, <1>5, <1>6 DEF IInv

(* Commands that change nothing modelled.                                  *)
LEMMA OtherKeeps ==
  ASSUME IInv, Other, UNCHANGED task
  PROVE  IInv'
<1>1. pc = "script" /\ pc' = pc /\ line' = line + 1 /\ (line = 13 \/ (task = "run_prog" /\ line = 33))
  BY Commanded DEF IInv, Other, Sent, At, Done
<1>2. Types'
  BY <1>1 DEF IInv, Types, Other
<1>3. Scripted'
  BY <1>1 DEF IInv, Scripted, Other
<1>4. Terminal' /\ Untouched' /\ Outputs' /\ Draining' /\ Finishing' /\ Keys' /\ Inputs' /\ InOrder'
  BY <1>1 DEF IInv, Types, Untouched, Hosts, Memories, Ttys, DebugModules, Boards, Histories, Loop,
     Ends, Programming, Booting, Interrupt, Terminal, Outputs, published, printed, Draining, Finishing,
     Keys, keys, Inputs, taken, unread, InOrder, Other, Scripted
<1>5. QED BY <1>2, <1>3, <1>4 DEF IInv

(* The loop begins with the program running and nothing printed.           *)
LEMMA EnterLoopKeeps ==
  ASSUME IInv, EnterLoop, UNCHANGED task
  PROVE  IInv'
<1>1. pc = "script" /\ pc' = "flags" /\ task = "run_prog" /\ line = 36 /\ prog # "old" /\ hart = "running"
  BY Commanded DEF IInv, EnterLoop, At, Done, Scripted
<1>2. Types'
  <2>1. tty' \in Ttys /\ pc' \in Places
    BY <1>1 DEF IInv, Types, Ttys, Places, Loop, EnterLoop
  <2>2. QED BY <2>1 DEF IInv, Types, EnterLoop
<1>3. Terminal' /\ Scripted' /\ Untouched' /\ Outputs' /\ Draining' /\ Finishing' /\ Keys' /\
   Inputs' /\ InOrder'
  BY <1>1 DEF IInv, Types, Untouched, Hosts, Memories, Ttys, DebugModules, Boards, Histories, Loop,
     Ends, Programming, Booting, Interrupt, Terminal, Scripted, Outputs, published, printed, Draining,
     Finishing, Keys, keys, Inputs, taken, unread, InOrder, EnterLoop
<1>4. QED BY <1>2, <1>3 DEF IInv

(* The wait for the calibration, and its announcement.                     *)
LEMMA AwaitCalibrationKeeps ==
  ASSUME IInv, AwaitCalibration, UNCHANGED task
  PROVE  IInv'
<1>1. pc = "script" /\ pc' = pc /\ line' = line + 1 /\ task # "run_prog" /\ line = 35
  BY Commanded DEF IInv, AwaitCalibration, Sent, At, Done
<1>2. Types'
  BY <1>1 DEF IInv, Types, AwaitCalibration
<1>3. Terminal' /\ Scripted' /\ Untouched' /\ Outputs' /\ Draining' /\ Finishing' /\ Keys' /\
   Inputs' /\ InOrder'
  BY <1>1 DEF IInv, Types, Untouched, Hosts, Memories, Ttys, DebugModules, Boards, Histories, Loop,
     Ends, Programming, Booting, Interrupt, Terminal, Scripted, Outputs, published, printed, Draining,
     Finishing, Keys, keys, Inputs, taken, unread, InOrder, AwaitCalibration
<1>4. QED BY <1>2, <1>3 DEF IInv

(* The announcement changes only what was announced.                       *)
LEMMA AnnounceKeeps ==
  ASSUME IInv, Announce, UNCHANGED task
  PROVE  IInv'
<1>1. pc = "script" /\ pc' = pc /\ line' = line + 1 /\ task # "run_prog" /\ line = 36
  BY Commanded DEF IInv, Announce, At, Done
<1>2. Types'
  <2>1. seen' \in Histories
    BY DEF IInv, Types, Histories, Announce
  <2>2. QED BY <1>1, <2>1 DEF IInv, Types, Announce
<1>3. Scripted'
  BY <1>1 DEF IInv, Scripted, Announce
<1>4. Terminal' /\ Untouched' /\ Outputs' /\ Draining' /\ Finishing' /\ Keys' /\ Inputs' /\ InOrder'
  BY <1>1 DEF IInv, Types, Untouched, Hosts, Memories, Ttys, DebugModules, Boards, Histories, Loop,
     Ends, Programming, Booting, Interrupt, Terminal, Outputs, published, printed, Draining, Finishing,
     Keys, keys, Inputs, taken, unread, InOrder, Announce, Scripted
<1>5. QED BY <1>2, <1>3, <1>4 DEF IInv

(* The data is loaded last, and the session shuts down.                    *)
LEMMA LoadDataKeeps ==
  ASSUME IInv, LoadData, UNCHANGED task
  PROVE  IInv'
<1>1. pc = "script" /\ pc' = "shutdown" /\ task # "run_prog" /\ prog = "old"
  BY Commanded DEF IInv, LoadData, Sent, At, Scripted
<1>2. Types'
  BY <1>1 DEF IInv, Types, Places, Ends, LoadData
<1>3. Terminal' /\ Scripted' /\ Untouched' /\ Outputs' /\ Draining' /\ Finishing' /\ Keys' /\
   Inputs' /\ InOrder'
  BY <1>1 DEF IInv, Types, Untouched, Hosts, Memories, Ttys, DebugModules, Boards, Histories, Loop,
     Ends, Programming, Booting, Interrupt, Terminal, Scripted, Outputs, published, printed, Draining,
     Finishing, Keys, keys, Inputs, taken, unread, InOrder, LoadData
<1>4. QED BY <1>2, <1>3 DEF IInv

(* The controller calibrates by itself.                                    *)
LEMMA CalibrateKeeps ==
  ASSUME IInv, Calibrate, UNCHANGED task
  PROVE  IInv'
<1>1. board \in Boards /\ board' = [board EXCEPT !.calibrated = TRUE]
  BY DEF IInv, Types, Calibrate
<1>2. board' \in Boards
  BY <1>1 DEF Boards
<1>3. Types'
  BY <1>2 DEF IInv, Types, Calibrate
<1>4. Terminal' /\ Scripted' /\ Untouched' /\ Outputs' /\ Draining' /\ Finishing' /\ Keys' /\
   Inputs' /\ InOrder'
  BY DEF IInv, Types, Untouched, Hosts, Memories, Ttys, DebugModules, Boards, Histories, Loop, Ends,
     Programming, Booting, Interrupt, Terminal, Scripted, Outputs, published, printed, Draining,
     Finishing, Keys, keys, Inputs, taken, unread, InOrder, Calibrate
<1>5. QED BY <1>3, <1>4 DEF IInv

(* An exception ends the session from wherever a command is sent; in the    *)
(* script the terminal is not raw yet.                                     *)
LEMMA RaisesKeeps ==
  ASSUME IInv, Commanding, pc # "shutdown", Raises, UNCHANGED task
  PROVE  IInv'
<1>1. /\ pc \in Loop \cup {"retval"} \/ (pc = "script" /\ ~(task = "run_prog" /\ line = 36))
      /\ pc' = IF tty.raw THEN "restore" ELSE "shutdown"
      /\ host' = [host EXCEPT !.failed = TRUE]
      /\ UNCHANGED <<line, tty, mem, dm, hart, prog, calls, board, seen>>
  <2>1. ASSUME pc = "script", task = "run_prog", line = 36 PROVE FALSE
    <3>1. Script[36] = word("enter_loop") /\ (word("enter_loop"))[1] = "enter_loop"
      BY <2>1, ScriptLines DEF word
    <3>2. QED BY <2>1, <3>1 DEF Commanding, Reading, At
  <2>2. pc \in Loop \cup {"retval", "script"}
    BY DEF Commanding, Reading, At, Loop
  <2>3. QED BY <2>1, <2>2 DEF Raises
<1>2. Types'
  <2>1. host' \in Hosts /\ pc' \in Places
    BY <1>1 DEF IInv, Types, Hosts, Places, Loop, Ends
  <2>2. QED BY <1>1, <2>1 DEF IInv, Types
<1>3. pc = "script" => ~tty.raw /\ (prog = "old" \/ hart = "halted")
  <2>1. ASSUME pc = "script" PROVE prog = "old" \/ hart = "halted"
    <3>1. line \in 1 .. (IF task = "run_prog" THEN 36 ELSE 37)
      BY <2>1 DEF IInv, Scripted
    <3>2. CASE line <= 32 \/ task # "run_prog"
      BY <2>1, <3>2 DEF IInv, Scripted
    <3>3. CASE line > 32 /\ task = "run_prog"
      <4>1. line \in 33 .. 35
        <5>1. line # 36
          BY <1>1, <2>1, <3>3 DEF Loop
        <5>2. QED BY <3>1, <3>3, <5>1
      <4>2. QED BY <2>1, <3>3, <4>1 DEF IInv, Scripted
    <3>4. QED BY <3>1, <3>2, <3>3
  <2>2. ASSUME pc = "script" PROVE ~tty.raw
    BY <2>2 DEF IInv, Terminal, Loop
  <2>3. QED BY <2>1, <2>2
<1>4. host'.failed /\ \A f \in {"flags", "obuf_ridx", "ibuf_widx", "widx", "wordaddr", "char", "iword"} :
        host'[f] = host[f]
  BY <1>1 DEF IInv, Types, Hosts
<1>5. Untouched'
  <2>1. prog # "old" => hart = "running" \/ (hart = "halted" /\ pc' = "shutdown")
    <3>1. CASE pc = "script"
      BY <1>1, <1>3, <3>1
    <3>2. CASE pc # "script"
      BY <1>1, <3>2 DEF IInv, Untouched, Loop
    <3>3. QED BY <3>1, <3>2
  <2>2. pc' \in Loop \cup {"restore", "retval"} => prog # "old"
    BY <1>1, <1>3 DEF IInv, Untouched, Terminal, Loop
  <2>3. QED BY <1>1, <1>4, <2>1, <2>2 DEF IInv, Untouched, Loop, Booting
<1>6. Terminal' /\ Scripted' /\ Draining' /\ Finishing'
  BY <1>1, <1>3, <1>4 DEF IInv, Terminal, Scripted, Draining, Finishing, published, printed, Loop
<1>7. Outputs' /\ InOrder'
  BY <1>1, <1>4 DEF IInv, Outputs, published, printed, InOrder
<1>8. Keys'
  BY <1>1, <1>4 DEF IInv, Keys, keys
<1>9. Inputs'
  BY <1>1, <1>4 DEF IInv, Inputs, taken, unread, keys
<1>10. QED BY <1>2, <1>5, <1>6, <1>7, <1>8, <1>9 DEF IInv

(* That the connection goes away changes nothing yet.                      *)
LEMMA ConnectionLostKeeps ==
  ASSUME IInv, ConnectionLost, UNCHANGED task
  PROVE  IInv'
<1>1. PICK how \in {"ended", "reset"} : board' = [board EXCEPT !.openocd = how]
  BY DEF ConnectionLost
<1>2. board' \in Boards /\ board'.access = board.access /\ pc # "over"
  BY <1>1 DEF IInv, Types, Boards, ConnectionLost
<1>3. Types'
  BY <1>2 DEF IInv, Types, ConnectionLost
<1>4. Terminal' /\ Scripted' /\ Untouched' /\ Outputs' /\ Draining' /\ Finishing' /\ Keys' /\
   Inputs' /\ InOrder'
  BY <1>2 DEF IInv, Types, Untouched, Hosts, Memories, Ttys, DebugModules, Histories, Loop, Ends,
     Programming, Booting, Interrupt, Terminal, Scripted, Outputs, published, printed, Draining,
     Finishing, Keys, keys, Inputs, taken, unread, InOrder, ConnectionLost
<1>5. QED BY <1>3, <1>4 DEF IInv

(* The old program writes its words of hostio, and only while it runs.     *)
LEMMA OldProgramKeeps ==
  ASSUME IInv, OldProgram, UNCHANGED task
  PROVE  IInv'
<1>1. PICK at \in {"flags", "retval", "obuf_widx"} : mem' = [mem EXCEPT ![at] = 1]
  BY DEF OldProgram
<1>2. Types'
  <2>1. 1 \in Int /\ at \in Words /\ mem \in Memories
    BY DEF Words, IInv, Types
  <2>2. mem' \in Memories
    BY <1>1, <2>1, MemoryWord
  <2>3. QED BY <2>2 DEF IInv, Types, OldProgram
<1>3. Terminal' /\ Scripted' /\ Untouched' /\ Outputs' /\ Draining' /\ Finishing' /\ Keys' /\
   Inputs' /\ InOrder'
  BY <1>1 DEF IInv, Types, Untouched, Hosts, Memories, Ttys, DebugModules, Boards, Histories, Loop,
     Ends, Programming, Booting, Interrupt, Terminal, Scripted, Outputs, published, printed, Draining,
     Finishing, Keys, keys, Inputs, taken, unread, InOrder, OldProgram, Runs
<1>4. QED BY <1>2, <1>3 DEF IInv

(* The hart leaves its reset only while the old program is in memory, and  *)
(* where the script relies on it the request to halt is still there.       *)
LEMMA LeaveResetKeeps ==
  ASSUME IInv, LeaveReset, UNCHANGED task
  PROVE  IInv'
<1>1. hart = "reset" /\ ~dm.ndmreset /\ hart' \in {"halted", "running"} /\ (haltreq => hart' = "halted")
  BY DEF LeaveReset
<1>2. UNCHANGED <<pc, line, host, tty, mem, dm, calls, board, seen, task>>
  BY DEF LeaveReset
<1>3. prog = "old" /\ prog' = prog
  <2>1. CASE pc = "script"
    BY <1>1, <2>1 DEF IInv, Scripted, LeaveReset
  <2>2. CASE pc # "script"
    BY <1>1, <2>2 DEF IInv, Untouched, LeaveReset
  <2>3. QED BY <2>1, <2>2
<1>4. Types'
  BY <1>1, <1>2, <1>3 DEF IInv, Types
<1>5. Scripted'
  <2>1. ASSUME pc = "script"
        PROVE  /\ line \notin 10 .. 19 \cup 23 .. 37 \cup {7, 8, 20, 21}
               /\ line \in {9, 22} => hart' = "halted"
    <3>1. line \in {9, 22} => haltreq
      BY <2>1 DEF IInv, Scripted, haltreq
    <3>2. QED BY <1>1, <2>1, <3>1 DEF IInv, Scripted
  <2>2. \A i \in 1 .. 6 : pc' = "script" => ~(line' > 25 + i)
    BY <1>2, <2>1 DEF IInv, Scripted
  <2>3. QED BY <1>2, <1>3, <2>1, <2>2 DEF IInv, Scripted
<1>6. Terminal' /\ Untouched' /\ Outputs' /\ Draining' /\ Finishing' /\ Keys' /\ Inputs' /\ InOrder'
  BY <1>1, <1>2, <1>3 DEF IInv, Types, Untouched, Hosts, Memories, Ttys, DebugModules, Boards,
     Histories, Loop, Ends, Programming, Booting, Interrupt, Terminal, Outputs, published, printed,
     Draining, Finishing, Keys, keys, Inputs, taken, unread, InOrder
<1>7. QED BY <1>4, <1>5, <1>6 DEF IInv

-----------------------------------------------------------------------------
(* The word at an address, as far as the ring goes.                        *)
LEMMA WordRead ==
  ASSUME NEW b \in [Indices -> Int], NEW i \in Indices
  PROVE  /\ Word(b, WordOf(i)) \in [0 .. WORD - 1 -> Int]
         /\ \A j \in Indices : WordOf(j) = WordOf(i) => Word(b, WordOf(i))[j % WORD] = b[j]
<1>1. \A k \in 0 .. WORD - 1 : WordOf(i) + k \in Indices
  BY WordAlignment
<1>2. Word(b, WordOf(i)) \in [0 .. WORD - 1 -> Int]
  BY <1>1 DEF Word
<1>3. ASSUME NEW j \in Indices, WordOf(j) = WordOf(i)
      PROVE  Word(b, WordOf(i))[j % WORD] = b[j]
  <2>1. j % WORD \in 0 .. WORD - 1 /\ WordOf(j) + (j % WORD) = j
    BY WordAlignment
  <2>2. QED BY <1>3, <2>1 DEF Word
<1>4. QED BY <1>2, <1>3

(* What waits in the output ring is less than the ring.                    *)
LEMMA Waiting ==
  ASSUME IInv, prog # "old"
  PROVE  /\ BUF_SIZE \in Nat \ {0} /\ host.obuf_ridx \in Indices /\ mem.obuf_ridx \in Indices
         /\ printed \in Nat /\ seen.put \in Nat /\ published \in {seen.put - 1, seen.put}
         /\ published - printed \in Indices /\ seen.put - printed \in Indices
         /\ mem.obuf_widx = Plus(host.obuf_ridx, published - printed)
         /\ mem.obuf_widx \in Indices
<1>1. /\ BUF_SIZE \in Nat \ {0} /\ host.obuf_ridx \in Indices /\ mem.obuf_ridx \in Indices
      /\ printed \in Nat /\ seen.put \in Nat
  BY BufferAssumption DEF IInv, Types, Hosts, Histories, Outputs, printed
<1>2. Minus(host.obuf_ridx, mem.obuf_ridx) \in Indices
  BY <1>1, Rings
<1>3. printed <= published /\ published \in {seen.put - 1, seen.put}
  BY DEF IInv, Outputs, published
<1>4. Minus(host.obuf_ridx, mem.obuf_ridx) + seen.put - printed <= BUF_SIZE - 1
  BY DEF IInv, Outputs
<1>5. published - printed \in Indices /\ seen.put - printed \in Indices
  BY <1>1, <1>2, <1>3, <1>4 DEF Indices
<1>6. mem.obuf_widx = Plus(host.obuf_ridx, published - printed)
  BY DEF IInv, Outputs
<1>7. QED BY <1>1, <1>3, <1>5, <1>6, RingArithmetic

(* The flag is read before the index: set, it says that all is published.  *)
LEMMA ReadFlagsKeeps ==
  ASSUME IInv, ReadFlags, UNCHANGED task
  PROVE  IInv'
<1>1. Types'
  <2>1. host' \in Hosts /\ pc' \in Places
    BY DEF IInv, Types, Hosts, Memories, Places, Loop, ReadFlags
  <2>2. QED BY <2>1 DEF IInv, Types, ReadFlags
<1>2. Terminal' /\ Scripted' /\ Untouched' /\ Finishing' /\ Keys'
  BY DEF IInv, Types, Untouched, Hosts, Memories, Ttys, DebugModules, Boards, Histories, Loop, Ends,
     Programming, Booting, Interrupt, Terminal, Scripted, Finishing, printed, Keys, keys, ReadFlags
<1>3. Outputs' /\ Draining' /\ Inputs' /\ InOrder'
  BY DEF IInv, Types, Untouched, Hosts, Memories, Ttys, DebugModules, Boards, Histories, Loop, Ends,
     Programming, Booting, Interrupt, Outputs, published, printed, Draining, Inputs, taken, unread,
     keys, InOrder, ReadFlags
<1>4. QED BY <1>1, <1>2, <1>3 DEF IInv

(* The host reads an index.                                                *)
LEMMA HostIndex ==
  ASSUME NEW h \in Hosts, NEW a \in Int, NEW b \in Int
  PROVE  [h EXCEPT !.widx = a, !.wordaddr = b] \in Hosts
BY DEF Hosts

(* The index read is the program's, so all that is published may be printed. *)
LEMMA ReadObufWidxKeeps ==
  ASSUME IInv, ReadObufWidx, UNCHANGED task
  PROVE  IInv'
<1>1. prog # "old" /\ prog' = prog
  BY DEF IInv, Untouched, Loop, ReadObufWidx
<1>2. /\ host'.widx = mem.obuf_widx /\ host'.wordaddr = -1
      /\ host'.obuf_ridx = host.obuf_ridx /\ host'.flags = host.flags
      /\ host'.ibuf_widx = host.ibuf_widx /\ host'.char = host.char /\ host'.failed = host.failed
      /\ host'.iword = host.iword /\ host'.retval = host.retval
  BY DEF IInv, Types, Hosts, ReadObufWidx
<1>3. Types'
  <2>1. host \in Hosts /\ mem.obuf_widx \in Int /\ -1 \in Int
    BY DEF IInv, Types, Memories
  <2>2. host' = [host EXCEPT !.widx = mem.obuf_widx, !.wordaddr = -1]
    BY DEF ReadObufWidx
  <2>3. host' \in Hosts
    BY <2>1, <2>2, HostIndex
  <2>4. QED BY <2>3 DEF IInv, Types, Places, Loop, ReadObufWidx
<1>4. Draining'
  <2>1. UNCHANGED <<mem, seen, prog>>
    BY DEF ReadObufWidx
  <2>2. Minus(mem.obuf_widx, host.obuf_ridx) = published - printed
    BY <1>1, Waiting, RingArithmetic
  <2>3. \A d \in Indices : WordOf(Plus(host.obuf_ridx, d)) # -1
    <3>1. ASSUME NEW d \in Indices PROVE WordOf(Plus(host.obuf_ridx, d)) # -1
      <4>1. Plus(host.obuf_ridx, d) \in Indices
        BY <1>1, Waiting, RingArithmetic
      <4>2. WordOf(Plus(host.obuf_ridx, d)) \in Indices
        BY <4>1, WordAlignment
      <4>3. QED BY <4>2 DEF Indices
    <3>2. QED BY <3>1
  <2>4. 0 .. Minus(mem.obuf_widx, host.obuf_ridx) - 1 \subseteq Indices
    BY <1>1, <2>2, Waiting DEF Indices
  <2>5. host'.widx \in Indices /\ published' = published /\ printed' = printed
    BY <1>1, <1>2, <2>1, Waiting DEF published, printed
  <2>6. Minus(host'.widx, host'.obuf_ridx) = published' - printed'
    BY <1>2, <2>2, <2>5
  <2>7. QED BY <1>1, <1>2, <2>2, <2>3, <2>4, <2>5, <2>6, Waiting DEF Draining, Indices
<1>5. Terminal' /\ Scripted' /\ Untouched' /\ Outputs' /\ Finishing' /\ Keys' /\ Inputs' /\ InOrder'
  BY <1>1, <1>2 DEF IInv, Types, Untouched, Hosts, Memories, Ttys, DebugModules, Boards, Histories,
     Loop, Ends, Programming, Booting, Interrupt, Terminal, Scripted, Outputs, published, printed,
     Finishing, Keys, keys, Inputs, taken, unread, InOrder, ReadObufWidx
<1>6. QED BY <1>3, <1>4, <1>5 DEF IInv

(* The word read holds what the program stored, up to the index.           *)
LEMMA ReadObufWordKeeps ==
  ASSUME IInv, ReadObufWord, UNCHANGED task
  PROVE  IInv'
<1> DEFINE ridx == host.obuf_ridx
<1>1. prog # "old" /\ UNCHANGED <<prog, mem, seen, pc>> /\ pc = "drain"
  BY DEF IInv, Untouched, Loop, ReadObufWord
<1>2. /\ host'.wordaddr = WordOf(ridx) /\ host'.word = Word(mem.obuf, WordOf(ridx))
      /\ host'.widx = host.widx /\ host'.obuf_ridx = ridx /\ host'.flags = host.flags
      /\ host'.ibuf_widx = host.ibuf_widx /\ host'.char = host.char /\ host'.failed = host.failed
      /\ host'.iword = host.iword /\ host'.retval = host.retval
  BY DEF IInv, Types, Hosts, ReadObufWord
<1>3. /\ ridx \in Indices /\ mem.obuf \in [Indices -> Int]
      /\ host.widx \in Indices /\ Minus(host.widx, ridx) \in Indices
  BY <1>1, Rings DEF IInv, Types, Hosts, Memories, Draining
<1>4. Types'
  <2>1. WordOf(ridx) \in Int /\ Word(mem.obuf, WordOf(ridx)) \in [0 .. WORD - 1 -> Int]
    <3>1. WordOf(ridx) \in Indices /\ Word(mem.obuf, WordOf(ridx)) \in [0 .. WORD - 1 -> Int]
      BY <1>3, WordRead, WordAlignment
    <3>2. QED BY <3>1 DEF Indices
  <2>2. host' \in Hosts
    BY <2>1 DEF IInv, Types, Hosts, ReadObufWord
  <2>3. QED BY <2>2 DEF IInv, Types, ReadObufWord
<1>5. Draining'
  <2>1. ASSUME NEW d \in 0 .. Minus(host.widx, ridx) - 1, WordOf(Plus(ridx, d)) = WordOf(ridx)
        PROVE  Word(mem.obuf, WordOf(ridx))[Plus(ridx, d) % WORD] = printed + d + 1
    <3>1. d \in Indices /\ Plus(ridx, d) \in Indices
      BY <1>3, RingArithmetic, BufferAssumption DEF Indices
    <3>2. Word(mem.obuf, WordOf(ridx))[Plus(ridx, d) % WORD] = mem.obuf[Plus(ridx, d)]
      BY <1>3, <2>1, <3>1, WordRead
    <3>3. d \in 0 .. seen.put - printed - 1
      <4>1. Minus(host.widx, ridx) <= published - printed
        BY <1>1 DEF IInv, Draining
      <4>2. QED BY <1>1, <1>3, <4>1, Waiting DEF Indices
    <3>4. QED BY <1>1, <3>2, <3>3 DEF IInv, Outputs
  <2>2. published' = published /\ printed' = printed
    BY <1>1 DEF published, printed
  <2>3. QED BY <1>1, <1>2, <2>1, <2>2 DEF IInv, Draining
<1>6. Terminal' /\ Scripted' /\ Untouched' /\ Outputs' /\ Finishing' /\ Keys' /\ Inputs' /\ InOrder'
  BY <1>1, <1>2 DEF IInv, Types, Untouched, Hosts, Memories, Ttys, DebugModules, Boards, Histories,
     Loop, Ends, Programming, Booting, Interrupt, Terminal, Scripted, Outputs, published, printed,
     Finishing, Keys, keys, Inputs, taken, unread, InOrder, ReadObufWord
<1>7. QED BY <1>4, <1>5, <1>6 DEF IInv

(* One character further: the one printed is the next.                     *)
LEMMA PrintCharKeeps ==
  ASSUME IInv, PrintChar, UNCHANGED task
  PROVE  IInv'
<1> DEFINE ridx == host.obuf_ridx
           char == host.word[ridx % WORD]
<1>1. prog # "old" /\ UNCHANGED <<pc, line, tty, mem, dm, hart, prog, calls, board>> /\ pc = "drain"
  BY DEF IInv, Untouched, Loop, PrintChar
<1>2. /\ ridx \in Indices /\ host.widx \in Indices /\ host.widx # ridx
      /\ Minus(host.widx, ridx) <= published - printed
      /\ host.flags = 1 => Minus(host.widx, ridx) = published - printed
  BY <1>1 DEF IInv, Types, Hosts, Draining, PrintChar
<1>3. /\ Plus(ridx, 1) \in Indices /\ Plus(ridx, 0) = ridx /\ Minus(host.widx, ridx) \in Indices
      /\ Minus(host.widx, ridx) >= 1
  <2>1. Plus(ridx, 1) \in Indices /\ Minus(host.widx, ridx) \in Indices
    BY <1>2, Rings
  <2>2. Plus(ridx, 0) = ridx /\ Minus(host.widx, ridx) >= 1
    BY <1>2, BufferAssumption DEF Indices, Plus, Minus
  <2>3. QED BY <2>1, <2>2
<1>4. char = printed + 1
  <2>1. 0 \in 0 .. Minus(host.widx, ridx) - 1 /\ WordOf(Plus(ridx, 0)) = host.wordaddr
    BY <1>3 DEF Indices, PrintChar
  <2>2. host.word[Plus(ridx, 0) % WORD] = printed + 0 + 1
    BY <1>1, <2>1 DEF IInv, Draining
  <2>3. QED BY <1>1, <1>3, <2>2, Waiting
<1>5. /\ host'.obuf_ridx = Plus(ridx, 1) /\ host' = [host EXCEPT !.obuf_ridx = Plus(ridx, 1)]
      /\ host'.widx = host.widx /\ host'.wordaddr = host.wordaddr /\ host'.word = host.word
      /\ host'.flags = host.flags /\ host'.failed = host.failed
      /\ host'.ibuf_widx = host.ibuf_widx /\ host'.char = host.char
      /\ host'.iword = host.iword /\ host'.retval = host.retval
  BY <1>2, Rings DEF IInv, Types, Hosts, PrintChar
<1>6. /\ seen'.printed = Append(seen.printed, printed + 1) /\ seen'.put = seen.put
      /\ seen'.got = seen.got /\ seen'.overrun = seen.overrun
      /\ seen' = [seen EXCEPT !.printed = Append(seen.printed, printed + 1)]
  BY <1>4 DEF IInv, Types, Histories, PrintChar
<1>7. seen.printed \in Seq(Int) /\ printed + 1 \in Int
  BY <1>1, Waiting DEF IInv, Types, Histories
<1>8. Append(seen.printed, printed + 1) \in Seq(Int) /\ Len(Append(seen.printed, printed + 1)) = printed + 1
  BY <1>7 DEF printed
<1>9. printed' = printed + 1 /\ published' = published
  BY <1>1, <1>6, <1>8 DEF printed, published
<1>10. Types'
  <2>1. host' \in Hosts
    BY <1>3, <1>5 DEF IInv, Types, Hosts
  <2>2. seen' \in Histories
    BY <1>6, <1>8 DEF IInv, Types, Histories
  <2>3. QED BY <1>1, <2>1, <2>2 DEF IInv, Types
<1>11. Outputs'
  <2>1. Minus(Plus(ridx, 1), mem.obuf_ridx) <= Minus(ridx, mem.obuf_ridx) + 1
    BY <1>1, <1>2, Waiting DEF Indices, Plus, Minus
  <2>2. Plus(Plus(ridx, 1), published - printed - 1) = Plus(ridx, published - printed)
    BY <1>1, <1>2, <1>3, Waiting DEF Indices, Plus
  <2>3. ASSUME NEW d \in 0 .. seen.put - (printed + 1) - 1
        PROVE  mem.obuf[Plus(Plus(ridx, 1), d)] = printed + 1 + d + 1
    <3>1. d + 1 \in 0 .. seen.put - printed - 1
      BY <1>1, Waiting
    <3>2. mem.obuf[Plus(ridx, d + 1)] = printed + (d + 1) + 1
      BY <1>1, <3>1 DEF IInv, Outputs
    <3>3. Plus(Plus(ridx, 1), d) = Plus(ridx, d + 1)
      BY <1>1, <1>2, <3>1, Waiting DEF Indices, Plus
    <3>4. QED BY <1>1, <3>2, <3>3, Waiting
  <2>4. printed + 1 <= published
    BY <1>1, <1>2, <1>3, Waiting DEF Indices
  <2>5. Minus(Plus(ridx, 1), mem.obuf_ridx) + seen.put - (printed + 1) <= BUF_SIZE - 1
    <3>1. Minus(ridx, mem.obuf_ridx) + seen.put - printed <= BUF_SIZE - 1
      BY <1>1 DEF IInv, Outputs
    <3>2. Minus(ridx, mem.obuf_ridx) \in Int /\ Minus(Plus(ridx, 1), mem.obuf_ridx) \in Int
      <4>1. Minus(ridx, mem.obuf_ridx) \in Indices /\ Minus(Plus(ridx, 1), mem.obuf_ridx) \in Indices
        BY <1>1, <1>2, <1>3, Waiting, Rings
      <4>2. QED BY <4>1 DEF Indices
    <3>3. QED BY <1>1, <2>1, <3>1, <3>2, Waiting
  <2>6. mem.obuf_ridx \in Indices /\ mem.obuf_widx = Plus(Plus(ridx, 1), published - (printed + 1))
    BY <1>1, <2>2, Waiting
  <2>7. QED BY <1>1, <1>5, <1>6, <1>9, <2>3, <2>4, <2>5, <2>6 DEF Outputs
<1>12. Draining'
  <2>1. Minus(host.widx, Plus(ridx, 1)) = Minus(host.widx, ridx) - 1
    BY <1>1, <1>2, <1>3, BufferAssumption DEF Indices, Plus, Minus
  <2>2. ASSUME NEW d \in 0 .. Minus(host.widx, ridx) - 1 - 1,
               WordOf(Plus(Plus(ridx, 1), d)) = host.wordaddr
        PROVE  host.word[Plus(Plus(ridx, 1), d) % WORD] = printed + 1 + d + 1
    <3>1. d + 1 \in 0 .. Minus(host.widx, ridx) - 1
      BY <1>3 DEF Indices
    <3>2. Plus(Plus(ridx, 1), d) = Plus(ridx, d + 1)
      BY <1>2, <1>3, <3>1, BufferAssumption DEF Indices, Plus
    <3>3. host.word[Plus(ridx, d + 1) % WORD] = printed + (d + 1) + 1
      BY <1>1, <2>2, <3>1, <3>2 DEF IInv, Draining
    <3>4. QED BY <1>1, <3>2, <3>3, Waiting
  <2>3. Minus(host.widx, ridx) - 1 <= published - (printed + 1)
    BY <1>1, <1>2, <1>3, Waiting DEF Indices
  <2>4. host.flags = 1 => Minus(host.widx, ridx) - 1 = published - (printed + 1)
    BY <1>1, <1>2, <1>3, Waiting DEF Indices
  <2>5. QED BY <1>1, <1>2, <1>5, <1>9, <2>1, <2>2, <2>3, <2>4 DEF Draining
<1>13. InOrder'
  <2>1. seen.printed = UpTo(printed)
    BY DEF IInv, InOrder
  <2>2. Append(UpTo(printed), printed + 1) = UpTo(printed + 1)
    BY <1>1, Waiting, Counting
  <2>3. QED BY <1>6, <1>9, <2>1, <2>2 DEF IInv, InOrder
<1>14. Terminal' /\ Scripted' /\ Untouched'
  BY <1>1, <1>5, <1>6, <1>9 DEF IInv, Terminal, Scripted, Untouched, Booting, Loop
<1>15. Finishing' /\ Keys' /\ Inputs'
  <2>1. Finishing'
    BY <1>1, <1>5, <1>6, <1>9 DEF IInv, Finishing
  <2>2. Keys' /\ Inputs'
    BY <1>1, <1>5, <1>6 DEF IInv, Keys, keys, Inputs, taken, unread
  <2>3. QED BY <2>1, <2>2
<1>16. QED BY <1>10, <1>11, <1>12, <1>13, <1>14, <1>15 DEF IInv

(* The host gives the ring back, having printed all that it knew of.       *)
LEMMA WriteObufRidxKeeps ==
  ASSUME IInv, WriteObufRidx, UNCHANGED task
  PROVE  IInv'
<1> DEFINE ridx == host.obuf_ridx
<1>1. prog # "old" /\ UNCHANGED <<line, host, tty, dm, hart, prog, calls, board, seen>>
  BY DEF IInv, Untouched, Loop, WriteObufRidx
<1>2. /\ pc = "drain" /\ pc' = "select" /\ ridx \in Indices /\ host.widx = ridx
      /\ mem' = [mem EXCEPT !.obuf_ridx = ridx]
  BY DEF IInv, Types, Hosts, WriteObufRidx
<1>3. mem \in Memories /\ ridx \in Int
  BY <1>2 DEF IInv, Types, Indices
<1>4. mem' \in Memories
  BY <1>2, <1>3 DEF Memories
<1>5. /\ mem'.obuf_ridx = ridx /\ mem'.obuf_widx = mem.obuf_widx /\ mem'.obuf = mem.obuf
      /\ mem'.flags = mem.flags /\ mem'.retval = mem.retval
      /\ mem'.ibuf = mem.ibuf /\ mem'.ibuf_widx = mem.ibuf_widx /\ mem'.ibuf_ridx = mem.ibuf_ridx
  BY <1>2, <1>3 DEF Memories
<1>6. Types'
  BY <1>1, <1>2, <1>4 DEF IInv, Types, Places, Loop
<1>7. Outputs'
  <2>1. Minus(ridx, ridx) = 0
    BY <1>2, RingArithmetic DEF Minus
  <2>2. published' = published /\ printed' = printed
    BY <1>1 DEF published, printed
  <2>3. 0 + seen.put - printed <= BUF_SIZE - 1
    BY <1>1, Waiting DEF Indices
  <2>4. QED BY <1>1, <1>2, <1>5, <2>1, <2>2, <2>3 DEF IInv, Outputs
<1>8. Finishing'
  <2>1. Minus(host.widx, ridx) = 0
    BY <1>2, RingArithmetic DEF Minus
  <2>2. host.flags = 1 => prog = "end_loop" /\ published - printed = 0
    BY <1>2, <2>1 DEF IInv, Finishing, Draining
  <2>3. host.flags = 1 => printed = seen.put
    BY <1>1, <2>2, Waiting DEF published
  <2>4. printed' = printed
    BY <1>1 DEF printed
  <2>5. QED BY <1>1, <1>2, <1>5, <2>2, <2>3, <2>4 DEF IInv, Finishing
<1>9. Terminal' /\ Scripted' /\ Untouched' /\ Draining' /\ Keys' /\ Inputs' /\ InOrder'
  BY <1>1, <1>2, <1>5 DEF IInv, Types, Untouched, Hosts, Memories, Ttys, DebugModules, Boards,
     Histories, Loop, Ends, Programming, Booting, Interrupt, Terminal, Scripted, Draining, published,
     printed, Keys, keys, Inputs, taken, unread, InOrder
<1>10. QED BY <1>6, <1>7, <1>8, <1>9 DEF IInv

(* The places between two of a ring, and the one after.                    *)
LEMMA RingBetween ==
  ASSUME NEW i \in Indices, NEW j \in Indices
  PROVE  /\ Minus(j, i) \in Indices /\ Plus(i, Minus(j, i)) = j
         /\ \A d \in 0 .. Minus(j, i) - 1 : Plus(i, d) \in Indices /\ Plus(i, d) # j
BY BufferAssumption DEF Indices, Plus, Minus

(* The place after one is one further.                                     *)
LEMMA RingForward ==
  ASSUME NEW i \in Indices, NEW j \in Indices, Minus(j, i) # BUF_SIZE - 1
  PROVE  Minus(Plus(j, 1), i) = Minus(j, i) + 1
BY BufferAssumption DEF Indices, Plus, Minus

(* No key waits: the loop goes on, or ends.                                *)
LEMMA NoKeyKeeps ==
  ASSUME IInv, NoKey, UNCHANGED task
  PROVE  IInv'
<1>1. pc = "select" /\ pc' \in {"restore", "flags"} /\ (pc' = "restore" <=> host.flags = 1)
  BY DEF NoKey, LoopTest
<1>2. UNCHANGED <<line, host, tty, mem, dm, hart, prog, calls, board, seen, task>>
  BY DEF NoKey
<1>3. Types'
  BY <1>1, <1>2 DEF IInv, Types, Places, Loop, Ends
<1>4. Terminal' /\ Scripted' /\ Untouched' /\ Draining' /\ Finishing'
  BY <1>1, <1>2 DEF IInv, Types, Untouched, Hosts, Memories, Ttys, DebugModules, Boards, Histories,
     Loop, Ends, Programming, Booting, Interrupt, Terminal, Scripted, Draining, published, printed,
     Finishing
<1>5. Outputs' /\ Keys' /\ InOrder'
  BY <1>1, <1>2 DEF IInv, Outputs, published, printed, Keys, keys, InOrder
<1>6. Inputs'
  BY <1>1, <1>2 DEF IInv, Inputs, taken, unread, keys
<1>7. QED BY <1>3, <1>4, <1>5, <1>6 DEF IInv

(* A key is taken from the terminal: the first that waits in sys.stdin,    *)
(* or, when it holds none, the first of all that were typed.               *)
LEMMA ReadKeyKeeps ==
  ASSUME IInv, ReadKey, UNCHANGED task
  PROVE  IInv'
<1> DEFINE all == IF tty.buf # <<>> THEN tty.buf ELSE tty.queue
           rest == IF tty.buf # <<>> THEN tty.queue ELSE <<>>
<1>1. prog # "old" /\ UNCHANGED <<line, mem, dm, hart, prog, calls, board, seen, task>>
  BY DEF IInv, Untouched, Loop, ReadKey
<1>2. /\ pc = "select" /\ pc' = (IF Head(all) = Interrupt THEN "restore" ELSE "ibuf")
      /\ tty.queue \in Seq(Int) /\ tty.buf \in Seq(Int) /\ tty.queue # <<>> /\ tty.typed \in Nat
      /\ host \in Hosts /\ tty \in Ttys
      /\ host' = [host EXCEPT !.char = Head(all)]
      /\ tty' = [tty EXCEPT !.queue = rest, !.buf = Tail(all)]
  BY DEF IInv, Types, Ttys, ReadKey
<1>3. tty.typed \in Nat /\ Len(tty.queue) \in Nat /\ Len(tty.buf) \in Nat
  BY <1>2
<1>4. /\ all \in Seq(Int) /\ all # <<>> /\ rest \in Seq(Int)
      /\ \/ Len(all) = Len(tty.buf) /\ Len(rest) = Len(tty.queue)
         \/ Len(all) = Len(tty.queue) /\ Len(rest) = 0 /\ Len(tty.buf) = 0
  <2>1. CASE tty.buf # <<>>
    BY <1>2, <2>1
  <2>2. CASE tty.buf = <<>>
    <3>1. all = tty.queue /\ rest = <<>>
      BY <2>2
    <3>2. Len(rest) = 0 /\ Len(tty.buf) = 0
      BY <2>2, <3>1
    <3>3. QED BY <1>2, <3>1, <3>2
  <2>3. QED BY <2>1, <2>2
<1>5. /\ \A i \in 1 .. Len(all) : all[i] \in {Interrupt, keys + i}
      /\ \A i \in 1 .. Len(rest) : rest[i] \in {Interrupt, keys + Len(all) + i}
  <2>1. CASE tty.buf # <<>>
    BY <2>1 DEF IInv, Keys
  <2>2. CASE tty.buf = <<>>
    <3>1. Len(tty.buf) = 0 /\ Len(rest) = 0 /\ keys \in Int
      BY <1>2, <2>2 DEF keys
    <3>2. QED BY <1>2, <2>2, <3>1 DEF IInv, Keys
  <2>3. QED BY <2>1, <2>2
<1> HIDE DEF all, rest
<1>6. /\ Head(all) = all[1] /\ Head(all) \in Int /\ Tail(all) \in Seq(Int) /\ Len(Tail(all)) = Len(all) - 1
      /\ Len(all) \in Nat \ {0} /\ Len(rest) \in Nat
      /\ \A i \in 1 .. Len(Tail(all)) : Tail(all)[i] = all[i + 1]
  BY <1>4
<1>7. /\ tty'.queue = rest /\ tty'.buf = Tail(all) /\ tty'.typed = tty.typed /\ tty'.raw = tty.raw
      /\ tty' \in Ttys
  BY <1>2, <1>4, <1>6 DEF Ttys
<1>8. /\ host'.char = Head(all) /\ host' \in Hosts
      /\ host'.obuf_ridx = host.obuf_ridx /\ host'.widx = host.widx /\ host'.wordaddr = host.wordaddr
      /\ host'.word = host.word /\ host'.flags = host.flags /\ host'.failed = host.failed
      /\ host'.ibuf_widx = host.ibuf_widx /\ host'.iword = host.iword /\ host'.retval = host.retval
  BY <1>2, <1>6 DEF Hosts
<1>9. keys \in Int /\ keys' = keys + 1 /\ keys >= 0
  <2>1. PICK n \in Nat, a \in Nat, b \in Nat :
          n = tty.typed /\ a = Len(tty.queue) /\ b = Len(tty.buf)
    BY <1>3
  <2>2. PICK c \in Nat, d \in Nat : c = Len(all) /\ d = Len(rest)
    BY <1>6
  <2>3. c + d = a + b
    <3>1. (c = b /\ d = a) \/ (c = a /\ d = 0 /\ b = 0)
      BY <1>4, <2>1, <2>2
    <3>2. QED BY <3>1
  <2>4. keys = n - a - b
    BY <2>1 DEF keys
  <2>5. tty'.typed = n /\ Len(tty'.queue) = d /\ Len(tty'.buf) = c - 1
    BY <1>6, <1>7, <2>1, <2>2
  <2>6. keys' = n - d - (c - 1)
    BY <2>5 DEF keys
  <2>7. keys >= 0
    BY DEF IInv, Keys
  <2>8. QED BY <2>3, <2>4, <2>6, <2>7
<1>10. Types'
  <2>1. pc' \in Places
    BY <1>2 DEF Places, Loop, Ends
  <2>2. QED BY <1>1, <1>7, <1>8, <2>1 DEF IInv, Types
<1>11. Keys'
  <2>1. ASSUME NEW i \in 1 .. Len(Tail(all)) PROVE Tail(all)[i] \in {Interrupt, keys + 1 + i}
    <3>1. i + 1 \in 1 .. Len(all) /\ keys + 1 + i = keys + (i + 1)
      BY <1>6, <1>9
    <3>2. QED BY <1>5, <1>6, <3>1
  <2>2. ASSUME NEW i \in 1 .. Len(rest) PROVE rest[i] \in {Interrupt, keys + 1 + Len(Tail(all)) + i}
    <3>1. keys + 1 + Len(Tail(all)) + i = keys + Len(all) + i
      BY <1>6, <1>9
    <3>2. QED BY <1>5, <3>1
  <2>3. Head(all) = Interrupt \/ Head(all) = keys + 1
    <3>1. 1 \in 1 .. Len(all)
      BY <1>6
    <3>2. QED BY <1>5, <1>6, <3>1
  <2>4. pc' \in {"ibuf", "ibuf_read", "ibuf_write", "ibuf_widx"} => Head(all) # Interrupt
    BY <1>2
  <2>5. keys' >= 0 /\ (pc' \in {"ibuf", "ibuf_read", "ibuf_write", "ibuf_widx"} => host'.char = keys')
    BY <1>8, <1>9, <2>3, <2>4
  <2>6. /\ \A i \in 1 .. Len(tty'.buf) : tty'.buf[i] \in {Interrupt, keys' + i}
        /\ \A i \in 1 .. Len(tty'.queue) :
             tty'.queue[i] \in {Interrupt, keys' + Len(tty'.buf) + i}
    BY <1>7, <1>9, <2>1, <2>2
  <2>7. QED BY <2>5, <2>6 DEF Keys
<1>12. Inputs'
  <2>1. taken' = taken /\ unread' = unread
    BY <1>1 DEF taken, unread
  <2>2. pc' = "restore" \/ pc' = "ibuf"
    BY <1>2
  <2>3. QED BY <1>1, <1>2, <1>8, <1>9, <2>1, <2>2 DEF IInv, Inputs
<1>13. Terminal' /\ Scripted' /\ Untouched'
  BY <1>1, <1>2, <1>7, <1>8 DEF IInv, Terminal, Scripted, Untouched, Loop, Booting
<1>14. Outputs' /\ Draining' /\ Finishing' /\ InOrder'
  BY <1>1, <1>2, <1>8 DEF IInv, Outputs, Draining, Finishing, InOrder, published, printed
<1>15. QED BY <1>10, <1>11, <1>12, <1>13, <1>14 DEF IInv

(* The reader's place is read, to look for room.                           *)
LEMMA ReadIbufRidxKeeps ==
  ASSUME IInv, ReadIbufRidx, UNCHANGED task
  PROVE  IInv'
<1>1. Types'
  <2>1. host' \in Hosts /\ pc' \in Places
    BY DEF IInv, Types, Hosts, Memories, Places, Loop, ReadIbufRidx
  <2>2. QED BY <2>1 DEF IInv, Types, ReadIbufRidx
<1>2. Terminal' /\ Scripted' /\ Untouched' /\ Outputs' /\ Draining' /\ Finishing' /\ Keys' /\
   Inputs' /\ InOrder'
  BY DEF IInv, Types, Untouched, Hosts, Memories, Ttys, DebugModules, Boards, Histories, Loop, Ends,
     Programming, Booting, Interrupt, Terminal, Scripted, Outputs, published, printed, Draining,
     Finishing, Keys, keys, Inputs, taken, unread, InOrder, ReadIbufRidx
<1>3. QED BY <1>1, <1>2 DEF IInv

(* The word around the next free place of the input ring is read.          *)
LEMMA ReadIbufWordKeeps ==
  ASSUME IInv, ReadIbufWord, UNCHANGED task
  PROVE  IInv'
<1> DEFINE w == Word(mem.ibuf, WordOf(host.ibuf_widx))
<1>1. host.ibuf_widx \in Indices /\ mem.ibuf \in [Indices -> Int] /\ host \in Hosts
  BY DEF IInv, Types, Hosts, Memories
<1>2. w \in [0 .. WORD - 1 -> Int]
  BY <1>1, WordRead
<1>3. host' = [host EXCEPT !.iword = w, !.ridx = 0]
  BY DEF ReadIbufWord
<1>4. Types'
  <2> HIDE DEF w
  <2>1. host' \in Hosts
    <3>1. 0 \in Int
      OBVIOUS
    <3> DEFINE h == [host EXCEPT !.iword = w]
    <3>2. h \in Hosts
      BY <1>1, <1>2 DEF Hosts
    <3>3. host' = [h EXCEPT !.ridx = 0]
      BY <1>1, <1>3 DEF Hosts
    <3> HIDE DEF h
    <3>4. QED BY <3>1, <3>2, <3>3 DEF Hosts
  <2>2. QED BY <2>1 DEF IInv, Types, Places, Loop, ReadIbufWord
<1>5. Terminal' /\ Scripted' /\ Untouched' /\ Outputs' /\ Draining' /\ Finishing' /\ Keys' /\
   Inputs' /\ InOrder'
  BY DEF IInv, Types, Untouched, Hosts, Memories, Ttys, DebugModules, Boards, Histories, Loop, Ends,
     Programming, Booting, Interrupt, Terminal, Scripted, Outputs, published, printed, Draining,
     Finishing, Keys, keys, Inputs, taken, unread, InOrder, ReadIbufWord
<1>6. QED BY <1>4, <1>5 DEF IInv

(* The word is written back as it was read but for the character; the      *)
(* program writes none of it meanwhile.                                    *)
LEMMA WriteIbufWordKeeps ==
  ASSUME IInv, WriteIbufWord, UNCHANGED task
  PROVE  IInv'
<1> DEFINE w == host.ibuf_widx
           b == [i \in Indices |->
                   IF WordOf(i) # WordOf(w) THEN mem.ibuf[i]
                   ELSE IF i = w THEN host.char
                   ELSE host.iword[i % WORD]]
<1>1. /\ prog # "old" /\ UNCHANGED <<line, host, tty, dm, hart, prog, calls, board, seen>>
      /\ pc = "ibuf_write" /\ pc' = "ibuf_widx" /\ mem' = [mem EXCEPT !.ibuf = b]
  BY DEF IInv, Untouched, Loop, WriteIbufWord
<1>2. /\ w \in Indices /\ mem.ibuf \in [Indices -> Int] /\ host.char \in Int /\ mem \in Memories
      /\ host.iword = Word(mem.ibuf, WordOf(w)) /\ mem.ibuf_widx = w /\ mem.ibuf_ridx \in Indices
  BY <1>1 DEF IInv, Types, Hosts, Memories, Inputs
<1>3. /\ b \in [Indices -> Int] /\ b[w] = host.char
      /\ \A i \in Indices : i # w => b[i] = mem.ibuf[i]
  <2>1. \A i \in Indices : i # w => b[i] = mem.ibuf[i]
    BY <1>2, WordRead
  <2>2. b[w] = host.char
    BY <1>2
  <2>3. b \in [Indices -> Int]
    <3>1. \A i \in Indices : b[i] \in Int
      BY <1>2, <2>1, <2>2
    <3>2. b = [i \in Indices |-> b[i]]
      OBVIOUS
    <3> HIDE DEF b
    <3>3. QED BY <3>1, <3>2
  <2>4. QED BY <2>1, <2>2, <2>3
<1> HIDE DEF b
<1>4. /\ mem' \in Memories /\ mem'.ibuf = b
      /\ mem'.obuf = mem.obuf /\ mem'.obuf_widx = mem.obuf_widx /\ mem'.obuf_ridx = mem.obuf_ridx
      /\ mem'.flags = mem.flags /\ mem'.retval = mem.retval
      /\ mem'.ibuf_widx = mem.ibuf_widx /\ mem'.ibuf_ridx = mem.ibuf_ridx
  BY <1>1, <1>2, <1>3 DEF Memories
<1>5. Types'
  BY <1>1, <1>4 DEF IInv, Types, Places, Loop
<1>6. Inputs'
  <2>1. taken' = taken /\ unread' = unread /\ keys' = keys
    BY <1>1, <1>4 DEF taken, unread, keys
  <2>2. unread = Minus(w, mem.ibuf_ridx)
    BY <1>2 DEF unread
  <2>3. ASSUME ~seen.overrun, NEW d \in 0 .. unread - 1
        PROVE  b[Plus(mem.ibuf_ridx, d)] = taken + d + 1
    <3>1. Plus(mem.ibuf_ridx, d) \in Indices /\ Plus(mem.ibuf_ridx, d) # w
      BY <1>2, <2>2, RingBetween
    <3>2. mem.ibuf[Plus(mem.ibuf_ridx, d)] = taken + d + 1
      BY <1>1, <2>3 DEF IInv, Inputs
    <3>3. QED BY <1>3, <3>1, <3>2
  <2>4. QED BY <1>1, <1>2, <1>3, <1>4, <2>1, <2>3 DEF IInv, Inputs
<1>7. Terminal' /\ Scripted' /\ Untouched' /\ Outputs' /\ Draining' /\ Finishing' /\ Keys' /\
   InOrder'
  BY <1>1, <1>4 DEF IInv, Types, Untouched, Hosts, Memories, Ttys, DebugModules, Boards, Histories,
     Loop, Ends, Programming, Booting, Interrupt, Terminal, Scripted, Outputs, published, printed,
     Draining, Finishing, Keys, keys, InOrder
<1>8. QED BY <1>5, <1>6, <1>7 DEF IInv

(* The character is published, unless the ring overran.                    *)
LEMMA WriteIbufWidxKeeps ==
  ASSUME IInv, WriteIbufWidx, UNCHANGED task
  PROVE  IInv'
<1> DEFINE w == host.ibuf_widx
           over == seen.overrun \/ Enqueued(w, mem.ibuf_ridx) = BUF_SIZE - 1
<1>1. /\ prog # "old" /\ UNCHANGED <<line, tty, dm, hart, prog, calls, board, task>>
      /\ pc = "ibuf_widx" /\ pc' \in {"restore", "flags"} /\ (pc' = "restore" <=> host.flags = 1)
      /\ host' = [host EXCEPT !.ibuf_widx = Next1(w)]
      /\ mem' = [mem EXCEPT !.ibuf_widx = Next1(w)]
      /\ seen' = [seen EXCEPT !.overrun = over]
  BY DEF IInv, Untouched, Loop, WriteIbufWidx, LoopTest
<1>2. /\ w \in Indices /\ mem \in Memories /\ host \in Hosts /\ seen \in Histories
      /\ mem.ibuf_widx = w /\ mem.ibuf_ridx \in Indices /\ mem.ibuf[w] = host.char
      /\ tty.typed \in Nat /\ Len(tty.queue) \in Nat /\ Len(tty.buf) \in Nat
  BY <1>1 DEF IInv, Types, Hosts, Ttys, Inputs
<1>3. Next1(w) = Plus(w, 1) /\ Plus(w, 1) \in Indices /\ Enqueued(w, mem.ibuf_ridx) = unread
  BY <1>2, Rings DEF unread
<1>4. Plus(w, 1) \in Int /\ over \in BOOLEAN
  <2>1. Plus(w, 1) \in Int
    BY <1>3 DEF Indices
  <2>2. over \in BOOLEAN
    BY Zenon
  <2>3. QED BY <2>1, <2>2
<1>5. /\ host' \in Hosts /\ host'.ibuf_widx = Plus(w, 1)
      /\ host'.obuf_ridx = host.obuf_ridx /\ host'.widx = host.widx /\ host'.wordaddr = host.wordaddr
      /\ host'.word = host.word /\ host'.flags = host.flags /\ host'.failed = host.failed
      /\ host'.char = host.char /\ host'.iword = host.iword /\ host'.retval = host.retval
  BY <1>1, <1>2, <1>3 DEF Hosts
<1>6. /\ mem' \in Memories /\ mem'.ibuf_widx = Plus(w, 1)
      /\ mem'.obuf = mem.obuf /\ mem'.obuf_widx = mem.obuf_widx /\ mem'.obuf_ridx = mem.obuf_ridx
      /\ mem'.flags = mem.flags /\ mem'.retval = mem.retval
      /\ mem'.ibuf = mem.ibuf /\ mem'.ibuf_ridx = mem.ibuf_ridx
  BY <1>1, <1>2, <1>3, <1>4 DEF Memories
<1>7. /\ seen' \in Histories /\ (seen'.overrun <=> seen.overrun \/ unread = BUF_SIZE - 1)
      /\ seen'.printed = seen.printed /\ seen'.put = seen.put /\ seen'.got = seen.got
  <2>1. over <=> seen.overrun \/ unread = BUF_SIZE - 1
    BY <1>3
  <2> HIDE DEF over
  <2>2. seen' \in Histories
    BY <1>1, <1>2, <1>4 DEF Histories
  <2>3. seen'.overrun = over /\ seen'.printed = seen.printed /\ seen'.put = seen.put /\ seen'.got = seen.got
    BY <1>1, <1>2 DEF Histories
  <2>4. QED BY <2>1, <2>2, <2>3
<1>8. Types'
  BY <1>1, <1>5, <1>6, <1>7 DEF IInv, Types, Places, Loop, Ends
<1>9. Inputs'
  <2>1. taken' = taken /\ keys' = keys /\ keys \in Int /\ taken \in Int
    BY <1>1, <1>2, <1>7 DEF taken, keys, IInv, Types, Histories
  <2>2. unread \in Indices /\ Plus(mem.ibuf_ridx, unread) = w
    <3>1. unread = Minus(w, mem.ibuf_ridx)
      BY <1>2 DEF unread
    <3>2. QED BY <1>2, <3>1, RingBetween
  <2>3. unread # BUF_SIZE - 1 => unread' = unread + 1
    <3>1. unread' = Minus(Plus(w, 1), mem.ibuf_ridx) /\ unread = Minus(w, mem.ibuf_ridx)
      BY <1>2, <1>6 DEF unread
    <3>2. QED BY <1>2, <3>1, RingForward
  <2>4. ASSUME ~seen'.overrun
        PROVE  /\ unread' = unread + 1 /\ taken + unread = keys - 1 /\ host.char = keys
               /\ \A d \in 0 .. unread : mem.ibuf[Plus(mem.ibuf_ridx, d)] = taken + d + 1
    <3>1. unread' = unread + 1 /\ ~seen.overrun
      BY <1>7, <2>3, <2>4
    <3>2. taken + unread = keys - 1 /\ host.char = keys
      BY <1>1, <3>1 DEF IInv, Inputs, Keys
    <3>3. ASSUME NEW d \in 0 .. unread PROVE mem.ibuf[Plus(mem.ibuf_ridx, d)] = taken + d + 1
      <4>1. CASE d = unread
        BY <1>2, <2>1, <2>2, <3>2, <4>1
      <4>2. CASE d # unread
        <5>1. d \in 0 .. unread - 1
          BY <2>2, <4>2 DEF Indices
        <5>2. QED BY <1>1, <3>1, <5>1 DEF IInv, Inputs
      <4>3. QED BY <4>1, <4>2
    <3>4. QED BY <3>1, <3>2, <3>3
  <2>5. unread \in Nat
    BY <2>2 DEF Indices
  <2>6. ASSUME ~seen'.overrun
        PROVE  /\ unread' >= 1 /\ taken' + unread' = keys'
               /\ \A d \in 0 .. unread' - 1 : mem'.ibuf[Plus(mem'.ibuf_ridx, d)] = taken' + d + 1
    BY <1>6, <2>1, <2>4, <2>5, <2>6
  <2>7. mem'.ibuf_ridx \in Indices
    BY <1>2, <1>6
  <2>8. QED BY <1>1, <1>5, <1>6, <2>6, <2>7 DEF Inputs
<1>10. Terminal' /\ Scripted' /\ Untouched'
  BY <1>1, <1>5, <1>6, <1>7 DEF IInv, Terminal, Scripted, Untouched, Loop, Booting
<1>11. Outputs' /\ Draining' /\ Finishing' /\ Keys'
  BY <1>1, <1>5, <1>6, <1>7 DEF IInv, Outputs, Draining, Finishing, Keys, keys, published, printed
<1>12. InOrder'
  BY <1>7 DEF IInv, InOrder, printed
<1>13. QED BY <1>8, <1>9, <1>10, <1>11, <1>12 DEF IInv

(* The terminal is restored.                                               *)
LEMMA RestoreKeeps ==
  ASSUME IInv, Restore, UNCHANGED task
  PROVE  IInv'
<1>1. Types'
  <2>1. tty' \in Ttys
    BY DEF IInv, Types, Ttys, Restore
  <2>2. QED BY <2>1 DEF IInv, Types, Places, Ends, Restore
<1>2. Terminal' /\ Scripted' /\ Untouched' /\ Outputs' /\ Draining' /\ Finishing' /\ Keys' /\
   Inputs' /\ InOrder'
  BY DEF IInv, Types, Untouched, Hosts, Memories, Ttys, DebugModules, Boards, Histories, Loop, Ends,
     Programming, Booting, Interrupt, Terminal, Scripted, Outputs, published, printed, Draining,
     Finishing, Keys, keys, Inputs, taken, unread, InOrder, Restore
<1>3. QED BY <1>1, <1>2 DEF IInv

(* The return value is read, after the flag that says it is there.         *)
LEMMA ReadRetvalKeeps ==
  ASSUME IInv, ReadRetval, UNCHANGED task
  PROVE  IInv'
<1>1. Types'
  <2>1. host' \in Hosts
    BY DEF IInv, Types, Hosts, Memories, ReadRetval
  <2>2. QED BY <2>1 DEF IInv, Types, Places, Ends, ReadRetval
<1>2. Terminal' /\ Scripted' /\ Untouched' /\ Outputs' /\ Draining' /\ Finishing' /\ Keys' /\
   Inputs' /\ InOrder'
  BY DEF IInv, Types, Untouched, Hosts, Memories, Ttys, DebugModules, Boards, Histories, Loop, Ends,
     Programming, Booting, Interrupt, Terminal, Scripted, Outputs, published, printed, Draining,
     Finishing, Keys, keys, Inputs, taken, unread, InOrder, ReadRetval
<1>3. QED BY <1>1, <1>2 DEF IInv

(* OpenOCD is killed.                                                      *)
LEMMA ShutdownKeeps ==
  ASSUME IInv, Shutdown, UNCHANGED task
  PROVE  IInv'
<1>1. Types'
  <2>1. board' \in Boards
    BY DEF IInv, Types, Boards, Shutdown
  <2>2. QED BY <2>1 DEF IInv, Types, Places, Ends, Shutdown
<1>2. Terminal' /\ Scripted' /\ Untouched' /\ Outputs' /\ Draining' /\ Finishing' /\ Keys' /\
   Inputs' /\ InOrder'
  BY DEF IInv, Types, Untouched, Hosts, Memories, Ttys, DebugModules, Boards, Histories, Loop, Ends,
     Programming, Booting, Interrupt, Terminal, Scripted, Outputs, published, printed, Draining,
     Finishing, Keys, keys, Inputs, taken, unread, InOrder, Shutdown
<1>3. QED BY <1>1, <1>2 DEF IInv

(* A key is typed; it is the next number, or the interrupt.                *)
LEMMA TypeKeyKeeps ==
  ASSUME IInv, NEW key \in {tty.typed + 1, Interrupt}, TypeKey(key), UNCHANGED task
  PROVE  IInv'
<1>1. /\ tty.raw /\ UNCHANGED <<pc, line, host, mem, dm, hart, prog, calls, board, seen, task>>
      /\ tty' = [tty EXCEPT !.queue = Append(tty.queue, key), !.typed = tty.typed + 1]
  BY DEF TypeKey
<1>2. pc \in Loop \cup {"restore"} /\ prog # "old"
  BY <1>1 DEF IInv, Terminal, Untouched
<1>3. /\ tty \in Ttys /\ tty.queue \in Seq(Int) /\ tty.typed \in Nat /\ tty.typed + 1 \in Nat
      /\ key \in Int /\ Len(tty.queue) \in Nat /\ Len(tty.buf) \in Nat
  BY DEF IInv, Types, Ttys, Interrupt
<1> DEFINE q == Append(tty.queue, key)
<1>4. /\ q \in Seq(Int) /\ Len(q) = Len(tty.queue) + 1 /\ q[Len(q)] = key
      /\ \A i \in 1 .. Len(tty.queue) : q[i] = tty.queue[i]
  BY <1>3
<1> HIDE DEF q
<1>5. /\ tty' \in Ttys /\ tty'.queue = q /\ tty'.typed = tty.typed + 1 /\ tty'.buf = tty.buf
      /\ tty'.raw = tty.raw
  <2>1. tty' = [tty EXCEPT !.queue = q, !.typed = tty.typed + 1]
    BY <1>1 DEF q
  <2>2. QED BY <1>3, <1>4, <2>1 DEF Ttys
<1>6. keys' = keys /\ keys \in Int
  <2>1. PICK n \in Nat, a \in Nat, b \in Nat :
          n = tty.typed /\ a = Len(tty.queue) /\ b = Len(tty.buf)
    BY <1>3
  <2>2. tty'.typed = n + 1 /\ Len(tty'.queue) = a + 1 /\ Len(tty'.buf) = b
    BY <1>4, <1>5, <2>1
  <2>3. keys' = (n + 1) - (a + 1) - b
    BY <2>2 DEF keys
  <2>4. keys = n - a - b
    BY <2>1 DEF keys
  <2>5. QED BY <2>3, <2>4
<1>7. Types'
  BY <1>1, <1>5 DEF IInv, Types
<1>8. Keys'
  <2>1. ASSUME NEW i \in 1 .. Len(q) PROVE q[i] \in {Interrupt, keys + Len(tty.buf) + i}
    <3>1. CASE i = Len(q)
      BY <1>3, <1>4, <3>1 DEF keys
    <3>2. CASE i # Len(q)
      <4>1. i \in 1 .. Len(tty.queue)
        BY <1>3, <1>4, <3>2
      <4>2. QED BY <1>4, <4>1 DEF IInv, Keys
    <3>3. QED BY <3>1, <3>2
  <2>2. QED BY <1>1, <1>5, <1>6, <2>1 DEF IInv, Keys
<1>9. Inputs'
  BY <1>1, <1>6 DEF IInv, Inputs, taken, unread
<1>10. Terminal' /\ Scripted' /\ Untouched'
  BY <1>1, <1>2, <1>5 DEF IInv, Terminal, Scripted, Untouched, Booting, Loop
<1>11. Outputs' /\ Draining' /\ Finishing' /\ InOrder'
  BY <1>1 DEF IInv, Outputs, Draining, Finishing, InOrder, published, printed
<1>12. QED BY <1>7, <1>8, <1>9, <1>10, <1>11 DEF IInv

-----------------------------------------------------------------------------
(* hostio_init clears words that hostio_clear left cleared.                *)
LEMMA HostioInitKeeps ==
  ASSUME IInv, HostioInit, UNCHANGED task
  PROVE  IInv'
<1>1. /\ prog \in Booting /\ prog' \in Booting \cup {"main"} /\ hart = "running"
      /\ UNCHANGED <<pc, line, host, tty, dm, hart, calls, board, seen, task>>
      /\ \E at \in Words \ {"obuf_ridx", "ibuf_widx"} : mem' = [mem EXCEPT ![at] = 0]
  <2>1. PICK i \in 1 .. 4 :
          /\ Runs(crt0[i]) /\ mem' = [mem EXCEPT ![hostio_init[i]] = 0] /\ prog' = crt0[i + 1]
          /\ UNCHANGED <<pc, line, host, tty, dm, hart, calls, board, seen>>
    <3>1. DOMAIN hostio_init = 1 .. 4
      BY DEF hostio_init
    <3>2. QED BY <3>1 DEF HostioInit
  <2>2. crt0[i] \in Booting /\ crt0[i + 1] \in Booting \cup {"main"}
    BY DEF crt0, Booting
  <2>3. hostio_init[i] \in Words \ {"obuf_ridx", "ibuf_widx"}
    BY DEF hostio_init, Words
  <2>4. QED BY <2>1, <2>2, <2>3 DEF Runs
<1>2. /\ prog # "old" /\ prog # "putc" /\ prog # "getc" /\ prog \notin {"returned", "end_loop"}
      /\ prog' # "old" /\ prog' # "putc" /\ prog' # "getc" /\ prog' \notin {"returned", "end_loop"}
  BY <1>1 DEF Booting
<1>3. mem.flags = 0 /\ mem.obuf_widx = 0 /\ mem.ibuf_ridx = 0 /\ mem \in Memories
  BY <1>1, <1>2 DEF IInv, Finishing, Untouched, Types
<1>4. /\ mem'.flags = 0 /\ mem'.obuf_widx = 0 /\ mem'.ibuf_ridx = 0
      /\ mem'.obuf = mem.obuf /\ mem'.obuf_ridx = mem.obuf_ridx
      /\ mem'.ibuf = mem.ibuf /\ mem'.ibuf_widx = mem.ibuf_widx
  BY <1>1, <1>3 DEF Memories, Words
<1>5. Types'
  <2>1. 0 \in Int
    OBVIOUS
  <2>2. mem' \in Memories
    BY <1>1, <1>3, <2>1, MemoryWord
  <2>3. QED BY <1>1, <2>2 DEF IInv, Types, Programming
<1>6. Scripted' /\ Untouched'
  <2>1. Scripted'
    BY <1>1, <1>2 DEF IInv, Scripted
  <2>2. Untouched'
    BY <1>1, <1>2, <1>4 DEF IInv, Untouched, Booting
  <2>3. QED BY <2>1, <2>2
<1>7. Outputs' /\ Draining' /\ Finishing'
  BY <1>1, <1>2, <1>3, <1>4 DEF IInv, Outputs, Draining, Finishing, published, printed
<1>8. Inputs'
  <2>1. taken' = taken /\ unread' = unread /\ keys' = keys
    BY <1>1, <1>2, <1>3, <1>4 DEF taken, unread, keys
  <2>2. QED BY <1>1, <1>2, <1>3, <1>4, <2>1 DEF IInv, Inputs
<1>9. Terminal' /\ Keys' /\ InOrder'
  BY <1>1 DEF IInv, Terminal, Keys, keys, InOrder, printed
<1>10. QED BY <1>5, <1>6, <1>7, <1>8, <1>9 DEF IInv

(* Replacing the output ring.                                              *)
LEMMA MemoryRing ==
  ASSUME NEW m \in Memories, NEW b \in [Indices -> Int]
  PROVE  [m EXCEPT !.obuf = b] \in Memories
BY DEF Memories

(* Places further on, as long as the ring has room.                        *)
LEMMA RingSum ==
  ASSUME NEW i \in Indices, NEW j \in Indices, NEW d \in Indices, Minus(i, j) + d <= BUF_SIZE - 1
  PROVE  Minus(Plus(i, d), j) = Minus(i, j) + d
BY BufferAssumption DEF Indices, Plus, Minus

(* Different distances lead to different places.                           *)
LEMMA RingDistinct ==
  ASSUME NEW i \in Indices, NEW d \in Indices, NEW e \in Indices, d # e
  PROVE  Plus(i, d) \in Indices /\ Plus(i, d) # Plus(i, e)
BY BufferAssumption DEF Indices, Plus

(* The place after a waiting one is one nearer.                            *)
LEMMA RingBackward ==
  ASSUME NEW i \in Indices, NEW j \in Indices, Minus(j, i) >= 1
  PROVE  Minus(j, Plus(i, 1)) = Minus(j, i) - 1
BY BufferAssumption DEF Indices, Plus, Minus

(* obuf_putc waits for room, so nothing unprinted is overwritten.          *)
LEMMA PutcStoreKeeps ==
  ASSUME IInv, PutcStore, UNCHANGED task
  PROVE  IInv'
<1> DEFINE w == mem.obuf_widx
           ridx == host.obuf_ridx
<1>1. /\ prog = "main" /\ prog' = "putc" /\ hart = "running" /\ ~obuf_full
      /\ UNCHANGED <<pc, line, host, tty, dm, hart, board, task>>
      /\ mem' = [mem EXCEPT !.obuf[w] = seen.put + 1]
      /\ seen' = [seen EXCEPT !.put = seen.put + 1]
  BY DEF PutcStore, Runs
<1>2. /\ mem \in Memories /\ mem.obuf \in [Indices -> Int] /\ seen \in Histories
      /\ published = seen.put /\ mem.obuf_ridx \in Indices
  BY <1>1 DEF IInv, Types, Memories, published, Outputs
<1>3. /\ w \in Indices /\ ridx \in Indices /\ printed \in Nat /\ seen.put \in Nat
      /\ seen.put - printed \in Indices /\ w = Plus(ridx, seen.put - printed)
  BY <1>1, <1>2, Waiting
<1> DEFINE b == [mem.obuf EXCEPT ![w] = seen.put + 1]
<1>4. /\ b \in [Indices -> Int] /\ b[w] = seen.put + 1
      /\ \A i \in Indices : i # w => b[i] = mem.obuf[i]
  BY <1>2, <1>3
<1>5. mem' = [mem EXCEPT !.obuf = b]
  BY <1>1
<1> HIDE DEF b
<1>6. /\ mem' \in Memories /\ mem'.obuf = b
      /\ mem'.obuf_widx = w /\ mem'.obuf_ridx = mem.obuf_ridx
      /\ mem'.ibuf = mem.ibuf /\ mem'.ibuf_widx = mem.ibuf_widx /\ mem'.ibuf_ridx = mem.ibuf_ridx
      /\ mem'.flags = mem.flags /\ mem'.retval = mem.retval
  <2>1. mem' \in Memories
    BY <1>2, <1>4, <1>5, MemoryRing
  <2>2. QED BY <1>2, <1>5, <2>1 DEF Memories
<1>7. /\ seen' \in Histories /\ seen'.put = seen.put + 1 /\ seen'.printed = seen.printed
      /\ seen'.got = seen.got /\ seen'.overrun = seen.overrun
  <2>1. seen.put + 1 \in Nat
    BY <1>3
  <2>2. QED BY <1>1, <1>2, <2>1 DEF Histories
<1>8. published' = seen.put /\ printed' = printed
  BY <1>1, <1>3, <1>7 DEF published, printed
<1>9. Types'
  BY <1>1, <1>6, <1>7 DEF IInv, Types, Programming
<1>10. Outputs'
  <2>1. Minus(ridx, mem.obuf_ridx) + (seen.put - printed) < BUF_SIZE - 1
    <3>1. Minus(ridx, mem.obuf_ridx) + (seen.put - printed) <= BUF_SIZE - 1
      <4>1. Minus(ridx, mem.obuf_ridx) + seen.put - printed <= BUF_SIZE - 1
        BY <1>1 DEF IInv, Outputs
      <4>2. PICK p \in Nat, r \in Nat, n \in Indices :
              p = seen.put /\ r = printed /\ n = Minus(ridx, mem.obuf_ridx)
        BY <1>2, <1>3, Rings
      <4>3. n + p - r <= BUF_SIZE - 1
        BY <4>1, <4>2
      <4>4. n + (p - r) <= BUF_SIZE - 1
        BY <4>3, BufferAssumption DEF Indices
      <4>5. QED BY <4>2, <4>4
    <3>2. Minus(w, mem.obuf_ridx) = Minus(ridx, mem.obuf_ridx) + (seen.put - printed)
      BY <1>2, <1>3, <3>1, RingSum
    <3>3. Minus(w, mem.obuf_ridx) < BUF_SIZE - 1
      <4>1. Enqueued(w, mem.obuf_ridx) = Minus(w, mem.obuf_ridx) /\ Minus(w, mem.obuf_ridx) \in Indices
        BY <1>2, <1>3, Rings
      <4>2. QED BY <1>1, <4>1, BufferAssumption DEF obuf_full, Indices
    <3>4. QED BY <3>2, <3>3
  <2>2. Minus(ridx, mem.obuf_ridx) + (seen.put + 1) - printed <= BUF_SIZE - 1
    <3>1. Minus(ridx, mem.obuf_ridx) \in Indices
      BY <1>2, <1>3, Rings
    <3>2. QED BY <1>3, <2>1, <3>1, BufferAssumption DEF Indices
  <2>3. ASSUME NEW d \in 0 .. (seen.put + 1) - printed - 1
        PROVE  b[Plus(ridx, d)] = printed + d + 1
    <3>1. CASE d = seen.put - printed
      BY <1>3, <1>4, <3>1
    <3>2. CASE d # seen.put - printed
      <4>1. PICK p \in Nat, r \in Nat : p = seen.put /\ r = printed
        BY <1>3
      <4>2. d \in Indices /\ d \in 0 .. seen.put - printed - 1 /\ d # p - r /\ p - r \in Indices
        <5>1. d \in 0 .. (p + 1) - r - 1 /\ d # p - r /\ p - r \in Indices
          BY <1>3, <2>3, <3>2, <4>1
        <5>2. d \in Indices /\ d \in 0 .. p - r - 1
          BY <5>1, BufferAssumption DEF Indices
        <5>3. QED BY <4>1, <5>1, <5>2
      <4>3. Plus(ridx, d) \in Indices /\ Plus(ridx, d) # w
        <5>1. w = Plus(ridx, p - r)
          BY <1>3, <4>1
        <5>2. PICK n \in Indices : n = p - r
          BY <4>2
        <5>3. Plus(ridx, d) \in Indices /\ Plus(ridx, d) # Plus(ridx, n)
          BY <1>3, <4>2, <5>2, RingDistinct
        <5>4. QED BY <5>1, <5>2, <5>3
      <4>4. mem.obuf[Plus(ridx, d)] = printed + d + 1
        BY <1>1, <4>2 DEF IInv, Outputs
      <4>5. QED BY <1>4, <4>3, <4>4
    <3>3. QED BY <3>1, <3>2
  <2>4. printed <= seen.put
    BY <1>3 DEF Indices
  <2>5. QED BY <1>1, <1>2, <1>3, <1>6, <1>7, <1>8, <2>2, <2>3, <2>4 DEF Outputs
<1>11. Draining'
  BY <1>1, <1>2, <1>8 DEF IInv, Draining
<1>12. Terminal' /\ Scripted' /\ Untouched' /\ Finishing'
  <2>1. Terminal' /\ Scripted'
    BY <1>1 DEF IInv, Terminal, Scripted
  <2>2. Untouched'
    BY <1>1, <1>7 DEF IInv, Untouched, Booting
  <2>3. Finishing'
    BY <1>1, <1>6, <1>7, <1>8 DEF IInv, Finishing
  <2>4. QED BY <2>1, <2>2, <2>3
<1>13. Keys' /\ Inputs' /\ InOrder'
  BY <1>1, <1>6, <1>7, <1>8 DEF IInv, Keys, keys, Inputs, taken, unread, InOrder
<1>14. QED BY <1>9, <1>10, <1>11, <1>12, <1>13 DEF IInv

(* The program publishes what it has stored.                               *)
LEMMA PutcAdvanceKeeps ==
  ASSUME IInv, PutcAdvance, UNCHANGED task
  PROVE  IInv'
<1> DEFINE w == mem.obuf_widx
           ridx == host.obuf_ridx
<1>1. /\ prog = "putc" /\ prog' = "main" /\ hart = "running"
      /\ UNCHANGED <<pc, line, host, tty, dm, hart, board, seen, task>>
      /\ mem' = [mem EXCEPT !.obuf_widx = Next1(w)]
  BY DEF PutcAdvance, Runs
<1>2. /\ w \in Indices /\ ridx \in Indices /\ printed \in Nat /\ seen.put \in Nat
      /\ seen.put - printed \in Indices /\ published = seen.put - 1
      /\ published - printed \in Indices /\ w = Plus(ridx, published - printed)
  BY <1>1, Waiting DEF published
<1>3. mem \in Memories /\ Next1(w) = Plus(w, 1) /\ Plus(w, 1) \in Indices
  BY <1>2, Rings DEF IInv, Types
<1>4. Plus(w, 1) \in Int
  BY <1>3 DEF Indices
<1>5. /\ mem' \in Memories /\ mem'.obuf_widx = Plus(w, 1)
      /\ mem'.obuf = mem.obuf /\ mem'.obuf_ridx = mem.obuf_ridx
      /\ mem'.ibuf = mem.ibuf /\ mem'.ibuf_widx = mem.ibuf_widx /\ mem'.ibuf_ridx = mem.ibuf_ridx
      /\ mem'.flags = mem.flags /\ mem'.retval = mem.retval
  BY <1>1, <1>3, <1>4 DEF Memories
<1>6. published' = seen.put /\ printed' = printed
  BY <1>1 DEF published, printed
<1>7. Types'
  BY <1>1, <1>5 DEF IInv, Types, Programming
<1>8. Outputs'
  <2>1. Plus(w, 1) = Plus(ridx, seen.put - printed)
    <3>1. PICK p \in Nat, r \in Nat : p = seen.put /\ r = printed
      BY <1>2
    <3>2. p - r \in Indices /\ p - 1 - r \in Indices /\ w = Plus(ridx, p - 1 - r)
      BY <1>2, <3>1
    <3>3. p - r = (p - 1 - r) + 1 /\ (p - 1 - r) + 1 < BUF_SIZE
      BY <3>2, BufferAssumption DEF Indices
    <3>4. Plus(w, 1) = Plus(ridx, p - r)
      BY <1>2, <3>2, <3>3, RingArithmetic
    <3>5. QED BY <3>1, <3>4
  <2>2. printed <= seen.put
    BY <1>2 DEF Indices
  <2>3. QED BY <1>1, <1>5, <1>6, <2>1, <2>2 DEF IInv, Outputs
<1>9. Draining'
  <2>1. ASSUME pc = "drain"
        PROVE  Minus(host.widx, ridx) <= seen.put - printed /\ host.flags # 1
    <3>1. Minus(host.widx, ridx) <= published - printed /\ host.widx \in Indices
      BY <2>1 DEF IInv, Draining
    <3>2. Minus(host.widx, ridx) \in Indices
      BY <1>2, <3>1, Rings
    <3>3. Minus(host.widx, ridx) <= seen.put - printed
      BY <1>2, <3>1, <3>2 DEF Indices
    <3>4. host.flags # 1
      BY <1>1 DEF IInv, Finishing
    <3>5. QED BY <3>3, <3>4
  <2>2. QED BY <1>1, <1>6, <2>1 DEF IInv, Draining
<1>10. Terminal' /\ Scripted' /\ Untouched' /\ Finishing'
  <2>1. Terminal' /\ Scripted'
    BY <1>1 DEF IInv, Terminal, Scripted
  <2>2. Untouched'
    BY <1>1 DEF IInv, Untouched, Booting
  <2>3. Finishing'
    BY <1>1, <1>5, <1>6 DEF IInv, Finishing
  <2>4. QED BY <2>1, <2>2, <2>3
<1>11. Keys' /\ Inputs' /\ InOrder'
  BY <1>1, <1>5, <1>6 DEF IInv, Keys, keys, Inputs, taken, unread, InOrder
<1>12. QED BY <1>7, <1>8, <1>9, <1>10, <1>11 DEF IInv

(* The program takes the character that waits longest.                     *)
LEMMA GetcFetchKeeps ==
  ASSUME IInv, GetcFetch, UNCHANGED task
  PROVE  IInv'
<1> DEFINE c == mem.ibuf[mem.ibuf_ridx]
<1>1. /\ prog = "main" /\ prog' = "getc" /\ hart = "running"
      /\ UNCHANGED <<pc, line, host, tty, mem, dm, hart, board, task>>
      /\ Enqueued(mem.ibuf_widx, mem.ibuf_ridx) # 0
      /\ seen' = [seen EXCEPT !.got = Append(seen.got, c)]
  BY DEF GetcFetch, Runs
<1>2. /\ mem.ibuf_widx \in Indices /\ mem.ibuf_ridx \in Indices /\ mem.ibuf \in [Indices -> Int]
      /\ seen \in Histories /\ seen.got \in Seq(Int)
  BY <1>1 DEF IInv, Types, Hosts, Memories, Histories, Inputs
<1>3. c \in Int
  BY <1>2
<1>4. unread \in Nat /\ unread >= 1
  <2>1. unread = Enqueued(mem.ibuf_widx, mem.ibuf_ridx) /\ unread \in Indices
    BY <1>2, Rings DEF unread
  <2>2. QED BY <1>1, <2>1 DEF Indices
<1> DEFINE q == Append(seen.got, c)
<1>5. q \in Seq(Int) /\ Len(q) = Len(seen.got) + 1 /\ Len(seen.got) \in Nat
  BY <1>2, <1>3
<1> HIDE DEF q
<1>6. /\ seen' \in Histories /\ seen'.got = q /\ seen'.put = seen.put /\ seen'.printed = seen.printed
      /\ seen'.overrun = seen.overrun
  <2>1. seen' = [seen EXCEPT !.got = q]
    BY <1>1 DEF q
  <2>2. QED BY <1>2, <1>5, <2>1 DEF Histories
<1>7. taken' = taken /\ unread' = unread /\ keys' = keys /\ taken = Len(seen.got)
  <2>1. taken' = Len(q) - 1 /\ taken = Len(seen.got)
    BY <1>1, <1>6 DEF taken
  <2>2. unread' = unread /\ keys' = keys
    BY <1>1 DEF unread, keys
  <2>3. QED BY <1>5, <2>1, <2>2
<1>8. Types'
  BY <1>1, <1>6 DEF IInv, Types, Programming
<1>9. Inputs'
  BY <1>1, <1>4, <1>6, <1>7 DEF IInv, Inputs
<1>10. InOrder'
  <2>1. ASSUME ~seen.overrun PROVE q = UpTo(Len(q))
    <3>1. c = Len(seen.got) + 1
      <4>1. 0 \in 0 .. unread - 1 /\ Plus(mem.ibuf_ridx, 0) = mem.ibuf_ridx
        BY <1>2, <1>4, BufferAssumption DEF Plus, Indices
      <4>2. mem.ibuf[Plus(mem.ibuf_ridx, 0)] = taken + 0 + 1
        BY <1>1, <2>1, <4>1 DEF IInv, Inputs
      <4>3. QED BY <1>5, <1>7, <4>1, <4>2
    <3>2. seen.got = UpTo(Len(seen.got))
      BY <2>1 DEF IInv, InOrder
    <3>3. Append(UpTo(Len(seen.got)), Len(seen.got) + 1) = UpTo(Len(seen.got) + 1)
      BY <1>5, Counting
    <3>4. QED BY <1>5, <3>1, <3>2, <3>3 DEF q
  <2>2. QED BY <1>6, <2>1 DEF IInv, InOrder, printed
<1>11. Terminal' /\ Scripted' /\ Untouched' /\ Finishing'
  <2>1. Terminal' /\ Scripted'
    BY <1>1 DEF IInv, Terminal, Scripted
  <2>2. Untouched'
    BY <1>1, <1>6 DEF IInv, Untouched, Booting
  <2>3. Finishing'
    BY <1>1, <1>6 DEF IInv, Finishing, printed
  <2>4. QED BY <2>1, <2>2, <2>3
<1>12. Outputs' /\ Draining' /\ Keys'
  <2>1. published' = published /\ printed' = printed
    BY <1>1, <1>6 DEF published, printed
  <2>2. QED BY <1>1, <1>6, <1>7, <2>1 DEF IInv, Outputs, Draining, Keys
<1>13. QED BY <1>8, <1>9, <1>10, <1>11, <1>12 DEF IInv

(* The program gives the place in the input ring back.                     *)
LEMMA GetcAdvanceKeeps ==
  ASSUME IInv, GetcAdvance, UNCHANGED task
  PROVE  IInv'
<1> DEFINE ridx == mem.ibuf_ridx
<1>1. /\ prog = "getc" /\ prog' = "main" /\ hart = "running"
      /\ UNCHANGED <<pc, line, host, tty, dm, hart, board, seen, task>>
      /\ mem' = [mem EXCEPT !.ibuf_ridx = Next1(ridx)]
  BY DEF GetcAdvance, Runs
<1>2. /\ mem.ibuf_widx \in Indices /\ ridx \in Indices /\ mem \in Memories
      /\ Len(seen.got) \in Nat
  BY <1>1 DEF IInv, Types, Hosts, Histories, Inputs
<1>3. Next1(ridx) = Plus(ridx, 1) /\ Plus(ridx, 1) \in Indices
  BY <1>2, Rings
<1>4. Plus(ridx, 1) \in Int
  BY <1>3 DEF Indices
<1>5. /\ mem' \in Memories /\ mem'.ibuf_ridx = Plus(ridx, 1)
      /\ mem'.obuf = mem.obuf /\ mem'.obuf_widx = mem.obuf_widx /\ mem'.obuf_ridx = mem.obuf_ridx
      /\ mem'.ibuf = mem.ibuf /\ mem'.ibuf_widx = mem.ibuf_widx
      /\ mem'.flags = mem.flags /\ mem'.retval = mem.retval
  BY <1>1, <1>2, <1>3, <1>4 DEF Memories
<1>6. Types'
  BY <1>1, <1>5 DEF IInv, Types, Programming
<1>7. Inputs'
  <2>1. taken = Len(seen.got) - 1 /\ taken' = Len(seen.got) /\ keys' = keys
    BY <1>1 DEF taken, keys
  <2>2. taken' = taken + 1 /\ taken \in Int
    BY <1>2, <2>1
  <2>3. unread = Minus(mem.ibuf_widx, ridx) /\ unread' = Minus(mem.ibuf_widx, Plus(ridx, 1))
    BY <1>5 DEF unread
  <2>4. unread \in Indices
    BY <1>2, <2>3, Rings
  <2>5. unread >= 1 => unread' = unread - 1
    BY <1>2, <2>3, RingBackward
  <2>6. ASSUME ~seen.overrun
        PROVE  /\ unread >= 1 /\ taken' + unread' = taken + unread
               /\ \A d \in 0 .. unread' - 1 : mem.ibuf[Plus(Plus(ridx, 1), d)] = taken' + d + 1
    <3>1. unread >= 1
      BY <1>1, <2>6 DEF IInv, Inputs
    <3>2. unread \in Nat /\ unread < BUF_SIZE
      BY <2>4, BufferAssumption DEF Indices
    <3>3. taken' + unread' = taken + unread
      BY <2>2, <2>5, <3>1, <3>2
    <3>4. ASSUME NEW d \in 0 .. unread' - 1 PROVE mem.ibuf[Plus(Plus(ridx, 1), d)] = taken' + d + 1
      <4>1. d \in Nat /\ d + 1 \in 0 .. unread - 1 /\ d + 1 < BUF_SIZE /\ d \in Indices
        BY <2>5, <3>1, <3>2, BufferAssumption DEF Indices
      <4>2. Plus(Plus(ridx, 1), d) = Plus(ridx, d + 1)
        BY <1>2, <4>1, BufferAssumption DEF Indices, Plus
      <4>3. mem.ibuf[Plus(ridx, d + 1)] = taken + (d + 1) + 1
        BY <1>1, <2>6, <4>1 DEF IInv, Inputs
      <4>4. QED BY <2>2, <4>1, <4>2, <4>3
    <3>5. QED BY <3>1, <3>3, <3>4
  <2>7. QED BY <1>1, <1>3, <1>5, <2>1, <2>6 DEF IInv, Inputs
<1>8. Terminal' /\ Scripted' /\ Untouched' /\ Finishing'
  <2>1. Terminal' /\ Scripted'
    BY <1>1 DEF IInv, Terminal, Scripted
  <2>2. Untouched'
    BY <1>1 DEF IInv, Untouched, Booting
  <2>3. Finishing'
    BY <1>1, <1>5 DEF IInv, Finishing, printed
  <2>4. QED BY <2>1, <2>2, <2>3
<1>9. Outputs' /\ Draining' /\ Keys' /\ InOrder'
  BY <1>1, <1>5 DEF IInv, Outputs, Draining, Keys, keys, InOrder, published, printed
<1>10. QED BY <1>6, <1>7, <1>8, <1>9 DEF IInv

(* The return value is stored before the flag,                             *)
LEMMA ReturnValueKeeps ==
  ASSUME IInv, ReturnValue, UNCHANGED task
  PROVE  IInv'
<1>1. mem \in Memories /\ 1 \in Int /\ mem' = [mem EXCEPT !["retval"] = 1] /\ "retval" \in Words
  BY DEF IInv, Types, ReturnValue, Words
<1>2. mem' \in Memories
  BY <1>1, MemoryWord
<1>3. Types'
  BY <1>2 DEF IInv, Types, Programming, ReturnValue
<1>4. Terminal' /\ Scripted' /\ Untouched' /\ Outputs' /\ Draining' /\ Finishing' /\ Keys' /\
   Inputs' /\ InOrder'
  BY DEF IInv, Types, Untouched, Hosts, Memories, Ttys, DebugModules, Boards, Histories, Loop, Ends,
     Programming, Booting, Interrupt, Terminal, Scripted, Outputs, published, printed, Draining,
     Finishing, Keys, keys, Inputs, taken, unread, InOrder, ReturnValue, Runs
<1>5. QED BY <1>3, <1>4 DEF IInv

(* and the flag last.                                                      *)
LEMMA FinishedKeeps ==
  ASSUME IInv, Finished, UNCHANGED task
  PROVE  IInv'
<1>1. mem \in Memories /\ 1 \in Int /\ mem' = [mem EXCEPT !["flags"] = 1] /\ "flags" \in Words
  BY DEF IInv, Types, Finished, Words
<1>2. mem' \in Memories
  BY <1>1, MemoryWord
<1>3. Types'
  BY <1>2 DEF IInv, Types, Programming, Finished
<1>4. Terminal' /\ Scripted' /\ Untouched' /\ Outputs' /\ Draining' /\ Finishing' /\ Keys' /\
   Inputs' /\ InOrder'
  BY DEF IInv, Types, Untouched, Hosts, Memories, Ttys, DebugModules, Boards, Histories, Loop, Ends,
     Programming, Booting, Interrupt, Terminal, Scripted, Outputs, published, printed, Draining,
     Finishing, Keys, keys, Inputs, taken, unread, InOrder, Finished, Runs
<1>5. QED BY <1>3, <1>4 DEF IInv

-----------------------------------------------------------------------------
(* However the board was left, nothing of the new program is there yet.    *)
LEMMA InitInvariant ==
  ASSUME Init
  PROVE  IInv
<1>1. WORD \in Nat \ {0} /\ BUF_SIZE \in Nat \ {0} /\ 0 \in Indices /\ -1 \in Int /\ 0 \in Int
  BY BufferAssumption DEF Indices
<1>2. host \in Hosts
  <2>1. [k \in 0 .. WORD - 1 |-> 0] \in [0 .. WORD - 1 -> Int]
    OBVIOUS
  <2>2. QED BY <1>1, <2>1 DEF Init, NewHost, Hosts
<1>3. mem \in Memories
  <2>1. [i \in Indices |-> 0] \in [Indices -> Int]
    OBVIOUS
  <2>2. QED BY <2>1 DEF Init, Memories
<1>4. tty \in Ttys
  BY DEF Init, Ttys
<1>5. dm \in DebugModules
  BY DEF Init, DebugModules
<1>6. board \in Boards
  BY DEF Init, Boards
<1>7. seen \in Histories
  BY DEF Init, Histories
<1>8. Types
  BY <1>2, <1>3, <1>4, <1>5, <1>6, <1>7 DEF Init, Types, Places
<1>9. Terminal /\ Untouched
  BY DEF Init, Terminal, Untouched, NewHost, Loop, Booting
<1>10. Scripted
  BY DEF Init, Scripted
<1>11. Outputs /\ Draining /\ Finishing /\ Inputs
  BY DEF Init, Outputs, Draining, Finishing, Inputs, NewHost
<1>12. Keys
  BY DEF Init, Keys, keys
<1>13. InOrder
  <2>1. UpTo(0) = <<>> /\ Len(<<>>) = 0
    BY DEF UpTo
  <2>2. QED BY <2>1 DEF Init, InOrder, printed
<1>14. QED BY <1>8, <1>9, <1>10, <1>11, <1>12, <1>13 DEF IInv

(* Every step of the session preserves the invariant.                      *)
LEMMA InvariantInductive ==
  ASSUME IInv, [Next]_vars
  PROVE  IInv'
<1>1. CASE UNCHANGED vars
  <2>1. UNCHANGED <<task, pc, line, host, tty, mem, dm, hart, prog, calls, board, seen>>
    BY <1>1 DEF vars
  <2>2. Types' /\ Terminal' /\ Scripted' /\ Untouched'
    BY <2>1 DEF IInv, Types, Terminal, Scripted, Untouched
  <2>3. Outputs' /\ Draining' /\ Finishing' /\ InOrder'
    BY <2>1 DEF IInv, Outputs, Draining, Finishing, InOrder, published, printed
  <2>4. Keys' /\ Inputs'
    BY <2>1 DEF IInv, Keys, keys, Inputs, taken, unread
  <2>5. QED BY <2>2, <2>3, <2>4 DEF IInv
<1>2. CASE ScriptSteps /\ UNCHANGED task
  BY <1>2, DmiWriteKeeps, PollHaveResetKeeps, WriteHostioKeeps, WriteDdrCtrlKeeps, LoadImageKeeps,
     UseSysbusKeeps, ResumeKeeps, OtherKeeps, EnterLoopKeeps, AwaitCalibrationKeeps, AnnounceKeeps,
     LoadDataKeeps DEF ScriptSteps
<1>3. CASE HostSteps /\ UNCHANGED task
  BY <1>2, <1>3, ReadFlagsKeeps, ReadObufWidxKeeps, ReadObufWordKeeps, PrintCharKeeps,
     WriteObufRidxKeeps, NoKeyKeeps, ReadKeyKeeps, ReadIbufRidxKeeps, ReadIbufWordKeeps,
     WriteIbufWordKeeps, WriteIbufWidxKeeps, RaisesKeeps, RestoreKeeps, ReadRetvalKeeps, ShutdownKeeps
     DEF HostSteps, BrokenPipe
<1>4. CASE ProgramSteps /\ UNCHANGED task
  BY <1>4, HostioInitKeeps, PutcStoreKeeps, PutcAdvanceKeeps, GetcFetchKeeps, GetcAdvanceKeeps,
     ReturnValueKeeps, FinishedKeeps DEF ProgramSteps
<1>5. CASE (BadReply \/ ConnectionLost \/ OldProgram \/ LeaveReset \/ Calibrate) /\ UNCHANGED task
  <2>1. CASE BadReply
    <3>1. Commanding /\ pc # "shutdown" /\ Raises
      BY <2>1 DEF BadReply, Commanding, Reading, At
    <3>2. QED BY <1>5, <3>1, RaisesKeeps
  <2>2. QED BY <1>5, <2>1, ConnectionLostKeeps, OldProgramKeeps, LeaveResetKeeps, CalibrateKeeps
<1>6. CASE (TypeKey(tty.typed + 1) \/ TypeKey(Interrupt)) /\ UNCHANGED task
  <2>1. tty.typed + 1 \in {tty.typed + 1, Interrupt} /\ Interrupt \in {tty.typed + 1, Interrupt}
    OBVIOUS
  <2>2. QED BY <1>6, <2>1, TypeKeyKeeps
<1>7. QED BY <1>1, <1>3, <1>4, <1>5, <1>6 DEF Next

(* The inductive invariant holds in every state of a session, with no      *)
(* bound on the keys typed or on what the program does.                    *)
THEOREM Invariant == FairSpec => []IInv
<1>1. Init => IInv
  BY InitInvariant
<1>2. IInv /\ [Next]_vars => IInv'
  BY InvariantInductive
<1>3. QED BY <1>1, <1>2, PTL DEF FairSpec

(* The terminal shows what the program wrote, in order and once, all of it *)
(* when the session ends because the program did (openocd.py's loop over   *)
(* hostio_read, hostio.c's obuf_putc).                                     *)
THEOREM EverySessionShowsOutput == FairSpec => []OutputShown
<1>1. IInv => OutputShown
  <2> SUFFICES ASSUME IInv PROVE OutputShown
    OBVIOUS
  <2>1. printed <= seen.put
    <3>1. CASE prog = "old"
      <4>1. seen.printed = <<>> /\ seen.put = 0
        BY <3>1 DEF IInv, Untouched
      <4>2. QED BY <4>1 DEF printed
    <3>2. CASE prog # "old"
      BY <3>2, Waiting DEF IInv, Outputs
    <3>3. QED BY <3>1, <3>2
  <2>2. seen.printed = UpTo(printed)
    BY DEF IInv, InOrder
  <2>3. ASSUME pc = "over", ~host.failed, host.flags = 1
        PROVE  prog = "end_loop" /\ printed = seen.put /\ host.retval = 1
    BY <2>3 DEF IInv, Finishing
  <2>4. QED BY <2>1, <2>2, <2>3 DEF OutputShown, printed
<1>2. QED BY <1>1, Invariant, PTL

(* The program reads what the user typed, in order, while no more than     *)
(* BUF_SIZE - 1 characters wait (hostio_write, hostio.c's ibuf_getc).      *)
THEOREM EveryKeyInOrder == FairSpec => []InputInOrder
<1>1. IInv => InputInOrder
  BY DEF IInv, InOrder, InputInOrder
<1>2. QED BY <1>1, Invariant, PTL

(* Before the switch to the system bus the script only touches memory and  *)
(* registers of a halted hart, however the board was left                  *)
(* (riscv_debug_helper.py, project_utils.py).                              *)
THEOREM DebuggerNeedsNoLuck == FairSpec => []HaltedForDebugger
<1>1. IInv => HaltedForDebugger
  <2> SUFFICES ASSUME IInv, At("write") \/ At("load_image") \/ At("resume") PROVE Accessible
    BY DEF HaltedForDebugger
  <2>1. pc = "script" /\ line \in 26 .. 35
    BY Commanded DEF IInv, At
  <2>2. hart = "halted"
    BY <2>1 DEF IInv, Scripted
  <2>3. QED BY <2>2 DEF Accessible
<1>2. QED BY <1>1, Invariant, PTL

(* The terminal is raw in the loop and its finally only, whichever command  *)
(* raises and wherever the connection goes away, and OpenOCD is gone when   *)
(* the session is over (openocd.py's __exit__ and the finally blocks).  It  *)
(* says nothing of a command that waits on a connection that ended: such a  *)
(* session is not over, and its terminal is raw if it waits in the loop.    *)
THEOREM EverySessionEndsCleanly == FairSpec => []CleanEnd
<1>1. IInv => CleanEnd
  BY DEF IInv, Terminal, CleanEnd, Loop
<1>2. QED BY <1>1, Invariant, PTL
=============================================================================
