---------------------------- MODULE MCHostSession ----------------------------
EXTENDS HostSession
(* Rings of four bytes in words of two: six outputs wrap the ring, an echo   *)
(* program mixes both directions, and a program that never reads is overrun. *)
MCPrograms == {<<"putc", "putc", "putc", "putc", "putc">>,
               <<"getc", "putc", "getc", "putc">>, <<"getc", "getc", "getc", "getc", "getc">>}
=============================================================================
