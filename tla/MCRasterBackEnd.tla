---------------------------- MODULE MCRasterBackEnd ----------------------------
(* A line over the first half, a nearer one over both halves of a place.    *)
EXTENDS RasterBackEnd, TLC
L(p, c, z) == [place |-> p, cover |-> c, z |-> z, marker |-> FALSE]
MCPlace == {"p", "q"}
MCLine == {L("p", {"lo"}, 1), L("p", {"lo", "hi"}, 2)}
MCMaxDraws == <<2, 1>>
MCMarkerLine == [place |-> "q", cover |-> {"lo"}, z |-> 3, marker |-> TRUE]
===============================================================================
