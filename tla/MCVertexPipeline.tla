---------------------------- MODULE MCVertexPipeline ----------------------------
(* Two triangles, two frames, and software that may restart one under way.  *)
EXTENDS VertexPipeline
===============================================================================
