-------------------------- MODULE MCXbarGenerator --------------------------
(* The crossbar generator on the descriptions of XbarDescriptions.          *)
EXTENDS XbarRtl, XbarDescriptions
============================================================================
