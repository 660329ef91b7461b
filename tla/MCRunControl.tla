---------------------------- MODULE MCRunControl ----------------------------
(* Two runs: one to be replaced, or to be closed upon, by another.          *)
EXTENDS RunControl
=============================================================================
