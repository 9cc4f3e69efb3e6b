--------------------------- MODULE MCProjectPage ----------------------------
(* Small instances of ProjectPage for TLC.                                 *)
EXTENDS ProjectPage, TLC
=============================================================================
