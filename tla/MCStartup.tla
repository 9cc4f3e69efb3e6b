----------------------------- MODULE MCStartup ------------------------------
(* A small instance of Startup for TLC. *)
EXTENDS Startup

(* One username of the demo accounts, one of nobody's. *)
TwoNewcomers == {"donor1", "eve"}
=============================================================================
