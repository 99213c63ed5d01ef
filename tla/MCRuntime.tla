----------------------------- MODULE MCRuntime ------------------------------
(* The process on a small instance: the values are in Runtime.cfg.         *)
EXTENDS Runtime
=============================================================================
