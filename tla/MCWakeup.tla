----------------------------- MODULE MCWakeup -------------------------------
(* The scheduler on a small instance: the values are in Wakeup.cfg.        *)
EXTENDS Wakeup
=============================================================================
