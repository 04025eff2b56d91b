----------------------------- MODULE MCSession ------------------------------
(* Instance of Session for TLC: bounds and faults are given in the cfg.     *)
EXTENDS Session

MCFaults == {"lost", "garbled", "vague"}
=============================================================================
