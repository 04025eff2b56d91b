------------------------------ MODULE MCVmxKey ------------------------------
(***************************************************************************)
(* Seven GUIDs: one for every place that may hold one of its own when a    *)
(* new one is drawn, and the new one.                                      *)
(***************************************************************************)
EXTENDS VmxKey, TLC

CONSTANTS k1, k2, k3, k4, k5, k6, k7, empty, shipped, plain, torn, gone

MCKeys == {k1, k2, k3, k4, k5, k6, k7}
MCNoMishaps == {}
MCLostReply == {"setPassword"}
MCMostMishaps == {"setPassword", "kill", "crash", "restart", "file"}
MCAllMishaps == MishapKinds

\* GUIDs are only compared.
KeySymmetry == Permutations(MCKeys)
=============================================================================
