--------------------------- MODULE MCLauncherPage ---------------------------
(***************************************************************************)
(* One image: what the page can get wrong needs no second one.  Two        *)
(* environment threads: the one of a closed virtual machine may still be   *)
(* there when the next is launched.  Two posted messages wait at most, and *)
(* two boxes are open: one of the user's, one of a message's.              *)
(***************************************************************************)
EXTENDS LauncherPage, TLC

CONSTANTS img1, none, thd1, thd2

MCImages == {img1}
MCNone == none
MCLaunchFaults == {"decrypt", "open", "powerOn"}
MCOneMonitor == {thd1}
MCTwoMonitors == {thd1, thd2}
MCMaxMsgs == 2
MCMaxDepth == 2

\* The environment threads are alike: states that differ by their names are one.
MonitorSymmetry == Permutations(MCTwoMonitors)
=============================================================================
