------------------------------ MODULE MCKVmMgr ------------------------------
(***************************************************************************)
(* Two images: enough for a command on one to meet the files of the other. *)
(* Two unread messages: the answer to one command waits while the next one *)
(* is already answered.                                                    *)
(***************************************************************************)
EXTENDS KVmMgr

CONSTANTS img1, img2, none

MCImages == {img1, img2}
MCNone == none
MCMaxMsgs == 2

\* Everything external may fail.
MCAllFaults == FaultKinds

\* Keys open their descriptors and a power-off powers off.
MCVmwareFaults == {"open", "powerOn"}
=============================================================================
