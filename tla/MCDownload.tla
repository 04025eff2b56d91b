----------------------------- MODULE MCDownload -----------------------------
(* Instance of Download for TLC: the sets are given here.                   *)
EXTENDS Download, TLC

CONSTANTS t1, t2, i1, i2

MCThreads  == {t1, t2}
MCImages   == {i1, i2}
MCFaults   == {"cut", "status", "unpack"}
=============================================================================
