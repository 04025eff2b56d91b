----------------------------- MODULE VmService ------------------------------
(***************************************************************************)
(* What the VM manager of the launcher promises to the window that uses    *)
(* it: one command at a time, and for every command it accepts exactly one *)
(* completion message, unless the launch is refused to the caller's face   *)
(* (KVmMgr::launchVM returning -1).  KVmMgr.tla is shown to implement it.  *)
(***************************************************************************)
EXTENDS Naturals, Sequences

CONSTANT MaxMsgs     \* completion messages the window may leave unread

VARIABLES
    busy,            \* the command in progress, or "unknown"
    done             \* completion messages the window has not read yet

vars == <<busy, done>>

Commands == {"start", "stop", "suspend"}

\* The messages a command may complete with.
Completions ==
    [start |-> {"launched", "launchFailed"}, stop |-> {"stopped"}, suspend |-> {"suspended"}]

Init ==
    /\ busy = "unknown"
    /\ done = <<>>

Accept(c) ==
    /\ busy = "unknown"
    /\ busy' = c
    /\ UNCHANGED done

\* A launch whose descriptor cannot be decrypted is refused synchronously.
Refuse ==
    /\ busy = "start"
    /\ busy' = "unknown"
    /\ UNCHANGED done

Complete ==
    /\ busy \in Commands
    /\ Len(done) < MaxMsgs
    /\ \E m \in Completions[busy] : done' = Append(done, m)
    /\ busy' = "unknown"

Read ==
    /\ done # <<>>
    /\ done' = Tail(done)
    /\ UNCHANGED busy

Next ==
    \/ \E c \in Commands : Accept(c)
    \/ Refuse
    \/ Complete
    \/ Read

Spec == Init /\ [][Next]_vars

\* Every accepted command is over some day.
Served == busy \in Commands ~> busy = "unknown"

LiveSpec == Spec /\ WF_vars(Complete)
=============================================================================
