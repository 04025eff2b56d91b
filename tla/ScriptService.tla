--------------------------- MODULE ScriptService ----------------------------
(***************************************************************************)
(* What the guest agent promises about the scripts of a policy: a script   *)
(* of the list in force is carried out (or refused by the user) at most    *)
(* once, its outcome is taken by a poll at most once and never before      *)
(* there is one, and a new list starts all over.  AgentRules.tla is shown  *)
(* to implement it.                                                        *)
(***************************************************************************)
CONSTANT Scripts

VARIABLE state       \* of each script of the list in force

States == {"none", "waiting", "finished", "taken"}

Init == state = [s \in Scripts |-> "none"]

\* A list is withdrawn, or another (part of one, if it is being changed) is put in force.
Replace == state' \in [Scripts -> {"none", "waiting"}]

Finish(s) ==
    /\ state[s] = "waiting"
    /\ state' = [state EXCEPT ![s] = "finished"]

\* A poll takes some of the outcomes that wait to be reported.
Take(S) ==
    /\ \A s \in S : state[s] = "finished"
    /\ state' = [s \in Scripts |-> IF s \in S THEN "taken" ELSE state[s]]

TakeAny == \E S \in SUBSET Scripts : Take(S)

Next ==
    \/ Replace
    \/ \E s \in Scripts : Finish(s)
    \/ TakeAny

Spec == Init /\ [][Next]_state
=============================================================================
