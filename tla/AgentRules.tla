----------------------------- MODULE AgentRules -----------------------------
(***************************************************************************)
(* The policy's checks and scripts on their way through the guest agent:   *)
(* src/KenanAgent/MIServer.cpp, with the two threads of the launcher that  *)
(* talk to it (set_environment and policy_update in                        *)
(* src/KLauncher/ClaPageMain.cpp, over src/KenanConn/KenanConn.cpp).       *)
(*                                                                         *)
(* The launcher posts the two lists ("violation" rules and "script"        *)
(* plans); a handler of the agent's HTTP server replaces its list, without *)
(* a lock, and starts a thread that copies it, under a critical section,   *)
(* into the list the agent works from (the running list).  The rule thread *)
(* works through the running lists under the same critical section.  A     *)
(* poll of the launcher reads outcomes off the running lists, again        *)
(* without the lock, and leaves a critical section it never entered when   *)
(* it has a violation to report (GetViolation).                            *)
(*                                                                         *)
(* Left out: the port list (a third upload, which no rule reads), the post *)
(* of the environment thread when it sees the QR code (/ip once more, as a *)
(* policy update with no list), the texts of rules and scripts, and rules  *)
(* for another operating system, which the rule thread passes over. An     *)
(* element that is written after its list was replaced under the writer    *)
(* (undefined behaviour) is written in its new place, or nowhere if it has *)
(* none; that the process dies of it instead is the fault "exit".          *)
(***************************************************************************)
EXTENDS Naturals, FiniteSets

CONSTANTS
    Scripts,       \* the script plans of the policy (ids)
    AlertScripts,  \* those the user is asked about first (execution_type 1)
    AtOnce,        \* those to run at once; the others have a scheduled minute
    Rules,         \* the violation rules of the policy
    Handlers,      \* requests the server handles at once
    Copiers,       \* threads TF_COPY_SCRIPT_RULE that may exist at once
    MaxUploads,    \* bound on the uploads of both lists
    PostTries,     \* attempts of post_to_agent (10 in the code)
    Faults,        \* what may go wrong
    None

FaultKinds ==
    {"timeout",    \* /ip is given 2 seconds, a poll 1: the answer may come too late
     "unreached",  \* a request gets no connection
     "exit",       \* the agent's process ends (a crash, an update) and is started again
     "late",       \* a copy thread may come before InitializeCriticalSection
     "long"}       \* a report outgrows the launcher's buffer and cannot be parsed

ASSUME SetsAssumption ==
    /\ IsFiniteSet(Scripts) /\ IsFiniteSet(Copiers)
    /\ AlertScripts \subseteq Scripts /\ AtOnce \subseteq Scripts
    /\ Scripts \cap Rules = {}
    /\ None \notin Handlers \cup Scripts \cup {"lost"}
    /\ "lost" \notin Handlers
ASSUME BoundsAssumption == MaxUploads \in Nat /\ PostTries \in Nat \ {0}
ASSUME FaultsAssumption == Faults \subseteq FaultKinds

Lists    == {"violation", "script"}
Requests == {"ip", "violation", "script", "idle", "version"}
Posted   == {"ip", "violation", "script"}
Clients  == {"env", "policy"}    \* the launcher's environment and policy threads

VARIABLES
    at,         \* what each client does next
    sent,       \* the handler of the request it waits for, None, or "lost"
    todo,       \* the lists the post in progress is to upload
    tries,      \* failures in a row: of the post (i), of the poll (nRetry)
    req, step,  \* the request of each handler, and how far it is
    taken,      \* script outcomes it has read
    accuses,    \* has it read a violation with something to show?
    list,       \* number of the upload each list is of, 0 when it is empty
    uploads,    \* uploads of each list so far
    running,    \* number of the upload each running list is of, 0 when it is empty
    cp, idx,    \* the copy threads, and the list each one copies
    section,    \* violation_section
    strayed,    \* has it been left by a thread that was not inside?
    rule, cur,  \* the rule thread (lv_thdScript), and the script it is at
    left,       \* what is left of its pass
    status,     \* of each script in the running list
    notified,   \* its flag: nothing to report
    result,     \* of each rule in the running list: "absent", "empty", "good" or "bad"
    ran,        \* times a script was run or refused
    received,   \* times the launcher received an outcome of it
    accused,    \* has the launcher been told of a violation?
    wrong       \* did a check ever come out wrong?

clientVars  == <<at, sent, todo, tries>>
handlerVars == <<req, step, taken, accuses>>
listVars    == <<list, uploads>>
copyVars    == <<cp, idx>>
ruleVars    == <<rule, cur, left>>
runVars     == <<running, status, notified, result>>
logVars     == <<ran, received, accused, wrong>>
vars == <<clientVars, handlerVars, listVars, copyVars, ruleVars, runVars, logVars,
          section, strayed>>

-----------------------------------------------------------------------------
Init ==
    /\ at = [l \in Clients |-> IF l = "env" THEN "ip" ELSE "none"]
    /\ sent = [l \in Clients |-> None]
    /\ todo = [l \in Clients |-> IF l = "env" THEN Lists ELSE {}]
    /\ tries = [l \in Clients |-> 0]
    /\ req = [h \in Handlers |-> "ip"]
    /\ step = [h \in Handlers |-> "none"]
    /\ taken = [h \in Handlers |-> {}]
    /\ accuses = [h \in Handlers |-> FALSE]
    /\ list = [k \in Lists |-> 0]
    /\ uploads = [k \in Lists |-> 0]
    /\ running = [k \in Lists |-> 0]
    /\ cp = [c \in Copiers |-> "none"]
    /\ idx = [c \in Copiers |-> "violation"]
    /\ section = "zero"
    /\ strayed = FALSE
    /\ rule = "none"
    /\ cur = None
    /\ left = {}
    /\ status = [s \in Scripts |-> "absent"]
    /\ notified = [s \in Scripts |-> TRUE]
    /\ result = [v \in Rules |-> "absent"]
    /\ ran = [s \in Scripts |-> 0]
    /\ received = [s \in Scripts |-> 0]
    /\ accused = FALSE
    /\ wrong = FALSE

-----------------------------------------------------------------------------
(* The launcher's threads.                                                 *)

\* Mutant of After: the scripts are followed by one more list, which nothing uploads.
AfterScripts(a, lists) ==
    IF a = "ip" /\ "violation" \in lists THEN "violation"
    ELSE IF a \in {"ip", "violation"} /\ "script" \in lists THEN "script" ELSE "port"

\* The upload that follows in a post, or "done".
After(a, lists) ==
    IF a = "ip" /\ "violation" \in lists THEN "violation"
    ELSE IF a \in {"ip", "violation"} /\ "script" \in lists THEN "script" ELSE "done"

\* Where a client stands when a post is over.  The environment thread goes on to poll, and
\* starts the policy thread if there is none yet.
PostOver(l) ==
    /\ at' = IF l = "policy" THEN [at EXCEPT ![l] = "sleep"]
             ELSE [at EXCEPT ![l] = "idle",
                             !["policy"] = IF @ = "none" THEN "sleep" ELSE @]
    /\ todo' = [todo EXCEPT ![l] = {}]
    /\ tries' = [tries EXCEPT ![l] = 0]

\* A request of l was answered.  A poll is followed by a question for the version, and the
\* answer to that is thrown away.
Succeed(l) ==
    \/ /\ at[l] \in Posted
       /\ IF After(at[l], todo[l]) = "done"
          THEN PostOver(l)
          ELSE /\ at' = [at EXCEPT ![l] = After(@, todo[l])]
               /\ UNCHANGED <<todo, tries>>
    \/ /\ at[l] = "idle"
       /\ at' = [at EXCEPT ![l] = "version"]
       /\ tries' = [tries EXCEPT ![l] = 0]
       /\ UNCHANGED todo
    \/ /\ at[l] = "version"
       /\ at' = [at EXCEPT ![l] = "idle"]
       /\ UNCHANGED <<todo, tries>>

\* It failed.  A post starts over; the first one that fails for good ends the environment
\* thread (AGENT_NOT_FOUND), and so does a third failing poll in a row.
Fail(l) ==
    \/ /\ at[l] \in Posted
       /\ IF tries[l] + 1 < PostTries
          THEN /\ at' = [at EXCEPT ![l] = "ip"]
               /\ tries' = [tries EXCEPT ![l] = @ + 1]
               /\ UNCHANGED todo
          ELSE IF at["policy"] = "none"
          THEN /\ at' = [at EXCEPT ![l] = "end"]
               /\ UNCHANGED <<todo, tries>>
          ELSE PostOver(l)
    \/ /\ at[l] = "idle"
       /\ IF tries[l] > 1
          THEN /\ at' = [at EXCEPT ![l] = "end"]
               /\ UNCHANGED tries
          ELSE /\ tries' = [tries EXCEPT ![l] = @ + 1]
               /\ UNCHANGED at
       /\ UNCHANGED todo
    \/ /\ at[l] = "version"
       /\ at' = [at EXCEPT ![l] = "idle"]
       /\ UNCHANGED <<todo, tries>>

\* Uploads so far, which MaxUploads bounds.
Uploads == uploads["violation"] + uploads["script"]

Send(l) ==
    /\ at[l] \in Requests
    /\ sent[l] = None
    /\ at[l] \in Lists => Uploads < MaxUploads
    /\ \/ /\ \E h \in Handlers :
                /\ step[h] = "none"
                /\ sent' = [sent EXCEPT ![l] = h]
                /\ req' = [req EXCEPT ![h] = at[l]]
                /\ step' = [step EXCEPT ![h] = "begin"]
          /\ UNCHANGED <<taken, accuses>>
       \/ /\ "unreached" \in Faults
          /\ sent' = [sent EXCEPT ![l] = "lost"]
          /\ UNCHANGED handlerVars
    /\ UNCHANGED <<at, todo, tries, listVars, copyVars, ruleVars, runVars, logVars,
                   section, strayed>>

\* The client gives up; the handler knows nothing of it.
GiveUp(l) ==
    /\ sent[l] # None
    /\ \/ sent[l] = "lost"
       \/ "timeout" \in Faults /\ at[l] \in {"ip", "idle"}
    /\ sent' = [sent EXCEPT ![l] = None]
    /\ Fail(l)
    /\ UNCHANGED <<handlerVars, listVars, copyVars, ruleVars, runVars, logVars, section, strayed>>

\* The downloaded policy differs from the last one: what differs is posted.
PolicyUpdate ==
    /\ at["policy"] = "sleep"
    /\ at["env"] # "end"
    /\ \E lists \in SUBSET Lists :
          /\ Uploads + Cardinality(lists) <= MaxUploads
          /\ todo' = [todo EXCEPT !["policy"] = lists]
    /\ at' = [at EXCEPT !["policy"] = "ip"]
    /\ UNCHANGED <<sent, tries, handlerVars, listVars, copyVars, ruleVars, runVars,
                   logVars, section, strayed>>

-----------------------------------------------------------------------------
(* The handlers of the agent's HTTP server.                                *)

\* The client that still waits for h.
WaitsFor(l, h) == sent[l] = h

\* Mutant of Enter: whether the section is free is not waited for.
EnterAnyway == section \in {"free", "held"} /\ section' = "held"

Enter == section = "free" /\ section' = "held"

\* Mutant of Leave: it is forgotten.
LeaveNot == UNCHANGED section

\* Leaving a critical section undoes whoever's entry it was; leaving a free one may make
\* the next Enter wait for ever, and one that was never initialised stays unusable.
Leave ==
    \/ section = "held" /\ section' = "free"
    \/ section = "free" /\ section' \in {"free", "stuck"}
    \/ section \in {"zero", "stuck"} /\ UNCHANGED section

\* OnHostIPProc: the first /ip starts the rule thread.
HandleIP(h) ==
    /\ step[h] = "begin" /\ req[h] = "ip"
    /\ rule' = IF rule = "none" THEN "init" ELSE rule
    /\ step' = [step EXCEPT ![h] = "answer"]
    /\ UNCHANGED <<clientVars, req, taken, accuses, listVars, copyVars, cur, left, runVars,
                   logVars, section, strayed>>

\* OnViolationProc, OnAgentScriptProc: the list is emptied ...
ClearList(h) ==
    /\ step[h] = "begin" /\ req[h] \in Lists
    /\ list' = [list EXCEPT ![req[h]] = 0]
    /\ step' = [step EXCEPT ![h] = "refill"]
    /\ UNCHANGED <<clientVars, req, taken, accuses, uploads, copyVars, ruleVars, runVars,
                   logVars, section, strayed>>

\* Mutant of StartCopy: the thread is given the other list's number.
StartCopyPasted(k) ==
    \E c \in Copiers :
        /\ cp[c] = "none"
        /\ cp' = [cp EXCEPT ![c] = "wait"]
        /\ idx' = [idx EXCEPT ![c] = "script"]

StartCopy(k) ==
    \E c \in Copiers :
        /\ cp[c] = "none"
        /\ cp' = [cp EXCEPT ![c] = "wait"]
        /\ idx' = [idx EXCEPT ![c] = k]

\* ... filled again, and a thread is started to copy it.
RefillList(h) ==
    /\ step[h] = "refill"
    /\ uploads' = [uploads EXCEPT ![req[h]] = @ + 1]
    /\ list' = [list EXCEPT ![req[h]] = uploads[req[h]] + 1]
    /\ StartCopy(req[h])
    /\ step' = [step EXCEPT ![h] = "answer"]
    /\ UNCHANGED <<clientVars, req, taken, accuses, ruleVars, runVars, logVars, section, strayed>>

\* Mutant of ToShow: a result that is not the expected one, be it empty.
ToShowEmpty(v) == result[v] \in {"empty", "bad"}

\* A violation with a text for the launcher to show.
ToShow(v) == result[v] = "bad"

\* GetViolation: the first rule whose result is not the expected one is read and reset.  A
\* result that is empty makes no report, but it strays all the same.
GetViolation(h) ==
    /\ step[h] = "begin" /\ req[h] \in {"idle", "version"}
    /\ \/ /\ \A v \in Rules : result[v] \notin {"empty", "bad"}
          /\ UNCHANGED <<accuses, result, section, strayed>>
       \/ \E v \in Rules :
             /\ result[v] \in {"empty", "bad"}
             /\ accuses' = [accuses EXCEPT ![h] = ToShow(v)]
             /\ result' = [result EXCEPT ![v] = "good"]
             /\ Leave
             /\ strayed' = TRUE
    /\ step' = [step EXCEPT ![h] = "scripts"]
    /\ UNCHANGED <<clientVars, req, taken, listVars, copyVars, ruleVars, running, status,
                   notified, logVars>>

\* Mutant of Unreported: the outcome of a script the user refused is none.
UnreportedRun == {s \in Scripts : status[s] = "run" /\ ~notified[s]}

Unreported == {s \in Scripts : status[s] # "absent" /\ ~notified[s]}

\* GetAgentScript: the outcomes that were not reported yet are read ...
GetAgentScript(h) ==
    /\ step[h] = "scripts"
    /\ taken' = [taken EXCEPT ![h] = Unreported]
    /\ step' = [step EXCEPT ![h] = "mark"]
    /\ UNCHANGED <<clientVars, req, accuses, listVars, copyVars, ruleVars, runVars, logVars,
                   section, strayed>>

\* Mutant of Marked: nothing is.
MarkedNot(h) == notified

Marked(h) == [s \in Scripts |-> notified[s] \/ s \in taken[h]]

\* ... and marked as reported, before the answer is sent.
MarkNotified(h) ==
    /\ step[h] = "mark"
    /\ notified' = Marked(h)
    /\ step' = [step EXCEPT ![h] = "answer"]
    /\ UNCHANGED <<clientVars, req, taken, accuses, listVars, copyVars, ruleVars, running,
                   status, result, logVars, section, strayed>>

\* The handler is done; its request's slot is free for the next one.
Done(h) ==
    /\ step' = [step EXCEPT ![h] = "none"]
    /\ taken' = [taken EXCEPT ![h] = {}]
    /\ accuses' = [accuses EXCEPT ![h] = FALSE]
    /\ req' = [req EXCEPT ![h] = "ip"]

\* The answer arrives.  Only a poll's is looked into.
Answer(h) ==
    /\ step[h] = "answer"
    /\ \E l \in Clients :
          /\ WaitsFor(l, h)
          /\ sent' = [sent EXCEPT ![l] = None]
          /\ Succeed(l)
          /\ IF at[l] = "idle"
             THEN /\ accused' = (accused \/ accuses[h])
                  /\ \/ received' = [s \in Scripts |->
                                        received[s] + (IF s \in taken[h] THEN 1 ELSE 0)]
                     \/ "long" \in Faults /\ taken[h] # {} /\ UNCHANGED received
             ELSE UNCHANGED <<received, accused>>
    /\ Done(h)
    /\ UNCHANGED <<listVars, copyVars, ruleVars, runVars, ran, wrong, section,
                   strayed>>

\* Nobody waits for the answer any more.
AnswerInVain(h) ==
    /\ step[h] = "answer"
    /\ \A l \in Clients : ~WaitsFor(l, h)
    /\ Done(h)
    /\ UNCHANGED <<clientVars, listVars, copyVars, ruleVars, runVars, logVars, section, strayed>>

-----------------------------------------------------------------------------
(* The copy threads (TF_COPY_SCRIPT_RULE).                                 *)

\* The running list is emptied as soon as the thread is inside.
CopyEnter(c) ==
    /\ cp[c] = "wait"
    /\ \/ /\ Enter
          /\ cp' = [cp EXCEPT ![c] = "in"]
          /\ running' = [running EXCEPT ![idx[c]] = 0]
          /\ IF idx[c] = "script"
             THEN /\ status' = [s \in Scripts |-> "absent"]
                  /\ notified' = [s \in Scripts |-> TRUE]
                  /\ UNCHANGED result
             ELSE /\ result' = [v \in Rules |-> "absent"]
                  /\ UNCHANGED <<status, notified>>
       \/ /\ section = "zero" /\ "late" \in Faults
          /\ cp' = [cp EXCEPT ![c] = "lost"]
          /\ UNCHANGED <<section, runVars>>
    /\ UNCHANGED <<clientVars, handlerVars, listVars, idx, ruleVars, logVars, strayed>>

\* What a copy of list k gets: all of it, none of it, or part of it while it is refilled.
Copied(k, all) ==
    IF \E h \in Handlers : step[h] = "refill" /\ req[h] = k THEN SUBSET all
    ELSE IF list[k] = 0 THEN {{}} ELSE {all}

CopyLeave(c) ==
    /\ cp[c] = "in"
    /\ running' = [running EXCEPT ![idx[c]] = list[idx[c]]]
    /\ \/ /\ idx[c] = "script"
          /\ \E S \in Copied("script", Scripts) :
                status' = [s \in Scripts |-> IF s \in S THEN "ready" ELSE "absent"]
          /\ notified' = [s \in Scripts |-> TRUE]
          /\ UNCHANGED result
       \/ /\ idx[c] = "violation"
          /\ \E V \in Copied("violation", Rules) :
                result' = [v \in Rules |-> IF v \in V THEN "empty" ELSE "absent"]
          /\ UNCHANGED <<status, notified>>
    /\ cp' = [cp EXCEPT ![c] = "none"]
    /\ idx' = [idx EXCEPT ![c] = "violation"]
    /\ Leave
    /\ UNCHANGED <<clientVars, handlerVars, listVars, ruleVars, logVars, strayed>>

-----------------------------------------------------------------------------
(* The rule thread (TF_VIOLATION).                                         *)

InitSection ==
    /\ rule = "init"
    /\ section' = "free"
    /\ rule' = "enter"
    /\ UNCHANGED <<clientVars, handlerVars, listVars, copyVars, cur, left, runVars, logVars,
                   strayed>>

RuleEnter ==
    /\ rule = "enter"
    /\ Enter
    /\ rule' = "pass"
    /\ left' = Rules \cup Scripts
    /\ UNCHANGED <<clientVars, handlerVars, listVars, copyVars, cur, runVars, logVars, strayed>>

\* One rule: not due, or run, and then its output is what was expected or it is not.
CheckRule(v) ==
    /\ rule = "pass" /\ v \in left
    /\ left' = left \ {v}
    /\ IF result[v] = "absent" THEN UNCHANGED <<result, wrong>>
       ELSE \E r \in {result[v], "empty", "good", "bad"} :
               /\ result' = [result EXCEPT ![v] = r]
               /\ wrong' = (wrong \/ r = "bad")
    /\ UNCHANGED <<clientVars, handlerVars, listVars, copyVars, rule, cur, running, status,
                   notified, ran, received, accused, section, strayed>>

Carry(s, st) ==
    /\ status' = [status EXCEPT ![s] = IF @ = "absent" THEN @ ELSE st]
    /\ ran' = [ran EXCEPT ![s] = @ + 1]

\* Mutant of ToRun: a script that was run is run again.
ToRunAgain(s) == status[s] # "absent"

ToRun(s) == status[s] = "ready"

\* The next script, after the rules: one that has been run is passed over, and so is one
\* whose minute it is not; one the user is to be asked about waits for him, inside the
\* critical section.
PassOver(s) ==
    /\ rule = "pass" /\ s \in left /\ left \cap Rules = {}
    /\ ~ToRun(s) \/ s \notin AtOnce
    /\ left' = left \ {s}
    /\ UNCHANGED <<clientVars, handlerVars, listVars, copyVars, rule, cur, runVars, logVars,
                   section, strayed>>

Reach(s) ==
    /\ rule = "pass" /\ s \in left /\ left \cap Rules = {}
    /\ ToRun(s)
    /\ left' = left \ {s}
    /\ cur' = s
    /\ IF s \in AlertScripts
       THEN /\ rule' = "alert"
            /\ UNCHANGED <<status, ran>>
       ELSE /\ rule' = "run"
            /\ Carry(s, "run")
    /\ UNCHANGED <<clientVars, handlerVars, listVars, copyVars, running, notified, result,
                   received, accused, wrong, section, strayed>>

\* The flag is the last to be written: only then is the outcome one to report.
Outcome(s) == notified' = [notified EXCEPT ![s] = status[s] = "absent"]

Accept ==
    /\ rule = "alert"
    /\ Carry(cur, "run")
    /\ rule' = "run"
    /\ UNCHANGED <<clientVars, handlerVars, listVars, copyVars, cur, left, running, notified,
                   result, received, accused, wrong, section, strayed>>

Refuse ==
    /\ rule = "alert"
    /\ Carry(cur, "refused")
    /\ Outcome(cur)
    /\ rule' = "pass"
    /\ cur' = None
    /\ UNCHANGED <<clientVars, handlerVars, listVars, copyVars, left, running, result,
                   received, accused, wrong, section, strayed>>

RunEnds ==
    /\ rule = "run"
    /\ Outcome(cur)
    /\ rule' = "pass"
    /\ cur' = None
    /\ UNCHANGED <<clientVars, handlerVars, listVars, copyVars, left, running, status, result,
                   logVars, section, strayed>>

RuleLeave ==
    /\ rule = "pass" /\ left = {}
    /\ Leave
    /\ rule' = "enter"
    /\ UNCHANGED <<clientVars, handlerVars, listVars, copyVars, cur, left, runVars, logVars,
                   strayed>>

-----------------------------------------------------------------------------
\* The process ends, with all its threads and lists; requests in progress fail.  If it is
\* started again (the update that ended it starts the service, which starts the agent),
\* requests that come before that are "unreached".
Exit ==
    /\ "exit" \in Faults
    /\ sent' = [l \in Clients |-> IF sent[l] \in Handlers THEN "lost" ELSE sent[l]]
    /\ step' = [h \in Handlers |-> "none"]
    /\ taken' = [h \in Handlers |-> {}]
    /\ accuses' = [h \in Handlers |-> FALSE]
    /\ req' = [h \in Handlers |-> "ip"]
    /\ list' = [k \in Lists |-> 0]
    /\ running' = [k \in Lists |-> 0]
    /\ cp' = [c \in Copiers |-> "none"]
    /\ idx' = [c \in Copiers |-> "violation"]
    /\ section' = "zero"
    /\ strayed' = FALSE
    /\ rule' = "none"
    /\ cur' = None
    /\ left' = {}
    /\ status' = [s \in Scripts |-> "absent"]
    /\ notified' = [s \in Scripts |-> TRUE]
    /\ result' = [v \in Rules |-> "absent"]
    /\ UNCHANGED <<at, todo, tries, uploads, logVars>>

Handle(h) ==
    \/ HandleIP(h) \/ ClearList(h) \/ RefillList(h)
    \/ GetViolation(h) \/ GetAgentScript(h) \/ MarkNotified(h)
    \/ Answer(h) \/ AnswerInVain(h)

RuleStep ==
    \/ InitSection \/ RuleEnter
    \/ \E v \in Rules : CheckRule(v)
    \/ \E s \in Scripts : PassOver(s) \/ Reach(s)
    \/ RunEnds \/ RuleLeave

Next ==
    \/ \E l \in Clients : Send(l) \/ GiveUp(l)
    \/ PolicyUpdate
    \/ \E h \in Handlers : Handle(h)
    \/ \E c \in Copiers : CopyEnter(c) \/ CopyLeave(c)
    \/ RuleStep \/ Accept \/ Refuse
    \/ Exit

Spec == Init /\ [][Next]_vars

\* Threads that can go on do.  One that waits for the critical section gets it when it is
\* free again and again: the rule thread sleeps 300 ms between two passes, and only one
\* copy thread is waiting for each upload.  A request gets a thread of the server when one
\* is free again and again: connections wait in a queue.  Nobody is obliged to answer the
\* agent's alert, to change the policy or to start the process again.
Fairness ==
    /\ \A l \in Clients : SF_vars(Send(l)) /\ WF_vars(sent[l] = "lost" /\ GiveUp(l))
    /\ \A h \in Handlers : WF_vars(Handle(h))
    /\ \A c \in Copiers : SF_vars(CopyEnter(c)) /\ WF_vars(CopyLeave(c))
    /\ WF_vars(RuleStep)

FairSpec == Spec /\ Fairness

-----------------------------------------------------------------------------
AgentTypeOK ==
    /\ at \in [Clients -> Requests \cup {"none", "sleep", "end"}]
    /\ sent \in [Clients -> Handlers \cup {None, "lost"}]
    /\ todo \in [Clients -> SUBSET Lists]
    /\ tries \in [Clients -> Nat]
    /\ strayed \in BOOLEAN
    /\ req \in [Handlers -> Requests]
    /\ step \in [Handlers -> {"none", "begin", "refill", "scripts", "mark", "answer"}]
    /\ \A h \in Handlers : step[h] = "refill" => req[h] \in Lists
    /\ taken \in [Handlers -> SUBSET Scripts]
    /\ accuses \in [Handlers -> BOOLEAN]
    /\ list \in [Lists -> Nat] /\ uploads \in [Lists -> Nat] /\ running \in [Lists -> Nat]
    /\ cp \in [Copiers -> {"none", "wait", "in", "lost"}]
    /\ idx \in [Copiers -> Lists]
    /\ section \in {"zero", "free", "held", "stuck"}
    /\ rule \in {"none", "init", "enter", "pass", "alert", "run"}
    /\ cur \in Scripts \cup {None}
    /\ rule \in {"alert", "run"} => cur \in Scripts
    /\ left \subseteq Scripts \cup Rules
    /\ status \in [Scripts -> {"absent", "ready", "run", "refused"}]
    /\ notified \in [Scripts -> BOOLEAN]
    /\ result \in [Rules -> {"absent", "empty", "good", "bad"}]
    /\ ran \in [Scripts -> Nat] /\ received \in [Scripts -> Nat]
    /\ accused \in BOOLEAN /\ wrong \in BOOLEAN

\* No list is replaced under the rule thread while it works through it (MIServer.cpp:75,
\* 120), and no two copies are made at once, unless a poll has left the critical section
\* without being inside (:243) or a copy thread came before its initialisation (:117).
InPass == rule \in {"pass", "alert", "run"}
Inside == {c \in Copiers : cp[c] = "in"}
Undisturbed ==
    strayed \/ /\ InPass => Inside = {}
               /\ \A c, d \in Inside : c = d

\* However copies, passes, replies that come too late and restarts fall together, a script is
\* not run, or put to the user, more often than its list was uploaded: never twice for one
\* upload.  (It is not "once for each": a late copy may revive what an early copy has run.)
RunOncePerUpload == \A s \in Scripts : ran[s] <= uploads["script"]

\* The launcher, and so the server, is told of no outcome more than once, however often a
\* poll is given up and repeated (:256, :267).
ReportedOnce == \A s \in Scripts : received[s] <= ran[s]

\* What a poll reads of a script (:256) is the outcome of a run of the list in force, never one
\* an earlier list left behind, however copies and passes follow on one another: a script that
\* is still to be run has nothing to report, until a poll has left the section that keeps
\* copies out of a pass (:243).
OwnOutcomes == strayed \/ \A s \in Scripts : status[s] = "ready" => notified[s]

\* What the agent works from is what was uploaded last, or somebody is about to see to it:
\* a handler that is still filling the list, or a copy thread (:971, :1060), be it one that
\* came too early and is lost.
InForceOrComing ==
    \A k \in Lists :
        \/ running[k] = list[k]
        \/ \E c \in Copiers : cp[c] # "none" /\ idx[c] = k
        \/ \E h \in Handlers : step[h] = "refill" /\ req[h] = k

\* The launcher halts a machine for a violation (WM_USER_VIOLATION) only if a check of the
\* agent came out wrong, though each list arrives with no result at all (:239).
OnlyRealViolations == accused => wrong

\* Whatever was uploaded comes into force, and stays so, unless the machine is given up
\* (AGENT_NOT_FOUND) or somebody lets the agent's alert stand, which blocks every copy (:185).
RulesInForce ==
    \/ <>[](\A k \in Lists : running[k] = uploads[k] /\ uploads[k] > 0)
    \/ <>(at["env"] = "end")
    \/ <>[](rule = "alert")

\* An outcome is picked up by a poll, as long as the launcher polls.
OutcomesTaken ==
    \A s \in Scripts : ~notified[s] ~> (notified[s] \/ at["env"] = "end")

-----------------------------------------------------------------------------
\* What the scripts of the running list are to ScriptService: a script that is being run is
\* still waiting, for it has no outcome to take.
Place(s) ==
    IF status[s] = "absent" THEN "none"
    ELSE IF status[s] = "ready" \/ (rule = "run" /\ cur = s) THEN "waiting"
    ELSE IF notified[s] THEN "taken" ELSE "finished"

Placed == [s \in Scripts |-> Place(s)]

Service == INSTANCE ScriptService WITH state <- Placed

\* The agent keeps the promise of ScriptService.tla: an outcome is taken once and never before
\* there is one.  (After a poll that strayed, a script that waits may have an outcome of the
\* list before to report, of which this says nothing.)
KeepsService == Service!Spec
=============================================================================
