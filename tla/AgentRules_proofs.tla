-------------------------- MODULE AgentRules_proofs ---------------------------
(***************************************************************************)
(* The safety properties of AgentRules and its refinement of               *)
(* ScriptService, for every set of scripts, rules, requests and copy       *)
(* threads, and, except for the refinement, under all the faults.          *)
(***************************************************************************)
EXTENDS AgentRules, FiniteSetTheorems, TLAPS

-----------------------------------------------------------------------------
(* The inductive invariants.                                               *)

\* The critical section is held exactly while somebody is inside, until a poll strays.
SectionInv ==
    /\ rule \in {"none", "init"} => section = "zero"
    /\ strayed \/ /\ section = "held" <=> (InPass \/ Inside # {})
                  /\ section # "stuck"
    /\ Undisturbed

\* What may still come to a run of script s: copies that are on their way, and the script
\* itself while it waits to be run.
Pending == {c \in Copiers : cp[c] \in {"wait", "in"} /\ idx[c] = "script"}
Waiting(s) == IF status[s] = "ready" \/ (rule = "alert" /\ cur = s) THEN 1 ELSE 0

\* Each upload pays for one copy, each copy for one run.
RunInv ==
    \A s \in Scripts : ran[s] + Cardinality(Pending) + Waiting(s) <= uploads["script"]

\* The poll the launcher waits for, at the given step, with script s in it.
Polled(s, st) ==
    \E h \in Handlers : /\ at["env"] = "idle" /\ sent["env"] = h
                        /\ step[h] = st /\ s \in taken[h]

\* What may still come to a report of script s: an answer on its way, an outcome that waits
\* for a poll or is being taken by one, and a run in progress.
Answering(s) == IF Polled(s, "answer") THEN 1 ELSE 0
Unmarked(s)  == IF ~notified[s] \/ Polled(s, "mark") THEN 1 ELSE 0
Carrying(s)  == IF rule = "run" /\ cur = s THEN 1 ELSE 0

\* Each run pays for one report.
ReportInv ==
    /\ at["policy"] \notin {"idle", "version"}
    /\ \A h \in Handlers : step[h] \notin {"mark", "answer"} => taken[h] = {}
    /\ \A s \in Scripts :
          received[s] + Answering(s) + Unmarked(s) + Carrying(s) <= ran[s]

\* Nothing that could accuse anybody is there before a check came out wrong.
AccuseInv ==
    wrong \/ /\ ~accused
             /\ \A h \in Handlers : ~accuses[h]
             /\ \A v \in Rules : result[v] # "bad"

IInv ==
    /\ AgentTypeOK
    /\ SectionInv
    /\ RunInv
    /\ ReportInv
    /\ InForceOrComing
    /\ AccuseInv

\* The script the rule thread is at is as it left it; after a poll that strayed, a copy may
\* have put another list in its place.
AtScript ==
    /\ rule = "alert" => status[cur] = "ready" \/ (strayed /\ status[cur] = "absent")
    /\ rule = "run" => status[cur] = "run" \/ (strayed /\ status[cur] \in {"absent", "ready"})
    /\ OwnOutcomes

-----------------------------------------------------------------------------
\* Every step keeps the variables in their types.
LEMMA AgentTypeStep ==
    ASSUME AgentTypeOK, [Next]_vars
    PROVE  AgentTypeOK'
<1> USE DEF AgentTypeOK, Lists, Clients, Requests, Posted,
           clientVars, handlerVars, listVars, copyVars, ruleVars, runVars, logVars
<1>1. ASSUME NEW l \in Clients, Send(l) PROVE AgentTypeOK'
  BY <1>1 DEF Send, Uploads
<1>2. ASSUME NEW l \in Clients, GiveUp(l) PROVE AgentTypeOK'
  BY <1>2 DEF GiveUp, Fail, PostOver
<1>3. CASE PolicyUpdate
  BY <1>3 DEF PolicyUpdate
<1>4. ASSUME NEW h \in Handlers, HandleIP(h) PROVE AgentTypeOK'
  BY <1>4 DEF HandleIP
<1>5. ASSUME NEW h \in Handlers, ClearList(h) PROVE AgentTypeOK'
  BY <1>5 DEF ClearList
<1>6. ASSUME NEW h \in Handlers, RefillList(h) PROVE AgentTypeOK'
  <2>1. PICK c \in Copiers : cp' = [cp EXCEPT ![c] = "wait"] /\ idx' = [idx EXCEPT ![c] = req[h]]
    BY <1>6 DEF RefillList, StartCopy
  <2>2. req[h] \in Lists
    BY <1>6 DEF RefillList
  <2> QED
    BY <1>6, <2>1, <2>2 DEF RefillList
<1>7. ASSUME NEW h \in Handlers, GetViolation(h) PROVE AgentTypeOK'
  <2>1. accuses' \in [Handlers -> BOOLEAN] /\ result' \in [Rules -> {"absent", "empty", "good", "bad"}]
    <3>1. CASE UNCHANGED <<accuses, result>>
      BY <3>1
    <3>2. CASE \E v \in Rules : /\ accuses' = [accuses EXCEPT ![h] = ToShow(v)]
                              /\ result' = [result EXCEPT ![v] = "good"]
      BY <3>2 DEF ToShow
    <3> QED
      BY <1>7, <3>1, <3>2 DEF GetViolation
  <2>2. section' \in {"zero", "free", "held", "stuck"} /\ strayed' \in BOOLEAN
    BY <1>7 DEF GetViolation, Leave
  <2>3. step' = [step EXCEPT ![h] = "scripts"] /\ req[h] \in {"idle", "version"}
    BY <1>7 DEF GetViolation
  <2>4. UNCHANGED <<clientVars, req, taken, listVars, copyVars, ruleVars, running, status,
                    notified, logVars>>
    BY <1>7 DEF GetViolation
  <2> QED
    BY <2>1, <2>2, <2>3, <2>4
<1>8. ASSUME NEW h \in Handlers, GetAgentScript(h) PROVE AgentTypeOK'
  BY <1>8 DEF GetAgentScript, Unreported
<1>9. ASSUME NEW h \in Handlers, MarkNotified(h) PROVE AgentTypeOK'
  BY <1>9 DEF MarkNotified, Marked
<1>10. ASSUME NEW h \in Handlers, Answer(h) PROVE AgentTypeOK'
  BY <1>10 DEF Answer, Succeed, PostOver, After, WaitsFor, Done
<1>11. ASSUME NEW h \in Handlers, AnswerInVain(h) PROVE AgentTypeOK'
  BY <1>11 DEF AnswerInVain, Done
<1>12. ASSUME NEW c \in Copiers, CopyEnter(c) PROVE AgentTypeOK'
  <2>1. status' \in [Scripts -> {"absent", "ready", "run", "refused"}]
           /\ notified' \in [Scripts -> BOOLEAN]
    <3>1. CASE UNCHANGED <<status, notified>>
      BY <3>1
    <3>2. CASE status' = [s \in Scripts |-> "absent"] /\ notified' = [s \in Scripts |-> TRUE]
      BY <3>2
    <3> QED
      BY <1>12, <3>1, <3>2 DEF CopyEnter
  <2>2. result' \in [Rules -> {"absent", "empty", "good", "bad"}]
           /\ running' \in [Lists -> Nat]
    BY <1>12 DEF CopyEnter
  <2>3. section' \in {"zero", "free", "held", "stuck"}
           /\ cp' \in [Copiers -> {"none", "wait", "in", "lost"}]
    BY <1>12 DEF CopyEnter, Enter
  <2> QED
    BY <1>12, <2>1, <2>2, <2>3 DEF CopyEnter
<1>13. ASSUME NEW c \in Copiers, CopyLeave(c) PROVE AgentTypeOK'
  <2>1. section' \in {"zero", "free", "held", "stuck"}
    BY <1>13 DEF CopyLeave, Leave
  <2>2. running' \in [Lists -> Nat] /\ cp' \in [Copiers -> {"none", "wait", "in", "lost"}]
                 /\ idx' \in [Copiers -> Lists]
    BY <1>13 DEF CopyLeave
  <2>3. status' \in [Scripts -> {"absent", "ready", "run", "refused"}]
           /\ notified' \in [Scripts -> BOOLEAN]
    <3>1. CASE idx[c] = "script"
      <4> HIDE DEF AgentTypeOK
      <4>1. notified' = [s \in Scripts |-> TRUE]
        BY <1>13, <3>1 DEF CopyLeave
      <4>2. \E S \in Copied("script", Scripts) :
                status' = [s \in Scripts |-> IF s \in S THEN "ready" ELSE "absent"]
        BY <1>13, <3>1 DEF CopyLeave
      <4> QED
        BY <4>1, <4>2
    <3>2. CASE idx[c] = "violation"
      BY <1>13, <3>2 DEF CopyLeave
    <3> QED
      BY <3>1, <3>2
  <2>4. result' \in [Rules -> {"absent", "empty", "good", "bad"}]
    <3>1. CASE idx[c] = "script"
      BY <1>13, <3>1 DEF CopyLeave
    <3>2. CASE idx[c] = "violation"
      BY <1>13, <3>2 DEF CopyLeave
    <3> QED
      BY <3>1, <3>2
  <2> QED
    BY <1>13, <2>1, <2>2, <2>3, <2>4 DEF CopyLeave
<1>14. CASE InitSection
  BY <1>14 DEF InitSection
<1>15. CASE RuleEnter
  BY <1>15 DEF RuleEnter, Enter
<1>16. ASSUME NEW v \in Rules, CheckRule(v) PROVE AgentTypeOK'
  <2>1. left' \subseteq Scripts \cup Rules
    BY <1>16 DEF CheckRule
  <2>2. CASE result[v] = "absent"
    BY <1>16, <2>1, <2>2 DEF CheckRule
  <2>3. CASE result[v] # "absent"
    <3>1. PICK r \in {result[v], "empty", "good", "bad"} :
             result' = [result EXCEPT ![v] = r] /\ wrong' = (wrong \/ r = "bad")
      BY <1>16, <2>3 DEF CheckRule
    <3>2. r \in {"absent", "empty", "good", "bad"}
      OBVIOUS
    <3> QED
      BY <1>16, <2>1, <3>1, <3>2 DEF CheckRule
  <2> QED
    BY <2>2, <2>3
<1>17. ASSUME NEW s \in Scripts, PassOver(s) PROVE AgentTypeOK'
  BY <1>17 DEF PassOver, ToRun
<1>18. ASSUME NEW s \in Scripts, Reach(s) PROVE AgentTypeOK'
  BY <1>18 DEF Reach, Carry, ToRun
<1>19. CASE RunEnds
  BY <1>19 DEF RunEnds, Outcome
<1>20. CASE RuleLeave
  BY <1>20 DEF RuleLeave, Leave
<1>21. CASE Accept
  BY <1>21 DEF Accept, Carry
<1>22. CASE Refuse
  BY <1>22 DEF Refuse, Carry, Outcome
<1>23. CASE Exit
  BY <1>23 DEF Exit
<1>24. CASE UNCHANGED vars
  BY <1>24 DEF vars
<1> HIDE DEF AgentTypeOK, Lists, Clients, Requests, Posted
<1> QED
  BY <1>1, <1>2, <1>3, <1>4, <1>5, <1>6, <1>7, <1>8, <1>9, <1>10, <1>11, <1>12, <1>13,
     <1>14, <1>15, <1>16, <1>17, <1>18, <1>19, <1>20, <1>21, <1>22, <1>23, <1>24 DEF Next,
     Handle, RuleStep

\* Entering and leaving keep the critical section's books, and Init makes them right.
LEMMA SectionStep ==
    ASSUME AgentTypeOK, SectionInv, [Next]_vars
    PROVE  SectionInv'
<1> USE DEF AgentTypeOK, SectionInv, Undisturbed, InPass, Inside,
           clientVars, handlerVars, listVars, copyVars, ruleVars, runVars, logVars
<1>1. ASSUME NEW l \in Clients, Send(l) PROVE SectionInv'
  BY <1>1 DEF Send
<1>2. ASSUME NEW l \in Clients, GiveUp(l) PROVE SectionInv'
  BY <1>2 DEF GiveUp
<1>3. CASE PolicyUpdate
  BY <1>3 DEF PolicyUpdate
<1>4. ASSUME NEW h \in Handlers, HandleIP(h) PROVE SectionInv'
  BY <1>4 DEF HandleIP
<1>5. ASSUME NEW h \in Handlers, ClearList(h) PROVE SectionInv'
  BY <1>5 DEF ClearList
<1>6. ASSUME NEW h \in Handlers, RefillList(h) PROVE SectionInv'
  BY <1>6 DEF RefillList, StartCopy
<1>7. ASSUME NEW h \in Handlers, GetViolation(h) PROVE SectionInv'
  BY <1>7 DEF GetViolation, Leave
<1>8. ASSUME NEW h \in Handlers, GetAgentScript(h) PROVE SectionInv'
  BY <1>8 DEF GetAgentScript
<1>9. ASSUME NEW h \in Handlers, MarkNotified(h) PROVE SectionInv'
  BY <1>9 DEF MarkNotified
<1>10. ASSUME NEW h \in Handlers, Answer(h) PROVE SectionInv'
  BY <1>10 DEF Answer
<1>11. ASSUME NEW h \in Handlers, AnswerInVain(h) PROVE SectionInv'
  BY <1>11 DEF AnswerInVain
<1>12. ASSUME NEW c \in Copiers, CopyEnter(c) PROVE SectionInv'
  BY <1>12 DEF CopyEnter, Enter
<1>13. ASSUME NEW c \in Copiers, CopyLeave(c) PROVE SectionInv'
  BY <1>13 DEF CopyLeave, Leave
<1>14. CASE InitSection
  BY <1>14 DEF InitSection
<1>15. CASE RuleEnter
  BY <1>15 DEF RuleEnter, Enter
<1>16. ASSUME NEW v \in Rules, CheckRule(v) PROVE SectionInv'
  BY <1>16 DEF CheckRule
<1>17. ASSUME NEW s \in Scripts, PassOver(s) PROVE SectionInv'
  BY <1>17 DEF PassOver
<1>18. ASSUME NEW s \in Scripts, Reach(s) PROVE SectionInv'
  BY <1>18 DEF Reach, Carry
<1>19. CASE RunEnds
  BY <1>19 DEF RunEnds
<1>20. CASE RuleLeave
  BY <1>20 DEF RuleLeave, Leave
<1>21. CASE Accept
  BY <1>21 DEF Accept, Carry
<1>22. CASE Refuse
  BY <1>22 DEF Refuse, Carry
<1>23. CASE Exit
  BY <1>23 DEF Exit
<1>24. CASE UNCHANGED vars
  BY <1>24 DEF vars
<1> HIDE DEF AgentTypeOK, SectionInv, Undisturbed, InPass, Inside
<1> QED
  BY <1>1, <1>2, <1>3, <1>4, <1>5, <1>6, <1>7, <1>8, <1>9, <1>10, <1>11, <1>12, <1>13,
     <1>14, <1>15, <1>16, <1>17, <1>18, <1>19, <1>20, <1>21, <1>22, <1>23, <1>24 DEF Next,
     Handle, RuleStep

\* Every upload starts one copy, every copy makes a script ready once, and what is ready is run
\* at most once.
LEMMA RunStep ==
    ASSUME AgentTypeOK, RunInv, [Next]_vars
    PROVE  RunInv'
<1> USE DEF AgentTypeOK, RunInv, Waiting,
           clientVars, handlerVars, listVars, copyVars, ruleVars, runVars, logVars
<1>fin. IsFiniteSet(Pending) /\ Cardinality(Pending) \in Nat
  BY SetsAssumption, FS_Subset, FS_CardinalityType DEF Pending
<1>same. UNCHANGED <<cp, idx>> => Pending' = Pending
  BY DEF Pending
<1>1. ASSUME NEW l \in Clients, Send(l) PROVE RunInv'
  BY <1>1, <1>same, <1>fin DEF Send
<1>2. ASSUME NEW l \in Clients, GiveUp(l) PROVE RunInv'
  BY <1>2, <1>same, <1>fin DEF GiveUp
<1>3. CASE PolicyUpdate
  BY <1>3, <1>same, <1>fin DEF PolicyUpdate
<1>4. ASSUME NEW h \in Handlers, HandleIP(h) PROVE RunInv'
  BY <1>4, <1>same, <1>fin DEF HandleIP
<1>5. ASSUME NEW h \in Handlers, ClearList(h) PROVE RunInv'
  BY <1>5, <1>same, <1>fin DEF ClearList
<1>6. ASSUME NEW h \in Handlers, RefillList(h) PROVE RunInv'
  <2>1. PICK c \in Copiers :
           cp[c] = "none" /\ cp' = [cp EXCEPT ![c] = "wait"] /\ idx' = [idx EXCEPT ![c] = req[h]]
    BY <1>6 DEF RefillList, StartCopy
  <2>2. req[h] \in Lists
    BY <1>6 DEF RefillList
  <2>3. CASE req[h] = "script"
    <3>1. Pending' = Pending \cup {c} /\ c \notin Pending
      BY <2>1, <2>3 DEF Pending
    <3>2. Cardinality(Pending') = Cardinality(Pending) + 1
      BY <3>1, <1>fin, FS_AddElement
    <3> QED
      BY <1>6, <1>fin, <2>3, <3>2 DEF RefillList
  <2>4. CASE req[h] = "violation"
    <3>1. Pending' = Pending
      BY <2>1, <2>4 DEF Pending
    <3> QED
      BY <1>6, <1>fin, <2>4, <3>1 DEF RefillList
  <2> QED
    BY <2>2, <2>3, <2>4 DEF Lists
<1>7. ASSUME NEW h \in Handlers, GetViolation(h) PROVE RunInv'
  BY <1>7, <1>same, <1>fin DEF GetViolation
<1>8. ASSUME NEW h \in Handlers, GetAgentScript(h) PROVE RunInv'
  BY <1>8, <1>same, <1>fin DEF GetAgentScript
<1>9. ASSUME NEW h \in Handlers, MarkNotified(h) PROVE RunInv'
  BY <1>9, <1>same, <1>fin DEF MarkNotified
<1>10. ASSUME NEW h \in Handlers, Answer(h) PROVE RunInv'
  BY <1>10, <1>same, <1>fin DEF Answer
<1>11. ASSUME NEW h \in Handlers, AnswerInVain(h) PROVE RunInv'
  BY <1>11, <1>same, <1>fin DEF AnswerInVain
<1>12. ASSUME NEW c \in Copiers, CopyEnter(c) PROVE RunInv'
  <2>1. Pending' \subseteq Pending
    BY <1>12 DEF CopyEnter, Pending
  <2>2. Cardinality(Pending') <= Cardinality(Pending) /\ Cardinality(Pending') \in Nat
    BY <2>1, <1>fin, FS_Subset, FS_CardinalityType
  <2>3. UNCHANGED <<uploads, ran, rule, cur>>
    BY <1>12 DEF CopyEnter
  <2>4. UNCHANGED status \/ status' = [s \in Scripts |-> "absent"]
    BY <1>12 DEF CopyEnter
  <2>5. ASSUME NEW s \in Scripts
        PROVE  ran'[s] + Cardinality(Pending') + Waiting(s)' <= uploads'["script"]
    <3>1. Waiting(s)' <= Waiting(s) /\ Waiting(s) \in Nat /\ Waiting(s)' \in Nat
      BY <2>3, <2>4
    <3>2. ran[s] + Cardinality(Pending) + Waiting(s) <= uploads["script"]
      BY DEF RunInv
    <3>3. ran[s] \in Nat /\ uploads["script"] \in Nat
      BY DEF Lists
    <3> HIDE DEF AgentTypeOK, RunInv, Waiting
    <3> QED
      BY <1>fin, <2>2, <2>3, <3>1, <3>2, <3>3
  <2> QED
    BY <2>5 DEF RunInv
<1>13. ASSUME NEW c \in Copiers, CopyLeave(c) PROVE RunInv'
  <2>1. UNCHANGED <<uploads, ran, rule, cur>>
    BY <1>13 DEF CopyLeave
  <2>2. CASE idx[c] = "script"
    <3>1. Pending' = Pending \ {c} /\ c \in Pending
      BY <1>13, <2>2 DEF CopyLeave, Pending
    <3>2. Cardinality(Pending') = Cardinality(Pending) - 1
      BY <3>1, <1>fin, FS_RemoveElement
    <3>3. ASSUME NEW s \in Scripts
          PROVE  ran'[s] + Cardinality(Pending') + Waiting(s)' <= uploads'["script"]
      <4>1. Waiting(s) \in Nat /\ Waiting(s)' \in 0 .. 1
        OBVIOUS
      <4>2. ran[s] + Cardinality(Pending) + Waiting(s) <= uploads["script"]
        BY DEF RunInv
      <4>3. ran[s] \in Nat /\ uploads["script"] \in Nat
        BY DEF Lists
      <4> HIDE DEF AgentTypeOK, RunInv, Waiting
      <4> QED
        BY <1>fin, <2>1, <3>2, <4>1, <4>2, <4>3
    <3> QED
      BY <3>3 DEF RunInv
  <2>3. CASE idx[c] = "violation"
    <3>1. Pending' = Pending
      BY <1>13, <2>3 DEF CopyLeave, Pending
    <3>2. UNCHANGED status
      BY <1>13, <2>3 DEF CopyLeave
    <3> QED
      BY <1>fin, <2>1, <3>1, <3>2
  <2> QED
    BY <2>2, <2>3 DEF Lists
<1>14. CASE InitSection
  BY <1>14, <1>same, <1>fin DEF InitSection
<1>15. CASE RuleEnter
  BY <1>15, <1>same, <1>fin DEF RuleEnter
<1>16. ASSUME NEW v \in Rules, CheckRule(v) PROVE RunInv'
  BY <1>16, <1>same, <1>fin DEF CheckRule
<1>17. ASSUME NEW s \in Scripts, PassOver(s) PROVE RunInv'
  BY <1>17, <1>same, <1>fin DEF PassOver, ToRun
<1>18. ASSUME NEW s \in Scripts, Reach(s) PROVE RunInv'
  BY <1>18, <1>same, <1>fin DEF Reach, Carry, ToRun
<1>19. CASE RunEnds
  BY <1>19, <1>same, <1>fin DEF RunEnds
<1>20. CASE RuleLeave
  BY <1>20, <1>same, <1>fin DEF RuleLeave
<1>carried. ASSUME rule = "alert", rule' # "alert", UNCHANGED <<uploads, cp, idx>>,
                   NEW st \in {"run", "refused"}, Carry(cur, st)
            PROVE  RunInv'
  <2>1. cur \in Scripts /\ Pending' = Pending
    BY <1>carried, <1>same
  <2>2. ASSUME NEW s \in Scripts
        PROVE  ran'[s] + Cardinality(Pending') + Waiting(s)' <= uploads'["script"]
    <3>1. ran[s] + Cardinality(Pending) + Waiting(s) <= uploads["script"]
      BY DEF RunInv
    <3>2. ran[s] \in Nat /\ uploads["script"] \in Nat /\ uploads' = uploads
      BY <1>carried DEF Lists
    <3>3. CASE s = cur
      <4>1. Waiting(s) = 1 /\ Waiting(s)' = 0 /\ ran'[s] = ran[s] + 1
        BY <1>carried, <3>3 DEF Carry
      <4> HIDE DEF AgentTypeOK, RunInv, Waiting
      <4> QED
        BY <1>fin, <2>1, <3>1, <3>2, <4>1
    <3>4. CASE s # cur
      <4>1. Waiting(s) \in Nat /\ Waiting(s)' = Waiting(s) /\ ran'[s] = ran[s]
        BY <1>carried, <3>4 DEF Carry
      <4> HIDE DEF AgentTypeOK, RunInv, Waiting
      <4> QED
        BY <1>fin, <2>1, <3>1, <3>2, <4>1
    <3> QED
      BY <3>3, <3>4
  <2> QED
    BY <2>2 DEF RunInv
<1>21. CASE Accept
  BY <1>21, <1>carried DEF Accept
<1>22. CASE Refuse
  BY <1>22, <1>carried DEF Refuse
<1>23. CASE Exit
  <2>1. Pending' = {}
    BY <1>23 DEF Exit, Pending
  <2>2. Cardinality(Pending') = 0
    BY <2>1, FS_EmptySet
  <2>3. ASSUME NEW s \in Scripts
        PROVE  ran'[s] + Cardinality(Pending') + Waiting(s)' <= uploads'["script"]
    <3>1. Waiting(s) \in Nat /\ Waiting(s)' = 0
      BY <1>23 DEF Exit
    <3>2. ran[s] + Cardinality(Pending) + Waiting(s) <= uploads["script"]
      BY DEF RunInv
    <3>3. ran[s] \in Nat /\ uploads["script"] \in Nat /\ UNCHANGED <<ran, uploads>>
      BY <1>23 DEF Lists, Exit
    <3> HIDE DEF AgentTypeOK, RunInv, Waiting
    <3> QED
      BY <1>fin, <2>2, <3>1, <3>2, <3>3
  <2> QED
    BY <2>3 DEF RunInv
<1>24. CASE UNCHANGED vars
  BY <1>24, <1>same, <1>fin DEF vars
<1> HIDE DEF AgentTypeOK, RunInv, Waiting
<1> QED
  BY <1>1, <1>2, <1>3, <1>4, <1>5, <1>6, <1>7, <1>8, <1>9, <1>10, <1>11, <1>12, <1>13,
     <1>14, <1>15, <1>16, <1>17, <1>18, <1>19, <1>20, <1>21, <1>22, <1>23, <1>24 DEF Next,
     Handle, RuleStep

\* Every run leaves one outcome, and a poll that is waited for moves it into its answer.
LEMMA ReportStep ==
    ASSUME AgentTypeOK, ReportInv, [Next]_vars
    PROVE  ReportInv'
<1> USE DEF AgentTypeOK, ReportInv, Answering, Unmarked, Carrying, Polled,
           clientVars, handlerVars, listVars, copyVars, ruleVars, runVars, logVars
<1>1. ASSUME NEW l \in Clients, Send(l) PROVE ReportInv'
  <2>1. UNCHANGED <<at, received, ran, rule, cur, notified, taken>>
    BY <1>1 DEF Send
  <2>2. ASSUME NEW s \in Scripts, NEW st \in {"mark", "answer"}, Polled(s, st)'
        PROVE  Polled(s, st)
    <3>1. PICK g \in Handlers : /\ at["env"] = "idle" /\ sent'["env"] = g
                                /\ step'[g] = st /\ s \in taken[g]
      BY <2>1, <2>2
    <3>2. step[g] = st
      BY <1>1, <3>1 DEF Send
    <3>3. sent["env"] = g
      BY <1>1, <3>1, <3>2, SetsAssumption DEF Send, Clients
    <3> QED
      BY <3>1, <3>2, <3>3
  <2>3. \A g \in Handlers : step'[g] \notin {"mark", "answer"} => taken'[g] = {}
    BY <1>1 DEF Send
  <2> QED
    BY <2>1, <2>2, <2>3
<1>2. ASSUME NEW l \in Clients, GiveUp(l) PROVE ReportInv'
  <2>1. UNCHANGED <<received, ran, rule, cur, notified, taken, step>>
    BY <1>2 DEF GiveUp
  <2>2. at'["policy"] \notin {"idle", "version"}
    BY <1>2 DEF GiveUp, Fail, PostOver, Clients
  <2>3. l # "env" => at'["env"] = at["env"] /\ sent'["env"] = sent["env"]
    BY <1>2 DEF GiveUp, Fail, PostOver, Clients
  <2>4. l = "env" => sent'["env"] = None
    BY <1>2 DEF GiveUp
  <2>5. ASSUME NEW s \in Scripts, NEW st \in {"mark", "answer"}, Polled(s, st)'
        PROVE  Polled(s, st)
    BY <2>1, <2>3, <2>4, <2>5, SetsAssumption
  <2> QED
    BY <2>1, <2>2, <2>5
<1>3. CASE PolicyUpdate
  BY <1>3 DEF PolicyUpdate
<1>4. ASSUME NEW h \in Handlers, HandleIP(h) PROVE ReportInv'
  BY <1>4 DEF HandleIP
<1>5. ASSUME NEW h \in Handlers, ClearList(h) PROVE ReportInv'
  BY <1>5 DEF ClearList
<1>6. ASSUME NEW h \in Handlers, RefillList(h) PROVE ReportInv'
  BY <1>6 DEF RefillList
<1>7. ASSUME NEW h \in Handlers, GetViolation(h) PROVE ReportInv'
  BY <1>7 DEF GetViolation
<1>8. ASSUME NEW h \in Handlers, GetAgentScript(h) PROVE ReportInv'
  BY <1>8 DEF GetAgentScript, Unreported
<1>9. ASSUME NEW h \in Handlers, MarkNotified(h) PROVE ReportInv'
  <2>1. UNCHANGED <<at, sent, received, ran, rule, cur, taken>> /\ step' = [step EXCEPT ![h] = "answer"]
    BY <1>9 DEF MarkNotified
  <2>2. notified' = [s \in Scripts |-> notified[s] \/ s \in taken[h]]
    BY <1>9 DEF MarkNotified, Marked
  <2>3. ASSUME NEW s \in Scripts
        PROVE  received[s] + Answering(s)' + Unmarked(s)' + Carrying(s)' <= ran[s]
    <3>1. CASE at["env"] = "idle" /\ sent["env"] = h /\ s \in taken[h]
      <4>1. Answering(s) = 0 /\ Unmarked(s) = 1 /\ Carrying(s) \in 0 .. 1
        BY <1>9, <3>1 DEF MarkNotified
      <4>2. Unmarked(s)' = 0 /\ Answering(s)' \in 0 .. 1 /\ Carrying(s)' = Carrying(s)
        <5>1. notified'[s]
          BY <2>2, <3>1
        <5>2. ~Polled(s, "mark")'
          BY <2>1, <3>1, SetsAssumption
        <5> QED
          BY <2>1, <5>1, <5>2
      <4>3. received[s] + Answering(s) + Unmarked(s) + Carrying(s) <= ran[s]
        BY DEF ReportInv
      <4>4. received[s] \in Nat /\ ran[s] \in Nat
        OBVIOUS
      <4> HIDE DEF AgentTypeOK, ReportInv, Answering, Unmarked, Carrying
      <4> QED
        BY <4>1, <4>2, <4>3, <4>4
    <3>2. CASE ~(at["env"] = "idle" /\ sent["env"] = h /\ s \in taken[h])
      BY <1>9, <2>1, <2>2, <3>2 DEF MarkNotified
    <3> QED
      BY <3>1, <3>2
  <2>4. \A g \in Handlers : step'[g] \notin {"mark", "answer"} => taken'[g] = {}
    BY <2>1
  <2> QED
    BY <2>1, <2>3, <2>4
<1>10. ASSUME NEW h \in Handlers, Answer(h) PROVE ReportInv'
  <2>1. PICK l \in Clients : /\ sent[l] = h /\ sent' = [sent EXCEPT ![l] = None] /\ Succeed(l)
                             /\ at[l] # "idle" => UNCHANGED received
    BY <1>10 DEF Answer, WaitsFor
  <2>2. step[h] = "answer" /\ UNCHANGED <<ran, rule, cur, notified>>
    BY <1>10 DEF Answer
  <2>3. step' = [step EXCEPT ![h] = "none"] /\ taken' = [taken EXCEPT ![h] = {}]
    BY <1>10 DEF Answer, Done
  <2>4. at'["policy"] \notin {"idle", "version"}
    BY <2>1 DEF Succeed, PostOver, After, Clients, Posted
  <2>5. \A g \in Handlers : step'[g] \notin {"mark", "answer"} => taken'[g] = {}
    BY <2>3
  <2>6. CASE l = "policy"
    <3>1. UNCHANGED received /\ at'["env"] = at["env"] /\ sent'["env"] = sent["env"]
      BY <2>1, <2>6 DEF Succeed, PostOver, After, Clients, Posted
    <3>2. ASSUME NEW s \in Scripts, NEW st \in {"mark", "answer"}, Polled(s, st)'
          PROVE  Polled(s, st)
      BY <2>3, <3>1, <3>2
    <3> QED
      BY <2>2, <2>4, <2>5, <3>1, <3>2
  <2>7. CASE l = "env"
    <3>1. sent'["env"] = None
      BY <2>1, <2>7
    <3>2. ASSUME NEW s \in Scripts, NEW st \in {"mark", "answer"} PROVE ~Polled(s, st)'
      BY <3>1, SetsAssumption
    <3>3. ASSUME NEW s \in Scripts PROVE received'[s] <= received[s] + Answering(s)
      <4>1. CASE at["env"] = "idle"
        <5>1. received'[s] = received[s] \/ received'[s] = received[s] + (IF s \in taken[h] THEN 1 ELSE 0)
          BY <1>10, <2>1, <2>7, <4>1 DEF Answer
        <5> QED
          BY <2>1, <2>2, <2>7, <4>1, <5>1
      <4>2. CASE at["env"] # "idle"
        BY <2>1, <2>7, <4>2
      <4> QED
        BY <4>1, <4>2
    <3>4. ASSUME NEW s \in Scripts
          PROVE  received'[s] + Answering(s)' + Unmarked(s)' + Carrying(s)' <= ran'[s]
      <4>1. Answering(s)' = 0 /\ Carrying(s)' = Carrying(s) /\ ran'[s] = ran[s]
        BY <2>2, <3>2
      <4>2. Unmarked(s)' <= Unmarked(s) /\ Unmarked(s) \in Nat /\ Unmarked(s)' \in Nat
        BY <2>2, <3>2
      <4>3. received[s] + Answering(s) + Unmarked(s) + Carrying(s) <= ran[s]
        BY DEF ReportInv
      <4>4. received[s] \in Nat /\ ran[s] \in Nat /\ Answering(s) \in Nat /\ Carrying(s) \in Nat
        OBVIOUS
      <4>5. received'[s] \in Nat
        BY <1>10, <2>1, <2>7 DEF Answer
      <4> HIDE DEF AgentTypeOK, ReportInv, Answering, Unmarked, Carrying
      <4> QED
        BY <3>3, <4>1, <4>2, <4>3, <4>4, <4>5
    <3> QED
      BY <2>4, <2>5, <3>4
  <2> QED
    BY <2>6, <2>7 DEF Clients
<1>11. ASSUME NEW h \in Handlers, AnswerInVain(h) PROVE ReportInv'
  BY <1>11 DEF AnswerInVain, Done
<1>12. ASSUME NEW c \in Copiers, CopyEnter(c) PROVE ReportInv'
  BY <1>12 DEF CopyEnter
<1>13. ASSUME NEW c \in Copiers, CopyLeave(c) PROVE ReportInv'
  BY <1>13 DEF CopyLeave
<1>14. CASE InitSection
  BY <1>14 DEF InitSection
<1>15. CASE RuleEnter
  BY <1>15 DEF RuleEnter
<1>16. ASSUME NEW v \in Rules, CheckRule(v) PROVE ReportInv'
  BY <1>16 DEF CheckRule
<1>17. ASSUME NEW s \in Scripts, PassOver(s) PROVE ReportInv'
  BY <1>17 DEF PassOver, ToRun
<1>18. ASSUME NEW s \in Scripts, Reach(s) PROVE ReportInv'
  BY <1>18 DEF Reach, Carry, ToRun
<1>19. CASE RunEnds
  BY <1>19 DEF RunEnds, Outcome
<1>20. CASE RuleLeave
  BY <1>20 DEF RuleLeave
<1>21. CASE Accept
  BY <1>21 DEF Accept, Carry
<1>22. CASE Refuse
  BY <1>22 DEF Refuse, Carry, Outcome
<1>23. CASE Exit
  BY <1>23 DEF Exit
<1>24. CASE UNCHANGED vars
  BY <1>24 DEF vars
<1> HIDE DEF AgentTypeOK, ReportInv, Answering, Unmarked, Carrying, Polled
<1> QED
  BY <1>1, <1>2, <1>3, <1>4, <1>5, <1>6, <1>7, <1>8, <1>9, <1>10, <1>11, <1>12, <1>13,
     <1>14, <1>15, <1>16, <1>17, <1>18, <1>19, <1>20, <1>21, <1>22, <1>23, <1>24 DEF Next,
     Handle, RuleStep

\* A list that changes has a handler or a copy thread at it.
LEMMA InForceStep ==
    ASSUME AgentTypeOK, InForceOrComing, [Next]_vars
    PROVE  InForceOrComing'
<1> USE DEF AgentTypeOK, InForceOrComing,
           clientVars, handlerVars, listVars, copyVars, ruleVars, runVars, logVars
<1>1. ASSUME NEW l \in Clients, Send(l) PROVE InForceOrComing'
  BY <1>1 DEF Send
<1>2. ASSUME NEW l \in Clients, GiveUp(l) PROVE InForceOrComing'
  BY <1>2 DEF GiveUp
<1>3. CASE PolicyUpdate
  BY <1>3 DEF PolicyUpdate
<1>4. ASSUME NEW h \in Handlers, HandleIP(h) PROVE InForceOrComing'
  BY <1>4 DEF HandleIP
<1>5. ASSUME NEW h \in Handlers, ClearList(h) PROVE InForceOrComing'
  BY <1>5 DEF ClearList
<1>6. ASSUME NEW h \in Handlers, RefillList(h) PROVE InForceOrComing'
  BY <1>6 DEF RefillList, StartCopy
<1>7. ASSUME NEW h \in Handlers, GetViolation(h) PROVE InForceOrComing'
  BY <1>7 DEF GetViolation
<1>8. ASSUME NEW h \in Handlers, GetAgentScript(h) PROVE InForceOrComing'
  BY <1>8 DEF GetAgentScript
<1>9. ASSUME NEW h \in Handlers, MarkNotified(h) PROVE InForceOrComing'
  BY <1>9 DEF MarkNotified
<1>10. ASSUME NEW h \in Handlers, Answer(h) PROVE InForceOrComing'
  BY <1>10 DEF Answer, Done
<1>11. ASSUME NEW h \in Handlers, AnswerInVain(h) PROVE InForceOrComing'
  BY <1>11 DEF AnswerInVain, Done
<1>12. ASSUME NEW c \in Copiers, CopyEnter(c) PROVE InForceOrComing'
  BY <1>12 DEF CopyEnter
<1>13. ASSUME NEW c \in Copiers, CopyLeave(c) PROVE InForceOrComing'
  BY <1>13 DEF CopyLeave
<1>14. CASE InitSection
  BY <1>14 DEF InitSection
<1>15. CASE RuleEnter
  BY <1>15 DEF RuleEnter
<1>16. ASSUME NEW v \in Rules, CheckRule(v) PROVE InForceOrComing'
  BY <1>16 DEF CheckRule
<1>17. ASSUME NEW s \in Scripts, PassOver(s) PROVE InForceOrComing'
  BY <1>17 DEF PassOver
<1>18. ASSUME NEW s \in Scripts, Reach(s) PROVE InForceOrComing'
  BY <1>18 DEF Reach
<1>19. CASE RunEnds
  BY <1>19 DEF RunEnds
<1>20. CASE RuleLeave
  BY <1>20 DEF RuleLeave
<1>21. CASE Accept
  BY <1>21 DEF Accept
<1>22. CASE Refuse
  BY <1>22 DEF Refuse
<1>23. CASE Exit
  BY <1>23 DEF Exit
<1>24. CASE UNCHANGED vars
  BY <1>24 DEF vars
<1> HIDE DEF AgentTypeOK, InForceOrComing
<1> QED
  BY <1>1, <1>2, <1>3, <1>4, <1>5, <1>6, <1>7, <1>8, <1>9, <1>10, <1>11, <1>12, <1>13,
     <1>14, <1>15, <1>16, <1>17, <1>18, <1>19, <1>20, <1>21, <1>22, <1>23, <1>24 DEF Next,
     Handle, RuleStep

\* A violation with a text comes out of a check.
LEMMA AccuseStep ==
    ASSUME AgentTypeOK, AccuseInv, [Next]_vars
    PROVE  AccuseInv'
<1> USE DEF AgentTypeOK, AccuseInv,
           clientVars, handlerVars, listVars, copyVars, ruleVars, runVars, logVars
<1>1. ASSUME NEW l \in Clients, Send(l) PROVE AccuseInv'
  BY <1>1 DEF Send
<1>2. ASSUME NEW l \in Clients, GiveUp(l) PROVE AccuseInv'
  BY <1>2 DEF GiveUp
<1>3. CASE PolicyUpdate
  BY <1>3 DEF PolicyUpdate
<1>4. ASSUME NEW h \in Handlers, HandleIP(h) PROVE AccuseInv'
  BY <1>4 DEF HandleIP
<1>5. ASSUME NEW h \in Handlers, ClearList(h) PROVE AccuseInv'
  BY <1>5 DEF ClearList
<1>6. ASSUME NEW h \in Handlers, RefillList(h) PROVE AccuseInv'
  BY <1>6 DEF RefillList
<1>7. ASSUME NEW h \in Handlers, GetViolation(h) PROVE AccuseInv'
  BY <1>7 DEF GetViolation, ToShow
<1>8. ASSUME NEW h \in Handlers, GetAgentScript(h) PROVE AccuseInv'
  BY <1>8 DEF GetAgentScript
<1>9. ASSUME NEW h \in Handlers, MarkNotified(h) PROVE AccuseInv'
  BY <1>9 DEF MarkNotified
<1>10. ASSUME NEW h \in Handlers, Answer(h) PROVE AccuseInv'
  BY <1>10 DEF Answer, WaitsFor, Done
<1>11. ASSUME NEW h \in Handlers, AnswerInVain(h) PROVE AccuseInv'
  BY <1>11 DEF AnswerInVain, Done
<1>12. ASSUME NEW c \in Copiers, CopyEnter(c) PROVE AccuseInv'
  BY <1>12 DEF CopyEnter
<1>13. ASSUME NEW c \in Copiers, CopyLeave(c) PROVE AccuseInv'
  BY <1>13 DEF CopyLeave
<1>14. CASE InitSection
  BY <1>14 DEF InitSection
<1>15. CASE RuleEnter
  BY <1>15 DEF RuleEnter
<1>16. ASSUME NEW v \in Rules, CheckRule(v) PROVE AccuseInv'
  <2>1. UNCHANGED <<accused, accuses>>
    BY <1>16 DEF CheckRule
  <2>2. CASE UNCHANGED <<result, wrong>>
    BY <2>1, <2>2
  <2>3. CASE \E r : result' = [result EXCEPT ![v] = r] /\ wrong' = (wrong \/ r = "bad")
    <3>1. PICK r : result' = [result EXCEPT ![v] = r] /\ wrong' = (wrong \/ r = "bad")
      BY <2>3
    <3>2. CASE wrong \/ r = "bad"
      BY <3>1, <3>2
    <3>3. CASE ~wrong /\ r # "bad"
      <4>1. \A w \in Rules : result'[w] # "bad"
        BY <3>1, <3>3
      <4> QED
        BY <2>1, <3>3, <4>1
    <3> QED
      BY <3>2, <3>3
  <2> QED
    BY <1>16, <2>2, <2>3 DEF CheckRule
<1>17. ASSUME NEW s \in Scripts, PassOver(s) PROVE AccuseInv'
  BY <1>17 DEF PassOver
<1>18. ASSUME NEW s \in Scripts, Reach(s) PROVE AccuseInv'
  BY <1>18 DEF Reach
<1>19. CASE RunEnds
  BY <1>19 DEF RunEnds
<1>20. CASE RuleLeave
  BY <1>20 DEF RuleLeave
<1>21. CASE Accept
  BY <1>21 DEF Accept
<1>22. CASE Refuse
  BY <1>22 DEF Refuse
<1>23. CASE Exit
  BY <1>23 DEF Exit
<1>24. CASE UNCHANGED vars
  BY <1>24 DEF vars
<1> HIDE DEF AgentTypeOK, AccuseInv
<1> QED
  BY <1>1, <1>2, <1>3, <1>4, <1>5, <1>6, <1>7, <1>8, <1>9, <1>10, <1>11, <1>12, <1>13,
     <1>14, <1>15, <1>16, <1>17, <1>18, <1>19, <1>20, <1>21, <1>22, <1>23, <1>24 DEF Next,
     Handle, RuleStep

\* The script the rule thread is at stays what it was until a poll strays.
LEMMA AtScriptStep ==
    ASSUME AgentTypeOK, SectionInv, AtScript, [Next]_vars
    PROVE  AtScript'
<1> USE DEF AgentTypeOK, SectionInv, AtScript, OwnOutcomes, Undisturbed, InPass, Inside,
           clientVars, handlerVars, listVars, copyVars, ruleVars, runVars, logVars
<1>1. ASSUME NEW l \in Clients, Send(l) PROVE AtScript'
  BY <1>1 DEF Send
<1>2. ASSUME NEW l \in Clients, GiveUp(l) PROVE AtScript'
  BY <1>2 DEF GiveUp
<1>3. CASE PolicyUpdate
  BY <1>3 DEF PolicyUpdate
<1>4. ASSUME NEW h \in Handlers, HandleIP(h) PROVE AtScript'
  BY <1>4 DEF HandleIP
<1>5. ASSUME NEW h \in Handlers, ClearList(h) PROVE AtScript'
  BY <1>5 DEF ClearList
<1>6. ASSUME NEW h \in Handlers, RefillList(h) PROVE AtScript'
  BY <1>6 DEF RefillList
<1>7. ASSUME NEW h \in Handlers, GetViolation(h) PROVE AtScript'
  BY <1>7 DEF GetViolation, Leave
<1>8. ASSUME NEW h \in Handlers, GetAgentScript(h) PROVE AtScript'
  BY <1>8 DEF GetAgentScript
<1>9. ASSUME NEW h \in Handlers, MarkNotified(h) PROVE AtScript'
  BY <1>9 DEF MarkNotified, Marked
<1>10. ASSUME NEW h \in Handlers, Answer(h) PROVE AtScript'
  BY <1>10 DEF Answer
<1>11. ASSUME NEW h \in Handlers, AnswerInVain(h) PROVE AtScript'
  BY <1>11 DEF AnswerInVain
<1>12. ASSUME NEW c \in Copiers, CopyEnter(c) PROVE AtScript'
  BY <1>12 DEF CopyEnter, Enter
<1>13. ASSUME NEW c \in Copiers, CopyLeave(c) PROVE AtScript'
  BY <1>13 DEF CopyLeave, Leave
<1>14. CASE InitSection
  BY <1>14 DEF InitSection
<1>15. CASE RuleEnter
  BY <1>15 DEF RuleEnter, Enter
<1>16. ASSUME NEW v \in Rules, CheckRule(v) PROVE AtScript'
  BY <1>16 DEF CheckRule
<1>17. ASSUME NEW s \in Scripts, PassOver(s) PROVE AtScript'
  BY <1>17 DEF PassOver, ToRun
<1>18. ASSUME NEW s \in Scripts, Reach(s) PROVE AtScript'
  BY <1>18 DEF Reach, Carry, ToRun
<1>19. CASE RunEnds
  BY <1>19 DEF RunEnds, Outcome
<1>20. CASE RuleLeave
  BY <1>20 DEF RuleLeave, Leave
<1>21. CASE Accept
  BY <1>21 DEF Accept, Carry
<1>22. CASE Refuse
  BY <1>22 DEF Refuse, Carry, Outcome
<1>23. CASE Exit
  BY <1>23 DEF Exit
<1>24. CASE UNCHANGED vars
  BY <1>24 DEF vars
<1> HIDE DEF AgentTypeOK, SectionInv, AtScript, OwnOutcomes, Undisturbed, InPass, Inside
<1> QED
  BY <1>1, <1>2, <1>3, <1>4, <1>5, <1>6, <1>7, <1>8, <1>9, <1>10, <1>11, <1>12, <1>13,
     <1>14, <1>15, <1>16, <1>17, <1>18, <1>19, <1>20, <1>21, <1>22, <1>23, <1>24 DEF Next,
     Handle, RuleStep

\* Every step is one of ScriptService, or changes nothing there.
LEMMA ServiceStep ==
    ASSUME AgentTypeOK, SectionInv, AtScript, [Next]_vars
    PROVE  [Service!Next]_Placed
<1> USE DEF clientVars, handlerVars, listVars, copyVars, ruleVars, runVars, logVars
<1>same. UNCHANGED <<status, notified, rule, cur>> => UNCHANGED Placed
  BY DEF Placed, Place
<1>1. ASSUME NEW l \in Clients, Send(l) PROVE [Service!Next]_Placed
  BY <1>1, <1>same DEF Send
<1>2. ASSUME NEW l \in Clients, GiveUp(l) PROVE [Service!Next]_Placed
  BY <1>2, <1>same DEF GiveUp
<1>3. CASE PolicyUpdate
  BY <1>3, <1>same DEF PolicyUpdate
<1>4. ASSUME NEW h \in Handlers, HandleIP(h) PROVE [Service!Next]_Placed
  <2>1. \A s \in Scripts : Place(s)' = Place(s)
    BY <1>4 DEF HandleIP, Place
  <2> QED
    BY <2>1 DEF Placed
<1>5. ASSUME NEW h \in Handlers, ClearList(h) PROVE [Service!Next]_Placed
  BY <1>5, <1>same DEF ClearList
<1>6. ASSUME NEW h \in Handlers, RefillList(h) PROVE [Service!Next]_Placed
  BY <1>6, <1>same DEF RefillList
<1>7. ASSUME NEW h \in Handlers, GetViolation(h) PROVE [Service!Next]_Placed
  BY <1>7, <1>same DEF GetViolation
<1>8. ASSUME NEW h \in Handlers, GetAgentScript(h) PROVE [Service!Next]_Placed
  BY <1>8, <1>same DEF GetAgentScript
<1>9. ASSUME NEW h \in Handlers, MarkNotified(h) PROVE [Service!Next]_Placed
  <2>1. notified' = [s \in Scripts |-> notified[s] \/ s \in taken[h]]
    BY <1>9 DEF MarkNotified, Marked
  <2>2. UNCHANGED <<status, rule, cur>>
    BY <1>9 DEF MarkNotified
  <2> DEFINE S == {s \in Scripts : s \in taken[h] /\ Place(s) = "finished"}
  <2>3. \A s \in S : Placed[s] = "finished"
    BY DEF Placed
  <2>4. ASSUME NEW s \in Scripts PROVE Place(s)' = IF s \in S THEN "taken" ELSE Placed[s]
    <3>1. notified'[s] <=> (notified[s] \/ s \in taken[h])
      BY <2>1
    <3> QED
      BY <2>2, <3>1 DEF Place, Placed
  <2>5. Placed' = [s \in Scripts |-> IF s \in S THEN "taken" ELSE Placed[s]]
    BY <2>4 DEF Placed
  <2>6. S \in SUBSET Scripts
    OBVIOUS
  <2> HIDE DEF S
  <2> QED
    BY <2>3, <2>5, <2>6 DEF Service!Next, Service!TakeAny, Service!Take
<1>10. ASSUME NEW h \in Handlers, Answer(h) PROVE [Service!Next]_Placed
  BY <1>10, <1>same DEF Answer
<1>11. ASSUME NEW h \in Handlers, AnswerInVain(h) PROVE [Service!Next]_Placed
  BY <1>11, <1>same DEF AnswerInVain
<1>12. ASSUME NEW c \in Copiers, CopyEnter(c) PROVE [Service!Next]_Placed
  <2>1. UNCHANGED <<rule, cur>>
    BY <1>12 DEF CopyEnter
  <2>2. CASE UNCHANGED <<status, notified>>
    BY <2>1, <2>2, <1>same
  <2>3. CASE ~UNCHANGED <<status, notified>>
    <3>1. \A s \in Scripts : Place(s)' = "none"
      BY <1>12, <2>3 DEF CopyEnter, Place
    <3> QED
      BY <3>1 DEF Placed, Service!Next, Service!Replace
  <2> QED
    BY <2>2, <2>3
<1>13. ASSUME NEW c \in Copiers, CopyLeave(c) PROVE [Service!Next]_Placed
  <2>1. UNCHANGED <<rule, cur>>
    BY <1>13 DEF CopyLeave
  <2>2. CASE idx[c] = "violation"
    BY <1>13, <2>1, <2>2, <1>same DEF CopyLeave
  <2>3. CASE idx[c] = "script"
    <3>1. PICK S : status' = [s \in Scripts |-> IF s \in S THEN "ready" ELSE "absent"]
      BY <1>13, <2>3 DEF CopyLeave
    <3>2. \A s \in Scripts : Place(s)' \in {"none", "waiting"}
      BY <3>1 DEF Place
    <3> QED
      BY <3>2 DEF Placed, Service!Next, Service!Replace
  <2> QED
    BY <2>2, <2>3 DEF AgentTypeOK, Lists
<1>14. CASE InitSection
  <2>1. \A s \in Scripts : Place(s)' = Place(s)
    BY <1>14 DEF InitSection, Place
  <2> QED
    BY <2>1 DEF Placed
<1>15. CASE RuleEnter
  <2>1. \A s \in Scripts : Place(s)' = Place(s)
    BY <1>15 DEF RuleEnter, Place
  <2> QED
    BY <2>1 DEF Placed
<1>16. ASSUME NEW v \in Rules, CheckRule(v) PROVE [Service!Next]_Placed
  BY <1>16, <1>same DEF CheckRule
<1>17. ASSUME NEW s \in Scripts, PassOver(s) PROVE [Service!Next]_Placed
  BY <1>17, <1>same DEF PassOver
<1>18. ASSUME NEW s \in Scripts, Reach(s) PROVE [Service!Next]_Placed
  <2>1. ASSUME NEW t \in Scripts PROVE Place(t)' = Place(t)
    BY <1>18 DEF Reach, ToRun, Carry, Place, AgentTypeOK
  <2> QED
    BY <2>1 DEF Placed
<1>19. CASE RunEnds
  <2>1. cur \in Scripts /\ rule = "run" /\ rule' = "pass" /\ UNCHANGED status
    BY <1>19 DEF RunEnds, AgentTypeOK
  <2>2. \A t \in Scripts \ {cur} : Place(t)' = Place(t)
    BY <1>19, <2>1 DEF RunEnds, Outcome, Place, AgentTypeOK
  <2>3. CASE status[cur] = "run"
    <3>1. Place(cur) = "waiting"
      BY <2>1, <2>3 DEF Place
    <3>2. notified'[cur] = FALSE
      BY <1>19, <2>1, <2>3 DEF RunEnds, Outcome, AgentTypeOK
    <3>3. status'[cur] = "run" /\ rule' # "run" /\ ~notified'[cur]
      BY <2>1, <2>3, <3>2
    <3>4. Placed' = [Placed EXCEPT ![cur] = "finished"]
      BY <2>1, <2>2, <3>3 DEF Placed, Place
    <3> QED
      BY <2>1, <3>1, <3>4 DEF Placed, Service!Next, Service!Finish
  <2>4. CASE status[cur] \in {"absent", "ready"}
    <3>1. Place(cur) = IF status[cur] = "absent" THEN "none" ELSE "waiting"
      BY <2>1, <2>4 DEF Place
    <3>2. \A t \in Scripts : status'[t] = status[t]
      BY <2>1
    <3>3. \A t \in Scripts : t = cur => Place(t)' = Place(t)
      BY <2>1, <2>4, <3>2 DEF Place
    <3> QED
      BY <2>2, <3>3 DEF Placed
  <2> QED
    BY <2>1, <2>3, <2>4 DEF AtScript
<1>20. CASE RuleLeave
  <2>1. \A s \in Scripts : Place(s)' = Place(s)
    BY <1>20 DEF RuleLeave, Place
  <2> QED
    BY <2>1 DEF Placed
<1>21. CASE Accept
  <2>1. ASSUME NEW t \in Scripts PROVE Place(t)' = Place(t)
    BY <1>21 DEF Accept, Carry, Place, AgentTypeOK, AtScript
  <2> QED
    BY <2>1 DEF Placed
<1>22. CASE Refuse
  <2>1. cur \in Scripts /\ rule = "alert" /\ rule' = "pass"
    BY <1>22 DEF Refuse, AgentTypeOK
  <2>2. \A t \in Scripts \ {cur} : Place(t)' = Place(t)
    BY <1>22, <2>1 DEF Refuse, Carry, Outcome, Place, AgentTypeOK
  <2>3. CASE status[cur] = "ready"
    <3>1. Place(cur) = "waiting"
      BY <2>1, <2>3 DEF Place
    <3>2. status'[cur] = "refused"
      BY <1>22, <2>1, <2>3 DEF Refuse, Carry, AgentTypeOK
    <3>3. notified'[cur] = FALSE
      BY <1>22, <2>1, <2>3 DEF Refuse, Outcome, AgentTypeOK
    <3>4. Placed' = [Placed EXCEPT ![cur] = "finished"]
      BY <2>1, <2>2, <3>2, <3>3 DEF Placed, Place
    <3> QED
      BY <2>1, <3>1, <3>4 DEF Placed, Service!Next, Service!Finish
  <2>4. CASE status[cur] = "absent"
    <3>1. status'[cur] = "absent"
      BY <1>22, <2>1, <2>4 DEF Refuse, Carry, AgentTypeOK
    <3>2. \A t \in Scripts : t = cur => Place(t)' = Place(t)
      BY <2>1, <2>4, <3>1 DEF Place
    <3> QED
      BY <2>2, <3>2 DEF Placed
  <2> QED
    BY <2>1, <2>3, <2>4 DEF AtScript
<1>23. CASE Exit
  <2>1. \A s \in Scripts : Place(s)' = "none"
    BY <1>23 DEF Exit, Place
  <2> QED
    BY <2>1 DEF Placed, Service!Next, Service!Replace
<1>24. CASE UNCHANGED vars
  BY <1>24, <1>same DEF vars
<1> QED
  BY <1>1, <1>2, <1>3, <1>4, <1>5, <1>6, <1>7, <1>8, <1>9, <1>10, <1>11, <1>12, <1>13,
     <1>14, <1>15, <1>16, <1>17, <1>18, <1>19, <1>20, <1>21, <1>22, <1>23, <1>24 DEF Next,
     Handle, RuleStep

-----------------------------------------------------------------------------
(* The theorems.                                                           *)

\* The strengthening of all the invariants is inductive.
THEOREM AgentInductive == Spec => []IInv
<1>1. Init => IInv
  <2> SUFFICES ASSUME Init PROVE IInv
    OBVIOUS
  <2>1. AgentTypeOK
    BY BoundsAssumption DEF Init, AgentTypeOK, Lists, Clients, Requests
  <2>2. SectionInv /\ AccuseInv /\ InForceOrComing
    BY DEF Init, SectionInv, Undisturbed, InPass, Inside, AccuseInv, InForceOrComing
  <2>3. RunInv
    <3>1. Pending = {}
      BY DEF Init, Pending
    <3>2. Cardinality(Pending) = 0
      BY <3>1, FS_EmptySet
    <3> QED
      BY <3>2 DEF Init, RunInv, Waiting, Lists
  <2>4. ReportInv
    BY SetsAssumption DEF Init, ReportInv, Answering, Unmarked, Carrying, Polled, Clients
  <2> QED
    BY <2>1, <2>2, <2>3, <2>4 DEF IInv
<1>2. IInv /\ [Next]_vars => IInv'
  BY AgentTypeStep, SectionStep, RunStep, ReportStep, InForceStep, AccuseStep DEF IInv
<1> QED
  BY <1>1, <1>2, PTL DEF Spec

\* The variables keep their types.
THEOREM AgentTypeCorrect == Spec => []AgentTypeOK
BY AgentInductive, PTL DEF IInv

\* No list is replaced under the rule thread, and no two copies are made at once, unless a poll
\* has left the critical section without being inside (MIServer.cpp:75, 120, 243).
THEOREM NotDisturbed == Spec => []Undisturbed
<1>1. IInv => Undisturbed
  BY DEF IInv, SectionInv
<1> QED
  BY AgentInductive, <1>1, PTL

\* A script is never run twice for one upload of its list, under all the faults, strayed polls
\* and restarts among them (MIServer.cpp:150, 194).
THEOREM RunOnce == Spec => []RunOncePerUpload
<1>1. IInv => RunOncePerUpload
  <2> SUFFICES ASSUME IInv, NEW s \in Scripts PROVE ran[s] <= uploads["script"]
    BY DEF RunOncePerUpload
  <2>1. Cardinality(Pending) \in Nat
    BY SetsAssumption, FS_Subset, FS_CardinalityType DEF Pending
  <2>2. ran[s] + Cardinality(Pending) + Waiting(s) <= uploads["script"]
    BY DEF IInv, RunInv
  <2>3. ran[s] \in Nat /\ uploads["script"] \in Nat /\ Waiting(s) \in Nat
    BY DEF IInv, AgentTypeOK, Lists, Waiting
  <2> QED
    BY <2>1, <2>2, <2>3
<1> QED
  BY AgentInductive, <1>1, PTL

\* No outcome reaches the launcher twice, however often polls are given up (MIServer.cpp:267).
THEOREM OnceReported == Spec => []ReportedOnce
<1>1. IInv => ReportedOnce
  <2> SUFFICES ASSUME IInv, NEW s \in Scripts PROVE received[s] <= ran[s]
    BY DEF ReportedOnce
  <2>1. received[s] + Answering(s) + Unmarked(s) + Carrying(s) <= ran[s]
    BY DEF IInv, ReportInv
  <2>2. /\ received[s] \in Nat /\ ran[s] \in Nat
        /\ Answering(s) \in Nat /\ Unmarked(s) \in Nat /\ Carrying(s) \in Nat
    BY DEF IInv, AgentTypeOK, Answering, Unmarked, Carrying
  <2> QED
    BY <2>1, <2>2
<1> QED
  BY AgentInductive, <1>1, PTL

\* What the agent works from is what was uploaded last, or a copy of it is on its way
\* (MIServer.cpp:971, 1060).
THEOREM ComesIntoForce == Spec => []InForceOrComing
BY AgentInductive, PTL DEF IInv

\* No violation is reported before a check came out wrong (MIServer.cpp:239).
THEOREM ViolationsAreReal == Spec => []OnlyRealViolations
<1>1. IInv => OnlyRealViolations
  BY DEF IInv, AccuseInv, OnlyRealViolations
<1> QED
  BY AgentInductive, <1>1, PTL

\* The script the rule thread works on, as an invariant of the agent.
LEMMA AtScriptAlways == Spec => []AtScript
<1>1. Init => AtScript
  BY DEF Init, AtScript, OwnOutcomes
<1>2. IInv /\ AtScript /\ [Next]_vars => AtScript'
  BY AtScriptStep DEF IInv
<1> QED
  BY AgentInductive, <1>1, <1>2, PTL DEF Spec

\* Until a poll has left the critical section without being inside, what GetAgentScript reads
\* of a script (MIServer.cpp:256) is the outcome of a run of the list in force.
THEOREM OutcomesAreOwn == Spec => []OwnOutcomes
<1>1. AtScript => OwnOutcomes
  BY DEF AtScript
<1> QED
  BY AtScriptAlways, <1>1, PTL

\* The agent implements ScriptService: outcomes are taken once, and never before there is one.
THEOREM AgentKeepsService == Spec => KeepsService
<1>1. Init => Service!Init
  BY DEF Init, Service!Init, Placed, Place
<1>2. IInv /\ AtScript /\ [Next]_vars => [Service!Next]_Placed
  BY ServiceStep DEF IInv
<1> QED
  BY AgentInductive, AtScriptAlways, <1>1, <1>2, PTL DEF Spec, KeepsService, Service!Spec
=============================================================================
