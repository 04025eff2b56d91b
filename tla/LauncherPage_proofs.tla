------------------------- MODULE LauncherPage_proofs --------------------------
(***************************************************************************)
(* The properties of LauncherPage, for every number of images, environment *)
(* threads, open boxes and waiting messages.                               *)
(*                                                                         *)
(* Most of them are about the manager under the page.  So the steps of the *)
(* page are first sorted by what they do to the manager (Effects), and the *)
(* invariants over its variables are shown effect by effect.               *)
(***************************************************************************)
EXTENDS LauncherPage, Selections_proofs, TLAPS

\* The theorems about the manager, read through the page's queue.
MP == INSTANCE KVmMgr_proofs WITH msgs <- Selected(msgs, FromManager)

-----------------------------------------------------------------------------
(* What a step of the page does to the manager.                            *)

Halted == {"stopped", "suspended"}

Launches == Enabled_ /\ \E i \in Images : Launch(i)

Names == Enabled_ /\ \E i \in Images : NameOnly(i)

\* A halt is asked for when no command is in progress.
Asked ==
    /\ ~isWorking
    /\ lv_nVmProc' \in {"stop", "suspend"}
    /\ lv_mutexVm' = TRUE
    /\ UNCHANGED <<workerVars, caller, pathVars, lv_handleVM, m_strVMX, vmVars, fileVars>>

Halts == Pumping /\ Asked /\ UNCHANGED msgs

Reads(M) == Pumping /\ msgs # <<>> /\ Head(msgs) \in M /\ msgs' = Tail(msgs)

ReadsReport == Reads({"launched", "launchFailed"}) /\ UNCHANGED mgrVars

ReadsHalted ==
    /\ Reads(Halted)
    /\ m_strVMX' = None
    /\ UNCHANGED <<callVars, workerVars, pathVars, lv_handleVM, vmVars, fileVars>>

ReadsAsk == Reads(DOMAIN Asks) /\ (Asked \/ UNCHANGED mgrVars)

Posts == \E m \in DOMAIN Asks : Post(m) /\ UNCHANGED mgrVars

\* The lost session asks whatever the manager is doing.
Overrides == SessionDrops /\ Pumping /\ Request("suspend")

Effect ==
    \/ Launches \/ Names \/ Halts
    \/ ReadsReport \/ ReadsHalted \/ ReadsAsk
    \/ Posts \/ Overrides
    \/ Worker \/ LaunchReady \/ LaunchRefused \/ External
    \/ UNCHANGED vars

\* onAfterStopVM asks for a halt or does nothing.
LEMMA StopIsAsked ==
    ASSUME NEW c \in {"stop", "suspend"}, NEW r, onAfterStopVM(c, r)
    PROVE  Asked \/ UNCHANGED mgrVars
BY DEF onAfterStopVM, Asked

\* Every step of the page has one of these effects.
LEMMA Effects ==
    ASSUME [PageNext]_allVars
    PROVE  Effect
<1> USE DEF Effect
<1>1. ASSUME NEW i \in Images, Start(i)
      PROVE  Launches \/ Names
  <2> USE DEF Start, Enabled_, Pumping, Launches, Names, Launch, NameOnly, LaunchBegin
  <2>1. CASE lv_handleVM \notin powered /\ i \notin deleted /\ LaunchBegin(i)
    BY <1>1, <2>1
  <2>2. CASE UNCHANGED <<callVars, workerVars, pathVars, lv_handleVM, vmVars, fileVars, msgs>>
    BY <1>1, <2>2 DEF callVars
  <2> QED
    BY <1>1, <2>1, <2>2
<1>2. ASSUME Confirm("logout") \/ Confirm("update") \/ CloseClicked \/ Login
      PROVE  UNCHANGED vars
  BY <1>2 DEF Confirm, CloseClicked, Login
<1>3. ASSUME NEW b, NEW r, AnswerHalt(b, r)
      PROVE  Halts \/ UNCHANGED vars
  BY <1>3, StopIsAsked DEF AnswerHalt, Close, Halts, vars, mgrVars
<1>4. ASSUME AnswerLogout \/ AnswerUpdate \/ AnswerLaunchFailed \/ AnswerIdle
      PROVE  Halts \/ UNCHANGED vars
  BY <1>4, StopIsAsked
     DEF AnswerLogout, AnswerUpdate, AnswerLaunchFailed, AnswerIdle, Close, Halts, vars, mgrVars
<1>5. ASSUME AnswerKClient \/ AnswerSession
      PROVE  UNCHANGED vars
  BY <1>5 DEF AnswerKClient, AnswerSession
<1>6. ASSUME OnLaunched \/ OnLaunchFailed
      PROVE  ReadsReport
  BY <1>6 DEF OnLaunched, OnLaunchFailed, Take, ReadsReport, Reads
<1>7. ASSUME NEW m \in DOMAIN Asks, OnAsk(m)
      PROVE  ReadsAsk
  <2>1. Asks[m][1] \in {"stop", "suspend"}
    BY DEF Asks
  <2>2. Asked \/ UNCHANGED mgrVars
    BY <1>7, <2>1, StopIsAsked DEF OnAsk
  <2>3. Reads(DOMAIN Asks)
    BY <1>7 DEF OnAsk, Take, Reads
  <2> QED
    BY <2>2, <2>3 DEF ReadsAsk
<1>8. ASSUME NEW m \in Halted, OnHalted(m)
      PROVE  ReadsHalted
  BY <1>8 DEF OnHalted, Take, ReadsHalted, Reads
<1>9. ASSUME Tick
      PROVE  Posts
  BY <1>9 DEF Tick, Posts, Asks
<1>10. ASSUME OnSessionInvalid
       PROVE  Overrides
  BY <1>10 DEF OnSessionInvalid, Overrides
<1>11. ASSUME NEW e \in Monitors, MonitorSeesStop(e) \/ MonitorNoAgent(e)
       PROVE  Posts
  BY <1>11 DEF MonitorSeesStop, MonitorNoAgent, Posts, Asks
<1>12. ASSUME NEW e \in Monitors, MonitorAdvance(e) \/ OnIdleTimeout(e)
       PROVE  UNCHANGED vars
  BY <1>12 DEF MonitorAdvance, OnIdleTimeout
<1>13. ASSUME NEW e \in Monitors, OnViolation(e)
       PROVE  Halts \/ UNCHANGED vars
  BY <1>13, StopIsAsked DEF OnViolation, Halts, vars, mgrVars
<1>14. ASSUME Manager \/ Vmware
       PROVE  Worker \/ LaunchReady \/ LaunchRefused \/ External
  BY <1>14 DEF Manager, Vmware
<1>15. ASSUME UNCHANGED allVars
       PROVE  UNCHANGED vars
  BY <1>15 DEF allVars
<1>16. CASE UserInput
  BY <1>16, <1>1, <1>2 DEF UserInput
<1>17. CASE Answer
  BY <1>17, <1>3, <1>4, <1>5 DEF Answer
<1>18. CASE Message
  BY <1>18, <1>6, <1>7, <1>8 DEF Message, Halted
<1>19. CASE Monitoring
  BY <1>19, <1>11, <1>12, <1>13 DEF Monitoring
<1> QED
  BY <1>9, <1>10, <1>14, <1>15, <1>16, <1>17, <1>18, <1>19 DEF PageNext

-----------------------------------------------------------------------------
(* Types.                                                                  *)

Messages == FromManager \cup DOMAIN Asks

\* The manager's variables, and the queue everybody posts to.
ManagerTypeOK ==
    /\ lv_nVmProc \in Commands \cup {"unknown"}
    /\ lv_mutexVm \in BOOLEAN
    /\ wpc \in WorkerSteps
    /\ wcmd \in Commands \cup {"unknown"}
    /\ caller \in Images \cup {None}
    /\ lv_strVMX \in Images \cup {None}
    /\ lv_strDecryptVmx \in Images \cup {None}
    /\ lv_handleVM \in Images \cup {None}
    /\ m_strVMX \in Images \cup {None}
    /\ powered \subseteq Images
    /\ player \in [Images -> Images \cup {None}]
    /\ vml \in [Images -> Images \cup {None}]
    /\ disk \in [Images -> Images]
    /\ msgs \in Seq(Messages)

\* Whatever the page does, the manager's variables keep their types; the worker opens and
\* powers on only a virtual machine it has a path for.
LEMMA ManagerTypeStep ==
    ASSUME ManagerTypeOK, wpc = "powerOn" => lv_handleVM \in Images, [PageNext]_allVars
    PROVE  ManagerTypeOK'
<1> USE NoneAssumption DEF ManagerTypeOK, Messages, FromManager, Asks, Halted, isWorking, Commands,
           LaunchSteps, HaltSteps, WorkerSteps,
           mgrVars, callVars, workerVars, pathVars, vmVars, fileVars
<1>1. ASSUME Launches
      PROVE  ManagerTypeOK'
  BY <1>1 DEF Launches, Launch, LaunchBegin, Enabled_, Pumping
<1>2. ASSUME Names
      PROVE  ManagerTypeOK'
  BY <1>2 DEF Names, NameOnly, Enabled_, Pumping
<1>3. ASSUME Halts
      PROVE  ManagerTypeOK'
  BY <1>3 DEF Halts, Asked, Pumping
<1>4. ASSUME ReadsReport
      PROVE  ManagerTypeOK'
  BY <1>4 DEF ReadsReport, Reads, Pumping
<1>5. ASSUME ReadsHalted
      PROVE  ManagerTypeOK'
  BY <1>5 DEF ReadsHalted, Reads, Pumping
<1>6. ASSUME ReadsAsk
      PROVE  ManagerTypeOK'
  <2>1. msgs' \in Seq(Messages)
    BY <1>6 DEF ReadsAsk, Reads
  <2>2. CASE Asked
    BY <2>1, <2>2 DEF Asked
  <2>3. CASE UNCHANGED mgrVars
    BY <2>1, <2>3
  <2> QED
    BY <1>6, <2>2, <2>3 DEF ReadsAsk
<1>7. ASSUME Posts
      PROVE  ManagerTypeOK'
  BY <1>7 DEF Posts, Post
<1>8. ASSUME Overrides
      PROVE  ManagerTypeOK'
  BY <1>8 DEF Overrides, Request, Pumping
<1>9. ASSUME Wake
      PROVE  ManagerTypeOK'
  BY <1>9 DEF Wake, Goto
<1>10. ASSUME Dispatch
      PROVE  ManagerTypeOK'
  BY <1>10 DEF Dispatch, Goto
<1>11. ASSUME LaunchRelease
      PROVE  ManagerTypeOK'
  BY <1>11 DEF LaunchRelease, Goto
<1>12. ASSUME LaunchOpen
      PROVE  ManagerTypeOK'
  BY <1>12 DEF LaunchOpen, Goto, Decrypted
<1>13. ASSUME LaunchPowerOn
      PROVE  ManagerTypeOK'
  BY <1>13 DEF LaunchPowerOn, Goto
<1>14. ASSUME LaunchDone
      PROVE  ManagerTypeOK'
  <2>1. msgs' \in Seq(Messages)
    BY <1>14 DEF LaunchDone, Post
  <2> QED
    BY <1>14, <2>1 DEF LaunchDone, Goto, Delete
<1>15. ASSUME HaltPowerOff
      PROVE  ManagerTypeOK'
  BY <1>15 DEF HaltPowerOff, Goto
<1>16. ASSUME HaltDrop
      PROVE  ManagerTypeOK'
  BY <1>16 DEF HaltDrop, Goto
<1>17. ASSUME HaltEncrypt
      PROVE  ManagerTypeOK'
  BY <1>17 DEF HaltEncrypt, Goto, Delete, Decrypted
<1>18. ASSUME HaltDone
      PROVE  ManagerTypeOK'
  BY <1>18 DEF HaltDone, Goto, Post
<1>19. ASSUME Clear
      PROVE  ManagerTypeOK'
  BY <1>19 DEF Clear, Goto
<1>20. ASSUME LaunchReady
      PROVE  ManagerTypeOK'
  BY <1>20 DEF LaunchReady
<1>21. ASSUME LaunchRefused
      PROVE  ManagerTypeOK'
  BY <1>21 DEF LaunchRefused
<1>22. ASSUME NEW i \in Images, GuestOff(i)
      PROVE  ManagerTypeOK'
  BY <1>22 DEF GuestOff
<1>23. ASSUME NEW i \in Images, PlayerWrites(i)
      PROVE  ManagerTypeOK'
  BY <1>23 DEF PlayerWrites
<1>24. ASSUME NEW i \in Images, PlayerEnds(i)
      PROVE  ManagerTypeOK'
  BY <1>24 DEF PlayerEnds, Delete
<1>25. ASSUME UNCHANGED vars
      PROVE  ManagerTypeOK'
  BY <1>25 DEF vars
<1> QED
  BY <1>1, <1>2, <1>3, <1>4, <1>5, <1>6, <1>7, <1>8, <1>9, <1>10, <1>11, <1>12, <1>13, <1>14,
     <1>15, <1>16, <1>17, <1>18, <1>19, <1>20, <1>21, <1>22, <1>23, <1>24, <1>25, Effects
     DEF Effect, Worker, External

-----------------------------------------------------------------------------
(* Messages waiting in the queue.                                          *)

Has(X) == \E k \in 1 .. Len(msgs) : msgs[k] \in X

\* A message that is posted is the only one to join the queue.
LEMMA HasPosted ==
    ASSUME msgs \in Seq(Messages), NEW X, NEW m \in Messages, msgs' = Append(msgs, m)
    PROVE  Has(X)' <=> Has(X) \/ m \in X
<1>1. /\ Len(msgs') = Len(msgs) + 1
      /\ Len(msgs) \in Nat
      /\ msgs'[Len(msgs) + 1] = m
      /\ \A k \in 1 .. Len(msgs) : msgs'[k] = msgs[k]
  BY AppendProperties
<1>2. \A k : k \in 1 .. Len(msgs') <=> k \in 1 .. Len(msgs) \/ k = Len(msgs) + 1
  BY <1>1
<1> QED
  BY <1>1, <1>2 DEF Has

\* The message that is read is the only one to leave it.
LEMMA HasRead ==
    ASSUME msgs \in Seq(Messages), NEW X, msgs # <<>>, msgs' = Tail(msgs)
    PROVE  Has(X) <=> Head(msgs) \in X \/ Has(X)'
<1>1. /\ Len(msgs') = Len(msgs) - 1
      /\ Len(msgs) \in Nat \ {0}
      /\ Head(msgs) = msgs[1]
      /\ \A k \in 1 .. Len(msgs') : msgs'[k] = msgs[k + 1]
  BY HeadTailProperties
<1>2. ASSUME NEW k \in 1 .. Len(msgs), msgs[k] \in X
      PROVE  Head(msgs) \in X \/ Has(X)'
  <2>1. CASE k = 1
    BY <1>1, <1>2, <2>1
  <2>2. CASE k # 1
    <3>1. k - 1 \in 1 .. Len(msgs') /\ msgs'[k - 1] = msgs[k]
      BY <1>1, <2>2
    <3> QED
      BY <1>2, <3>1 DEF Has
  <2> QED
    BY <2>1, <2>2
<1>3. ASSUME NEW k \in 1 .. Len(msgs'), msgs'[k] \in X
      PROVE  Has(X)
  <2>1. k + 1 \in 1 .. Len(msgs) /\ msgs[k + 1] = msgs'[k]
    BY <1>1
  <2> QED
    BY <1>3, <2>1 DEF Has
<1>4. Head(msgs) \in X => Has(X)
  <2>1. 1 \in 1 .. Len(msgs)
    BY <1>1
  <2> QED
    BY <1>1, <2>1 DEF Has
<1> QED
  BY <1>2, <1>3, <1>4 DEF Has

\* An empty queue holds no message.
LEMMA HasNone ==
    ASSUME NEW X, msgs = <<>>
    PROVE  ~Has(X)
BY DEF Has

-----------------------------------------------------------------------------
(* Whatever the session does: halts.                                       *)

\* A halt is carried out only while nothing is being launched, and once its end has been
\* posted nothing is, until the page has read the message.
HaltsAlone ==
    /\ wpc \in HaltSteps => caller = None /\ lv_nVmProc \in {"stop", "suspend"}
    /\ caller # None => lv_nVmProc \in {"start", "unknown"}
    /\ Has(Halted) => /\ caller = None
                      /\ lv_nVmProc # "start"
                      /\ wpc \notin LaunchSteps
                      /\ lv_handleVM = None

\* When the handle is open and when it is not.
HandleSteps ==
    /\ wpc \in {"open", "encrypt", "halted"} => lv_handleVM = None
    /\ wpc = "powerOn" => lv_handleVM \in Images /\ lv_strVMX \in Images

Base == ManagerTypeOK /\ HaltsAlone /\ HandleSteps /\ CommandPending

\* The worker finds what it needs and gives up the handle before it ends a halt; a command
\* waits in launchVM or in the event, or the worker is at work.
LEMMA WorkStep ==
    ASSUME Base, [PageNext]_allVars
    PROVE  HandleSteps' /\ CommandPending'
<1> USE NoneAssumption DEF Halted, isWorking, Commands, LaunchSteps, HaltSteps, WorkerSteps,
           Base, ManagerTypeOK, HaltsAlone, HandleSteps, CommandPending,
           mgrVars, callVars, workerVars, pathVars, vmVars, fileVars
<1>1. ASSUME Launches
      PROVE  HandleSteps' /\ CommandPending'
  BY <1>1 DEF Launches, Launch, LaunchBegin, Enabled_, Pumping
<1>2. ASSUME Names
      PROVE  HandleSteps' /\ CommandPending'
  BY <1>2 DEF Names, NameOnly, Enabled_, Pumping
<1>3. ASSUME Halts
      PROVE  HandleSteps' /\ CommandPending'
  BY <1>3 DEF Halts, Asked, Pumping
<1>4. ASSUME ReadsReport
      PROVE  HandleSteps' /\ CommandPending'
  BY <1>4 DEF ReadsReport, Reads, Pumping
<1>5. ASSUME ReadsHalted
      PROVE  HandleSteps' /\ CommandPending'
  BY <1>5 DEF ReadsHalted, Reads, Pumping
<1>6. ASSUME ReadsAsk
      PROVE  HandleSteps' /\ CommandPending'
  BY <1>6 DEF ReadsAsk, Reads, Asked, Pumping
<1>7. ASSUME Posts
      PROVE  HandleSteps' /\ CommandPending'
  BY <1>7 DEF Posts, Post
<1>8. ASSUME Overrides
      PROVE  HandleSteps' /\ CommandPending'
  BY <1>8 DEF Overrides, Request, Pumping
<1>9. ASSUME Wake
      PROVE  HandleSteps' /\ CommandPending'
  BY <1>9 DEF Wake, Goto
<1>10. ASSUME Dispatch
      PROVE  HandleSteps' /\ CommandPending'
  BY <1>10 DEF Dispatch, Goto
<1>11. ASSUME LaunchRelease
      PROVE  HandleSteps' /\ CommandPending'
  BY <1>11 DEF LaunchRelease, Goto
<1>12. ASSUME LaunchOpen
      PROVE  HandleSteps' /\ CommandPending'
  BY <1>12 DEF LaunchOpen, Goto, Decrypted
<1>13. ASSUME LaunchPowerOn
      PROVE  HandleSteps' /\ CommandPending'
  BY <1>13 DEF LaunchPowerOn, Goto
<1>14. ASSUME LaunchDone
      PROVE  HandleSteps' /\ CommandPending'
  BY <1>14 DEF LaunchDone, Goto, Post, Delete
<1>15. ASSUME HaltPowerOff
      PROVE  HandleSteps' /\ CommandPending'
  BY <1>15 DEF HaltPowerOff, Goto
<1>16. ASSUME HaltDrop
      PROVE  HandleSteps' /\ CommandPending'
  BY <1>16 DEF HaltDrop, Goto
<1>17. ASSUME HaltEncrypt
      PROVE  HandleSteps' /\ CommandPending'
  BY <1>17 DEF HaltEncrypt, Goto, Delete, Decrypted
<1>18. ASSUME HaltDone
      PROVE  HandleSteps' /\ CommandPending'
  BY <1>18 DEF HaltDone, Goto, Post
<1>19. ASSUME Clear
      PROVE  HandleSteps' /\ CommandPending'
  BY <1>19 DEF Clear, Goto
<1>20. ASSUME LaunchReady
      PROVE  HandleSteps' /\ CommandPending'
  BY <1>20 DEF LaunchReady
<1>21. ASSUME LaunchRefused
      PROVE  HandleSteps' /\ CommandPending'
  BY <1>21 DEF LaunchRefused
<1>22. ASSUME NEW i \in Images, GuestOff(i)
      PROVE  HandleSteps' /\ CommandPending'
  BY <1>22 DEF GuestOff
<1>23. ASSUME NEW i \in Images, PlayerWrites(i)
      PROVE  HandleSteps' /\ CommandPending'
  BY <1>23 DEF PlayerWrites
<1>24. ASSUME NEW i \in Images, PlayerEnds(i)
      PROVE  HandleSteps' /\ CommandPending'
  BY <1>24 DEF PlayerEnds, Delete
<1>25. ASSUME UNCHANGED vars
      PROVE  HandleSteps' /\ CommandPending'
  BY <1>25 DEF vars
<1> QED
  BY <1>1, <1>2, <1>3, <1>4, <1>5, <1>6, <1>7, <1>8, <1>9, <1>10, <1>11, <1>12, <1>13, <1>14,
     <1>15, <1>16, <1>17, <1>18, <1>19, <1>20, <1>21, <1>22, <1>23, <1>24, <1>25, Effects
     DEF Effect, Worker, External

\* A halt's message is in the queue only while no launch can begin.
LEMMA HaltsAloneStep ==
    ASSUME Base, [PageNext]_allVars
    PROVE  HaltsAlone'
<1> USE NoneAssumption DEF Halted, isWorking, Commands, LaunchSteps, HaltSteps, WorkerSteps,
           Base, ManagerTypeOK, HaltsAlone, HandleSteps, CommandPending,
           mgrVars, callVars, workerVars, pathVars, vmVars, fileVars
<1>1. ASSUME Launches
      PROVE  HaltsAlone'
  <2>1. ~Has(Halted)'
    BY <1>1 DEF Launches, Launch, LaunchBegin, Enabled_, Has
  <2> QED
    BY <1>1, <2>1 DEF Launches, Launch, LaunchBegin, Enabled_
<1>2. ASSUME Names
      PROVE  HaltsAlone'
  <2>1. Has(Halted)' <=> Has(Halted)
    BY <1>2 DEF Names, NameOnly, Has
  <2> HIDE DEF Halted
  <2> QED
    BY <1>2, <2>1 DEF Names, NameOnly
<1>3. ASSUME Halts
      PROVE  HaltsAlone'
  <2>1. Has(Halted)' <=> Has(Halted)
    BY <1>3 DEF Halts, Asked, Pumping, Has
  <2> HIDE DEF Halted
  <2> QED
    BY <1>3, <2>1 DEF Halts, Asked, Pumping
<1>4. ASSUME ReadsReport
      PROVE  HaltsAlone'
  <2>1. Has(Halted)' => Has(Halted)
    BY <1>4, HasRead DEF ReadsReport, Reads
  <2> QED
    BY <1>4, <2>1 DEF ReadsReport, Asked, Reads, Pumping
<1>5. ASSUME ReadsHalted
      PROVE  HaltsAlone'
  <2>1. Has(Halted)' => Has(Halted)
    BY <1>5, HasRead DEF ReadsHalted, Reads
  <2> QED
    BY <1>5, <2>1 DEF ReadsHalted, Asked, Reads, Pumping
<1>6. ASSUME ReadsAsk
      PROVE  HaltsAlone'
  <2>1. Has(Halted)' => Has(Halted)
    BY <1>6, HasRead DEF ReadsAsk, Reads
  <2> QED
    BY <1>6, <2>1 DEF ReadsAsk, Asked, Reads, Pumping
<1>7. ASSUME Posts
      PROVE  HaltsAlone'
  <2>1. Has(Halted)' <=> Has(Halted)
    BY <1>7, HasPosted DEF Posts, Post, Messages, FromManager, Asks
  <2> HIDE DEF Halted
  <2> QED
    BY <1>7, <2>1 DEF Posts
<1>8. ASSUME Overrides
      PROVE  HaltsAlone'
  <2>1. Has(Halted)' <=> Has(Halted)
    BY <1>8 DEF Overrides, Request, Pumping, Has
  <2> HIDE DEF Halted
  <2> QED
    BY <1>8, <2>1 DEF Overrides, Request, Pumping
<1>9. ASSUME Wake
      PROVE  HaltsAlone'
  <2>1. Has(Halted)' <=> Has(Halted)
    BY <1>9 DEF Wake, Goto, Has
  <2> HIDE DEF Halted
  <2> QED
    BY <1>9, <2>1 DEF Wake, Goto
<1>10. ASSUME Dispatch
      PROVE  HaltsAlone'
  <2>1. Has(Halted)' <=> Has(Halted)
    BY <1>10 DEF Dispatch, Goto, Has
  <2> HIDE DEF Halted
  <2> QED
    BY <1>10, <2>1 DEF Dispatch, Goto
<1>11. ASSUME LaunchRelease
      PROVE  HaltsAlone'
  <2>1. Has(Halted)' <=> Has(Halted)
    BY <1>11 DEF LaunchRelease, Goto, Has
  <2> HIDE DEF Halted
  <2> QED
    BY <1>11, <2>1 DEF LaunchRelease, Goto
<1>12. ASSUME LaunchOpen
      PROVE  HaltsAlone'
  <2>1. Has(Halted)' <=> Has(Halted)
    BY <1>12 DEF LaunchOpen, Goto, Decrypted, Has
  <2> HIDE DEF Halted
  <2> QED
    BY <1>12, <2>1 DEF LaunchOpen, Goto, Decrypted
<1>13. ASSUME LaunchPowerOn
      PROVE  HaltsAlone'
  <2>1. Has(Halted)' <=> Has(Halted)
    BY <1>13 DEF LaunchPowerOn, Goto, Has
  <2> HIDE DEF Halted
  <2> QED
    BY <1>13, <2>1 DEF LaunchPowerOn, Goto
<1>14. ASSUME LaunchDone
      PROVE  HaltsAlone'
  <2>1. /\ "launched" \in Messages \ Halted
        /\ "launchFailed" \in Messages \ Halted
    BY DEF Messages, FromManager
  <2>2. msgs \in Seq(Messages)
    OBVIOUS
  <2> HIDE DEF Halted
  <2>3. CASE msgs' = Append(msgs, "launched")
    <3>1. Has(Halted)' <=> Has(Halted)
      BY ONLY <2>1, <2>2, <2>3, HasPosted
    <3> QED
      BY <1>14, <3>1 DEF LaunchDone, Goto
  <2>4. CASE msgs' = Append(msgs, "launchFailed")
    <3>1. Has(Halted)' <=> Has(Halted)
      BY ONLY <2>1, <2>2, <2>4, HasPosted
    <3> QED
      BY <1>14, <3>1 DEF LaunchDone, Goto
  <2> QED
    BY <1>14, <2>3, <2>4 DEF LaunchDone, Post
<1>15. ASSUME HaltPowerOff
      PROVE  HaltsAlone'
  <2>1. Has(Halted)' <=> Has(Halted)
    BY <1>15 DEF HaltPowerOff, Goto, Has
  <2> HIDE DEF Halted
  <2> QED
    BY <1>15, <2>1 DEF HaltPowerOff, Goto
<1>16. ASSUME HaltDrop
      PROVE  HaltsAlone'
  <2>1. Has(Halted)' <=> Has(Halted)
    BY <1>16 DEF HaltDrop, Goto, Has
  <2> HIDE DEF Halted
  <2> QED
    BY <1>16, <2>1 DEF HaltDrop, Goto
<1>17. ASSUME HaltEncrypt
      PROVE  HaltsAlone'
  <2>1. Has(Halted)' <=> Has(Halted)
    BY <1>17 DEF HaltEncrypt, Goto, Delete, Decrypted, Has
  <2> HIDE DEF Halted
  <2> QED
    BY <1>17, <2>1 DEF HaltEncrypt, Goto, Delete, Decrypted
<1>18. ASSUME HaltDone
      PROVE  HaltsAlone'
  BY <1>18 DEF HaltDone, Goto
<1>19. ASSUME Clear
      PROVE  HaltsAlone'
  <2>1. Has(Halted)' <=> Has(Halted)
    BY <1>19 DEF Clear, Goto, Has
  <2> HIDE DEF Halted
  <2> QED
    BY <1>19, <2>1 DEF Clear, Goto
<1>20. ASSUME LaunchReady
      PROVE  HaltsAlone'
  <2>1. Has(Halted)' <=> Has(Halted)
    BY <1>20 DEF LaunchReady, Has
  <2> HIDE DEF Halted
  <2> QED
    BY <1>20, <2>1 DEF LaunchReady
<1>21. ASSUME LaunchRefused
      PROVE  HaltsAlone'
  <2>1. Has(Halted)' <=> Has(Halted)
    BY <1>21 DEF LaunchRefused, Has
  <2> HIDE DEF Halted
  <2> QED
    BY <1>21, <2>1 DEF LaunchRefused
<1>22. ASSUME NEW i \in Images, GuestOff(i)
      PROVE  HaltsAlone'
  <2>1. Has(Halted)' <=> Has(Halted)
    BY <1>22 DEF GuestOff, Has
  <2> HIDE DEF Halted
  <2> QED
    BY <1>22, <2>1 DEF GuestOff
<1>23. ASSUME NEW i \in Images, PlayerWrites(i)
      PROVE  HaltsAlone'
  <2>1. Has(Halted)' <=> Has(Halted)
    BY <1>23 DEF PlayerWrites, Has
  <2> HIDE DEF Halted
  <2> QED
    BY <1>23, <2>1 DEF PlayerWrites
<1>24. ASSUME NEW i \in Images, PlayerEnds(i)
      PROVE  HaltsAlone'
  <2>1. Has(Halted)' <=> Has(Halted)
    BY <1>24 DEF PlayerEnds, Delete, Has
  <2> HIDE DEF Halted
  <2> QED
    BY <1>24, <2>1 DEF PlayerEnds, Delete
<1>25. ASSUME UNCHANGED vars
      PROVE  HaltsAlone'
  <2>1. Has(Halted)' <=> Has(Halted)
    BY <1>25 DEF vars, Has
  <2> HIDE DEF Halted
  <2> QED
    BY <1>25, <2>1 DEF vars
<1> QED
  BY <1>1, <1>2, <1>3, <1>4, <1>5, <1>6, <1>7, <1>8, <1>9, <1>10, <1>11, <1>12, <1>13, <1>14,
     <1>15, <1>16, <1>17, <1>18, <1>19, <1>20, <1>21, <1>22, <1>23, <1>24, <1>25, Effects
     DEF Effect, Worker, External

-----------------------------------------------------------------------------
(* When every power-off powers off.                                        *)

\* Nothing is on from the request of a launch to its power-on, nor from a power-off to the
\* page's reading of the halt's end; and a machine that is on has a path, so that
\* isRunning() sees it.
Power ==
    /\ NoOrphan
    /\ lv_nVmProc = "start" /\ wpc \in {"wait", "woken"} => powered = {}
    /\ wpc \in {"release", "open", "powerOn", "drop", "encrypt", "halted"} => powered = {}
    /\ Has(Halted) => powered = {}
    /\ powered # {} => m_strVMX # None

\* A launch begins, a handle is dropped and a halt's end is posted only when nothing is on.
LEMMA PowerStep ==
    ASSUME Base, Power, "powerOff" \notin Faults, [PageNext]_allVars
    PROVE  Power'
<1> USE NoneAssumption DEF Halted, isWorking, Commands, LaunchSteps, HaltSteps, WorkerSteps,
           Base, ManagerTypeOK, HaltsAlone, HandleSteps, CommandPending, Power, NoOrphan,
           mgrVars, callVars, workerVars, pathVars, vmVars, fileVars
<1>1. ASSUME Launches
      PROVE  Power'
  <2>1. ~Has(Halted)'
    BY <1>1 DEF Launches, Launch, LaunchBegin, Enabled_, Has
  <2> QED
    BY <1>1, <2>1 DEF Launches, Launch, LaunchBegin, Enabled_
<1>2. ASSUME Names
      PROVE  Power'
  <2>1. Has(Halted)' <=> Has(Halted)
    BY <1>2 DEF Names, NameOnly, Has
  <2> HIDE DEF Halted
  <2> QED
    BY <1>2, <2>1 DEF Names, NameOnly
<1>3. ASSUME Halts
      PROVE  Power'
  <2>1. Has(Halted)' <=> Has(Halted)
    BY <1>3 DEF Halts, Asked, Pumping, Has
  <2> HIDE DEF Halted
  <2> QED
    BY <1>3, <2>1 DEF Halts, Asked, Pumping
<1>4. ASSUME ReadsReport
      PROVE  Power'
  <2>1. Has(Halted)' => Has(Halted)
    BY <1>4, HasRead DEF ReadsReport, Reads
  <2> QED
    BY <1>4, <2>1 DEF ReadsReport, Asked, Reads, Pumping
<1>5. ASSUME ReadsHalted
      PROVE  Power'
  <2>1. Has(Halted)
    BY <1>5, HasRead DEF ReadsHalted, Reads
  <2> QED
    BY <1>5, <2>1 DEF ReadsHalted, Reads
<1>6. ASSUME ReadsAsk
      PROVE  Power'
  <2>1. Has(Halted)' => Has(Halted)
    BY <1>6, HasRead DEF ReadsAsk, Reads
  <2> QED
    BY <1>6, <2>1 DEF ReadsAsk, Asked, Reads, Pumping
<1>7. ASSUME Posts
      PROVE  Power'
  <2>1. Has(Halted)' <=> Has(Halted)
    BY <1>7, HasPosted DEF Posts, Post, Messages, FromManager, Asks
  <2> HIDE DEF Halted
  <2> QED
    BY <1>7, <2>1 DEF Posts
<1>8. ASSUME Overrides
      PROVE  Power'
  <2>1. Has(Halted)' <=> Has(Halted)
    BY <1>8 DEF Overrides, Request, Pumping, Has
  <2> HIDE DEF Halted
  <2> QED
    BY <1>8, <2>1 DEF Overrides, Request, Pumping
<1>9. ASSUME Wake
      PROVE  Power'
  <2>1. Has(Halted)' <=> Has(Halted)
    BY <1>9 DEF Wake, Goto, Has
  <2> HIDE DEF Halted
  <2> QED
    BY <1>9, <2>1 DEF Wake, Goto
<1>10. ASSUME Dispatch
      PROVE  Power'
  <2>1. Has(Halted)' <=> Has(Halted)
    BY <1>10 DEF Dispatch, Goto, Has
  <2> HIDE DEF Halted
  <2> QED
    BY <1>10, <2>1 DEF Dispatch, Goto
<1>11. ASSUME LaunchRelease
      PROVE  Power'
  <2>1. Has(Halted)' <=> Has(Halted)
    BY <1>11 DEF LaunchRelease, Goto, Has
  <2> HIDE DEF Halted
  <2> QED
    BY <1>11, <2>1 DEF LaunchRelease, Goto
<1>12. ASSUME LaunchOpen
      PROVE  Power'
  <2>1. Has(Halted)' <=> Has(Halted)
    BY <1>12 DEF LaunchOpen, Goto, Decrypted, Has
  <2> HIDE DEF Halted
  <2> QED
    BY <1>12, <2>1 DEF LaunchOpen, Goto, Decrypted
<1>13. ASSUME LaunchPowerOn
      PROVE  Power'
  <2>1. Has(Halted)' <=> Has(Halted)
    BY <1>13 DEF LaunchPowerOn, Goto, Has
  <2> HIDE DEF Halted
  <2> QED
    BY <1>13, <2>1 DEF LaunchPowerOn, Goto
<1>14. ASSUME LaunchDone
      PROVE  Power'
  <2>1. /\ "launched" \in Messages \ Halted
        /\ "launchFailed" \in Messages \ Halted
    BY DEF Messages, FromManager
  <2>2. msgs \in Seq(Messages)
    OBVIOUS
  <2> HIDE DEF Halted
  <2>3. CASE msgs' = Append(msgs, "launched")
    <3>1. Has(Halted)' <=> Has(Halted)
      BY ONLY <2>1, <2>2, <2>3, HasPosted
    <3> QED
      BY <1>14, <3>1 DEF LaunchDone, Goto
  <2>4. CASE msgs' = Append(msgs, "launchFailed")
    <3>1. Has(Halted)' <=> Has(Halted)
      BY ONLY <2>1, <2>2, <2>4, HasPosted
    <3> QED
      BY <1>14, <3>1 DEF LaunchDone, Goto
  <2> QED
    BY <1>14, <2>3, <2>4 DEF LaunchDone, Post
<1>15. ASSUME HaltPowerOff
      PROVE  Power'
  <2>1. Has(Halted)' <=> Has(Halted)
    BY <1>15 DEF HaltPowerOff, Goto, Has
  <2> HIDE DEF Halted
  <2> QED
    BY <1>15, <2>1 DEF HaltPowerOff, Goto
<1>16. ASSUME HaltDrop
      PROVE  Power'
  <2>1. Has(Halted)' <=> Has(Halted)
    BY <1>16 DEF HaltDrop, Goto, Has
  <2> HIDE DEF Halted
  <2> QED
    BY <1>16, <2>1 DEF HaltDrop, Goto
<1>17. ASSUME HaltEncrypt
      PROVE  Power'
  <2>1. Has(Halted)' <=> Has(Halted)
    BY <1>17 DEF HaltEncrypt, Goto, Delete, Decrypted, Has
  <2> HIDE DEF Halted
  <2> QED
    BY <1>17, <2>1 DEF HaltEncrypt, Goto, Delete, Decrypted
<1>18. ASSUME HaltDone
      PROVE  Power'
  BY <1>18 DEF HaltDone, Goto
<1>19. ASSUME Clear
      PROVE  Power'
  <2>1. Has(Halted)' <=> Has(Halted)
    BY <1>19 DEF Clear, Goto, Has
  <2> HIDE DEF Halted
  <2> QED
    BY <1>19, <2>1 DEF Clear, Goto
<1>20. ASSUME LaunchReady
      PROVE  Power'
  <2>1. Has(Halted)' <=> Has(Halted)
    BY <1>20 DEF LaunchReady, Has
  <2> HIDE DEF Halted
  <2> QED
    BY <1>20, <2>1 DEF LaunchReady
<1>21. ASSUME LaunchRefused
      PROVE  Power'
  <2>1. Has(Halted)' <=> Has(Halted)
    BY <1>21 DEF LaunchRefused, Has
  <2> HIDE DEF Halted
  <2> QED
    BY <1>21, <2>1 DEF LaunchRefused
<1>22. ASSUME NEW i \in Images, GuestOff(i)
      PROVE  Power'
  <2>1. Has(Halted)' <=> Has(Halted)
    BY <1>22 DEF GuestOff, Has
  <2> HIDE DEF Halted
  <2> QED
    BY <1>22, <2>1 DEF GuestOff
<1>23. ASSUME NEW i \in Images, PlayerWrites(i)
      PROVE  Power'
  <2>1. Has(Halted)' <=> Has(Halted)
    BY <1>23 DEF PlayerWrites, Has
  <2> HIDE DEF Halted
  <2> QED
    BY <1>23, <2>1 DEF PlayerWrites
<1>24. ASSUME NEW i \in Images, PlayerEnds(i)
      PROVE  Power'
  <2>1. Has(Halted)' <=> Has(Halted)
    BY <1>24 DEF PlayerEnds, Delete, Has
  <2> HIDE DEF Halted
  <2> QED
    BY <1>24, <2>1 DEF PlayerEnds, Delete
<1>25. ASSUME UNCHANGED vars
      PROVE  Power'
  <2>1. Has(Halted)' <=> Has(Halted)
    BY <1>25 DEF vars, Has
  <2> HIDE DEF Halted
  <2> QED
    BY <1>25, <2>1 DEF vars
<1> QED
  BY <1>1, <1>2, <1>3, <1>4, <1>5, <1>6, <1>7, <1>8, <1>9, <1>10, <1>11, <1>12, <1>13, <1>14,
     <1>15, <1>16, <1>17, <1>18, <1>19, <1>20, <1>21, <1>22, <1>23, <1>24, <1>25, Effects
     DEF Effect, Worker, External

-----------------------------------------------------------------------------
(* When every key opens its descriptor.                                    *)

\* The two paths are one image's except inside launchVM, and every copy of a descriptor is
\* the one of the image it is kept for.
OwnFiles ==
    /\ lv_strDecryptVmx = IF caller = None THEN lv_strVMX ELSE caller
    /\ \A i \in Images : vml[i] \in {None, i} /\ player[i] \in {None, i}
    /\ OwnDescriptor

\* A halt writes a descriptor back only while launchVM is not changing the paths, whatever
\* command was overwritten.
LEMMA OwnFilesStep ==
    ASSUME Base, OwnFiles, "decrypt" \notin Faults, [PageNext]_allVars
    PROVE  OwnFiles'
<1> USE NoneAssumption DEF HaltSteps, Base, ManagerTypeOK, HaltsAlone, HandleSteps, OwnFiles,
           OwnDescriptor, mgrVars, callVars, workerVars, pathVars, vmVars, fileVars
<1>1. ASSUME Launches
      PROVE  OwnFiles'
  BY <1>1 DEF Launches, Launch, LaunchBegin, Enabled_, Pumping
<1>2. ASSUME Names
      PROVE  OwnFiles'
  BY <1>2 DEF Names, NameOnly
<1>3. ASSUME Halts
      PROVE  OwnFiles'
  BY <1>3 DEF Halts, Asked
<1>4. ASSUME ReadsReport
      PROVE  OwnFiles'
  BY <1>4 DEF ReadsReport
<1>5. ASSUME ReadsHalted
      PROVE  OwnFiles'
  BY <1>5 DEF ReadsHalted
<1>6. ASSUME ReadsAsk
      PROVE  OwnFiles'
  BY <1>6 DEF ReadsAsk, Asked
<1>7. ASSUME Posts
      PROVE  OwnFiles'
  BY <1>7 DEF Posts
<1>8. ASSUME Overrides
      PROVE  OwnFiles'
  BY <1>8 DEF Overrides, Request
<1>9. ASSUME Wake
      PROVE  OwnFiles'
  BY <1>9 DEF Wake
<1>10. ASSUME Dispatch
      PROVE  OwnFiles'
  BY <1>10 DEF Dispatch
<1>11. ASSUME LaunchRelease
      PROVE  OwnFiles'
  BY <1>11 DEF LaunchRelease
<1>12. ASSUME LaunchOpen
      PROVE  OwnFiles'
  BY <1>12 DEF LaunchOpen, Decrypted
<1>13. ASSUME LaunchPowerOn
      PROVE  OwnFiles'
  BY <1>13 DEF LaunchPowerOn, Goto
<1>14. ASSUME LaunchDone
      PROVE  OwnFiles'
  BY <1>14 DEF LaunchDone, Delete
<1>15. ASSUME HaltPowerOff
      PROVE  OwnFiles'
  BY <1>15 DEF HaltPowerOff
<1>16. ASSUME HaltDrop
      PROVE  OwnFiles'
  BY <1>16 DEF HaltDrop
<1>17. ASSUME HaltEncrypt
      PROVE  OwnFiles'
  BY <1>17 DEF HaltEncrypt, Goto, Delete, Decrypted
<1>18. ASSUME HaltDone
      PROVE  OwnFiles'
  BY <1>18 DEF HaltDone
<1>19. ASSUME Clear
      PROVE  OwnFiles'
  BY <1>19 DEF Clear
<1>20. ASSUME LaunchReady
      PROVE  OwnFiles'
  BY <1>20 DEF LaunchReady
<1>21. ASSUME LaunchRefused
      PROVE  OwnFiles'
  BY <1>21 DEF LaunchRefused
<1>22. ASSUME NEW i \in Images, GuestOff(i)
      PROVE  OwnFiles'
  BY <1>22 DEF GuestOff
<1>23. ASSUME NEW i \in Images, PlayerWrites(i)
      PROVE  OwnFiles'
  BY <1>23 DEF PlayerWrites
<1>24. ASSUME NEW i \in Images, PlayerEnds(i)
      PROVE  OwnFiles'
  BY <1>24 DEF PlayerEnds, Delete
<1>25. ASSUME UNCHANGED vars
      PROVE  OwnFiles'
  BY <1>25 DEF vars
<1> QED
  BY <1>1, <1>2, <1>3, <1>4, <1>5, <1>6, <1>7, <1>8, <1>9, <1>10, <1>11, <1>12, <1>13, <1>14,
     <1>15, <1>16, <1>17, <1>18, <1>19, <1>20, <1>21, <1>22, <1>23, <1>24, <1>25, Effects
     DEF Effect, Worker, External

-----------------------------------------------------------------------------
(* The page's own variables.                                               *)

StackOK(s) == s \in Seq(Boxes \X (Monitors \cup {None})) /\ Len(s) <= MaxDepth

\* A box opens only while there is room for it.
LEMMA Opened ==
    ASSUME StackOK(stack), NEW b \in Boxes, NEW e \in Monitors \cup {None}, Open(b, e)
    PROVE  StackOK(stack')
BY MaxDepthAssumption DEF StackOK, Open

\* Answering the innermost box leaves the ones it was opened over.
LEMMA Rest ==
    ASSUME StackOK(stack), stack # <<>>
    PROVE  StackOK(SubSeq(stack, 1, Len(stack) - 1))
<1> DEFINE S == Boxes \X (Monitors \cup {None})
           n == Len(stack) - 1
           r == SubSeq(stack, 1, n)
<1>1. stack \in Seq(S) /\ Len(stack) <= MaxDepth
  BY DEF StackOK
<1> HIDE DEF S
<1>2. /\ n \in Nat
      /\ n <= MaxDepth
      /\ \A i \in 1 .. n : stack[i] \in S
  BY <1>1, MaxDepthAssumption
<1> HIDE DEF n
<1>3. r \in Seq(S) /\ Len(r) = IF 1 <= n THEN n - 1 + 1 ELSE 0
  BY <1>2, SubSeqProperties
<1> HIDE DEF r
<1>4. Len(r) = n
  BY <1>2, <1>3
<1>5. StackOK(r)
  BY <1>2, <1>3, <1>4 DEF StackOK, S
<1> QED
  BY <1>5 DEF r, n

\* So does the handler of its answer.
LEMMA Closed ==
    ASSUME StackOK(stack), NEW b, Close(b)
    PROVE  StackOK(stack')
BY Rest DEF Close

\* An answer that closes the launcher, or asks about the virtual machine that runs.
LEMMA Cancelled ==
    ASSUME NEW s, StackOK(s), OnCancel(s)
    PROVE  StackOK(stack') /\ page' \in {page, "exit"}
<1>1. StackOK(<<>>)
  BY MaxDepthAssumption DEF StackOK
<1>2. CASE isRunning
  <2>1. <<"close", None>> \in Boxes \X (Monitors \cup {None})
    BY DEF Boxes
  <2> QED
    BY <1>2, <2>1, MaxDepthAssumption DEF OnCancel, StackOK
<1>3. CASE ~isRunning
  BY <1>1, <1>3 DEF OnCancel
<1> QED
  BY <1>2, <1>3

PageTypes ==
    /\ page \in {"main", "login", "exit"}
    /\ StackOK(stack)
    /\ sel \in Images \cup {None}
    /\ _nReason \in Afters
    /\ monitor \in [Monitors -> MonitorSteps]
    /\ lv_thdEnvironment \in Monitors \cup {None}
    /\ timer \in BOOLEAN
    /\ deleted \subseteq Images
    /\ overtaken \in BOOLEAN

\* PageTypes is PageTypeOK with the boxes under one name.
LEMMA PageTypesSame == PageTypes <=> PageTypeOK
BY DEF PageTypes, PageTypeOK, StackOK

\* The reason of a halt is one of those its callers give.
LEMMA StopReason ==
    ASSUME _nReason \in Afters, overtaken \in BOOLEAN, NEW c, NEW r \in Reasons,
           onAfterStopVM(c, r)
    PROVE  _nReason' \in Afters /\ overtaken' \in BOOLEAN
<1>1. After[r] \in Afters
  BY DEF After, Afters, Reasons
<1>2. CASE isWorking
  BY <1>2 DEF onAfterStopVM
<1>3. CASE ~isWorking
  BY <1>1, <1>3 DEF onAfterStopVM
<1> QED
  BY <1>2, <1>3

\* Every step of the page keeps its own variables in their types.
LEMMA PageTypeStep ==
    ASSUME PageTypes, [PageNext]_allVars
    PROVE  PageTypes'
<1> USE DEF PageTypes, haltVars
<1>1. ASSUME NEW i \in Images, Start(i)
      PROVE  PageTypes'
  <2>1. "running" \in Boxes
    BY DEF Boxes
  <2>2. StackOK(stack')
    BY <1>1, <2>1, Opened DEF Start
  <2> QED
    BY <1>1, <2>2 DEF Start
<1>2. ASSUME NEW b \in {"logout", "update"}, Confirm(b)
      PROVE  PageTypes'
  <2>1. b \in Boxes
    BY DEF Boxes
  <2>2. StackOK(stack')
    BY <1>2, <2>1, Opened DEF Confirm
  <2> QED
    BY <1>2, <2>2 DEF Confirm
<1>3. ASSUME CloseClicked
      PROVE  PageTypes'
  BY <1>3, Cancelled DEF CloseClicked
<1>4. ASSUME Login
      PROVE  PageTypes'
  BY <1>4 DEF Login
<1>5. ASSUME NEW b, NEW r \in Reasons, AnswerHalt(b, r)
      PROVE  PageTypes'
  <2>1. StackOK(stack') /\ _nReason' \in Afters /\ overtaken' \in BOOLEAN
    BY <1>5, Closed, StopReason DEF AnswerHalt
  <2> QED
    BY <1>5, <2>1 DEF AnswerHalt
<1>6. ASSUME AnswerLogout \/ AnswerUpdate \/ AnswerLaunchFailed
      PROVE  PageTypes'
  <2>1. {"logout", "client_update", "client_force_stop", "fail_launch"} \subseteq Reasons
    BY DEF Reasons, After
  <2>2. StackOK(stack') /\ _nReason' \in Afters /\ overtaken' \in BOOLEAN
    BY <1>6, <2>1, Closed, StopReason DEF AnswerLogout, AnswerUpdate, AnswerLaunchFailed
  <2> QED
    BY <1>6, <2>2 DEF AnswerLogout, AnswerUpdate, AnswerLaunchFailed
<1>7. ASSUME AnswerIdle
      PROVE  PageTypes'
  <2>1. "expire_idle_vm" \in Reasons
    BY DEF Reasons, After
  <2>2. StackOK(stack') /\ _nReason' \in Afters /\ overtaken' \in BOOLEAN
    BY <1>7, <2>1, Closed, StopReason DEF AnswerIdle
  <2>3. monitor' \in [Monitors -> MonitorSteps]
    BY <1>7 DEF AnswerIdle, MonitorSteps
  <2> QED
    BY <1>7, <2>2, <2>3 DEF AnswerIdle
<1>8. ASSUME AnswerKClient
      PROVE  PageTypes'
  BY <1>8, Rest, Cancelled DEF AnswerKClient
<1>9. ASSUME AnswerSession
      PROVE  PageTypes'
  BY <1>9, Closed DEF AnswerSession
<1>10. ASSUME OnLaunched
       PROVE  PageTypes'
  BY <1>10 DEF OnLaunched, MonitorSteps
<1>11. ASSUME OnLaunchFailed
       PROVE  PageTypes'
  <2>1. "launchFailed" \in Boxes
    BY DEF Boxes
  <2>2. StackOK(stack')
    BY <1>11, <2>1, Opened DEF OnLaunchFailed
  <2> QED
    BY <1>11, <2>2 DEF OnLaunchFailed
<1>12. ASSUME NEW m \in DOMAIN Asks, OnAsk(m)
       PROVE  PageTypes'
  <2>1. Asks[m][2] \in Reasons
    BY DEF Asks, Reasons, After
  <2>2. _nReason' \in Afters /\ overtaken' \in BOOLEAN
    BY <1>12, <2>1, StopReason DEF OnAsk
  <2> QED
    BY <1>12, <2>2 DEF OnAsk
<1>13. ASSUME NEW m \in Halted, OnHalted(m)
       PROVE  PageTypes'
  <2>1. monitor' \in [Monitors -> MonitorSteps]
    BY <1>13 DEF OnHalted, MonitorSteps
  <2>2. StackOK(stack') /\ page' \in {"main", "login", "exit"} /\ deleted' \subseteq Images
    <3>1. StackOK(<<>>)
      BY MaxDepthAssumption DEF StackOK
    <3>2. "kclient" \in Boxes
      BY DEF Boxes
    <3>3. AfterReason
      BY <1>13 DEF OnHalted
    <3>4. Open("kclient", None) => StackOK(stack')
      BY <3>2, Opened
    <3> QED
      BY <3>1, <3>3, <3>4 DEF AfterReason
  <2> QED
    BY <1>13, <2>1, <2>2 DEF OnHalted
<1>14. ASSUME Tick
       PROVE  PageTypes'
  BY <1>14 DEF Tick
<1>15. ASSUME OnSessionInvalid
       PROVE  PageTypes'
  <2>1. "session" \in Boxes
    BY DEF Boxes
  <2>2. StackOK(stack')
    BY <1>15, <2>1, Opened DEF OnSessionInvalid
  <2> QED
    BY <1>15, <2>2 DEF OnSessionInvalid
<1>16. ASSUME NEW e \in Monitors, MonitorSeesStop(e) \/ MonitorAdvance(e) \/ MonitorNoAgent(e)
       PROVE  PageTypes'
  BY <1>16 DEF MonitorSeesStop, MonitorAdvance, MonitorNoAgent, Becomes, MonitorSteps
<1>17. ASSUME NEW e \in Monitors, OnIdleTimeout(e)
       PROVE  PageTypes'
  <2>1. "idle" \in Boxes
    BY DEF Boxes
  <2>2. StackOK(stack')
    BY <1>17, <2>1, Opened DEF OnIdleTimeout
  <2> QED
    BY <1>17, <2>2 DEF OnIdleTimeout
<1>18. ASSUME NEW e \in Monitors, OnViolation(e)
       PROVE  PageTypes'
  <2>1. {"violation_delete", "violation_logout"} \subseteq Reasons
    BY DEF Reasons, After
  <2>2. _nReason' \in Afters /\ overtaken' \in BOOLEAN
    BY <1>18, <2>1, StopReason DEF OnViolation
  <2>3. monitor' \in [Monitors -> MonitorSteps]
    BY <1>18 DEF OnViolation, Becomes, MonitorSteps
  <2> QED
    BY <1>18, <2>2, <2>3 DEF OnViolation
<1>19. ASSUME Manager \/ Vmware \/ UNCHANGED allVars
       PROVE  PageTypes'
  BY <1>19 DEF Manager, Vmware, pageVars, allVars
<1>20. CASE UserInput
  BY <1>20, <1>1, <1>2, <1>3, <1>4 DEF UserInput
<1>21. CASE Answer
  <2>1. {"user_control", "client_force_stop"} \subseteq Reasons
    BY DEF Reasons, After
  <2> QED
    BY <1>21, <2>1, <1>5, <1>6, <1>7, <1>8, <1>9 DEF Answer
<1>22. CASE Message
  BY <1>22, <1>10, <1>11, <1>12, <1>13 DEF Message, Halted
<1>23. CASE Monitoring
  BY <1>23, <1>16, <1>17, <1>18 DEF Monitoring
<1> QED
  BY <1>14, <1>15, <1>19, <1>20, <1>21, <1>22, <1>23 DEF PageNext

-----------------------------------------------------------------------------
(* Leaving and deleting.                                                   *)

\* A machine that isRunning() does not see is off.
LEMMA OffWhenNotRunning ==
    ASSUME Power, ~isRunning
    PROVE  powered = {}
BY DEF Power, NoOrphan, isRunning

\* A handler of a halt's end finds its message in the queue.
LEMMA HaltedHead ==
    ASSUME Base, NEW m \in Halted, OnHalted(m)
    PROVE  Has(Halted)
<1>1. msgs \in Seq(Messages) /\ msgs # <<>> /\ msgs' = Tail(msgs) /\ Head(msgs) \in Halted
  BY DEF Base, ManagerTypeOK, OnHalted, Take
<1> QED
  BY <1>1, HasRead

\* The page becomes "exit" in OnCancel, which asks isRunning(), and after a halt.
LEMMA ExitStep ==
    ASSUME Base, Power, [PageNext]_allVars, page # "exit", page' = "exit"
    PROVE  powered = {}
<1>1. ASSUME NEW s, OnCancel(s)
      PROVE  powered = {}
  BY <1>1, OffWhenNotRunning DEF OnCancel
<1>2. CASE UserInput
  BY <1>1, <1>2 DEF UserInput, Start, Confirm, CloseClicked, Login
<1>3. CASE Answer
  BY <1>1, <1>3
     DEF Answer, AnswerHalt, AnswerLogout, AnswerUpdate, AnswerLaunchFailed, AnswerIdle,
         AnswerKClient, AnswerSession
<1>4. CASE Message
  <2>1. ASSUME NEW m \in Halted, OnHalted(m)
        PROVE  powered = {}
    BY <2>1, HaltedHead DEF Power
  <2> QED
    BY <1>4, <2>1 DEF Message, OnLaunched, OnLaunchFailed, OnAsk, Halted
<1>5. CASE Monitoring
  BY <1>5 DEF Monitoring, MonitorSeesStop, MonitorAdvance, MonitorNoAgent, OnIdleTimeout,
              OnViolation
<1>6. CASE Tick \/ OnSessionInvalid
  BY <1>6 DEF Tick, OnSessionInvalid
<1>7. CASE Manager \/ Vmware \/ UNCHANGED allVars
  BY <1>7 DEF Manager, Vmware, allVars, pageVars
<1> QED
  BY <1>2, <1>3, <1>4, <1>5, <1>6, <1>7 DEF PageNext

\* Directories are deleted after a halt only.
LEMMA DeleteStep ==
    ASSUME Base, Power, [PageNext]_allVars, deleted' # deleted
    PROVE  lv_handleVM = None /\ powered = {}
<1>1. CASE UserInput
  BY <1>1 DEF UserInput, Start, Confirm, CloseClicked, Login
<1>2. CASE Answer
  BY <1>2 DEF Answer, AnswerHalt, AnswerLogout, AnswerUpdate, AnswerLaunchFailed, AnswerIdle,
              AnswerKClient, AnswerSession
<1>3. CASE Message
  <2>1. ASSUME NEW m \in Halted, OnHalted(m)
        PROVE  lv_handleVM = None /\ powered = {}
    BY <2>1, HaltedHead DEF Power, Base, HaltsAlone
  <2> QED
    BY <1>3, <2>1 DEF Message, OnLaunched, OnLaunchFailed, OnAsk, Halted
<1>4. CASE Monitoring
  BY <1>4 DEF Monitoring, MonitorSeesStop, MonitorAdvance, MonitorNoAgent, OnIdleTimeout,
              OnViolation
<1>5. CASE Tick \/ OnSessionInvalid
  BY <1>5 DEF Tick, OnSessionInvalid
<1>6. CASE Manager \/ Vmware \/ UNCHANGED allVars
  BY <1>6 DEF Manager, Vmware, allVars, pageVars
<1> QED
  BY <1>1, <1>2, <1>3, <1>4, <1>5, <1>6 DEF PageNext

-----------------------------------------------------------------------------
(* The page as a window of the manager.                                    *)

\* The manager's messages among all of them.
Seen == Selected(msgs, FromManager)

\* What the manager posted is decided by the queue alone.
LEMMA SeenSame ==
    ASSUME msgs' = msgs
    PROVE  Seen' = Seen
BY DEF Seen

\* A message of the manager is appended to what it posted, within the same bound.
LEMMA PostSeen ==
    ASSUME msgs \in Seq(Messages), NEW m \in FromManager, Post(m)
    PROVE  Len(Seen) < MaxMsgs /\ Seen' = Append(Seen, m)
<1>1. Seen \in Seq(FromManager) /\ Len(Seen) <= Len(msgs)
  BY SelectedType DEF Seen
<1>2. Len(Seen) \in Nat /\ Len(msgs) \in Nat
  BY <1>1
<1>3. Len(Seen) < MaxMsgs
  BY <1>1, <1>2, MaxMsgsAssumption DEF Post
<1>4. m \in Messages
  BY DEF Messages
<1>5. Selected(Append(msgs, m), FromManager) = Append(Seen, m)
  BY <1>4, SelectedAppend DEF Seen
<1> QED
  BY <1>3, <1>5 DEF Post, Seen

\* A message of another thread goes unseen.
LEMMA PostUnseen ==
    ASSUME msgs \in Seq(Messages), NEW m \in DOMAIN Asks, Post(m)
    PROVE  Seen' = Seen
<1>1. m \in Messages /\ m \notin FromManager
  BY DEF Messages, Asks, FromManager
<1>2. Selected(Append(msgs, m), FromManager) = Seen
  BY <1>1, SelectedAppend DEF Seen
<1> QED
  BY <1>2 DEF Post, Seen

\* A message of the manager is read as the first it posted.
LEMMA ReadSeen ==
    ASSUME msgs \in Seq(Messages), Reads(FromManager)
    PROVE  Seen # <<>> /\ Head(Seen) = Head(msgs) /\ Seen' = Tail(Seen)
BY SelectedTail DEF Reads, Seen

\* Reading a message of another thread goes unseen.
LEMMA ReadUnseen ==
    ASSUME msgs \in Seq(Messages), Reads(DOMAIN Asks)
    PROVE  Seen' = Seen
<1>1. Head(msgs) \notin FromManager
  BY DEF Reads, Asks, FromManager
<1> QED
  BY <1>1, SelectedTail DEF Reads, Seen

\* Every step of a page whose session holds is a step of the manager with its window, or
\* leaves the manager and what it posted alone.
LEMMA ManagerStep ==
    ASSUME ManagerTypeOK, SessionDrops = FALSE, [PageNext]_allVars
    PROVE  [Mgr!Next]_Mgr!vars
<1> USE DEF Mgr!Next, Mgr!Window, Mgr!Worker, Mgr!External, Mgr!vars, Mgr!isWorking,
            Mgr!callVars, Mgr!workerVars, Mgr!pathVars, Mgr!vmVars, Mgr!fileVars,
            isWorking, mgrVars, callVars, workerVars, pathVars, vmVars, fileVars
<1>0. msgs \in Seq(Messages)
  BY DEF ManagerTypeOK
<1>1. ASSUME Launches
      PROVE  Mgr!Next
  BY <1>1, SeenSame DEF Launches, Launch, LaunchBegin, Mgr!Launch, Mgr!LaunchBegin, Seen
<1>2. ASSUME Names
      PROVE  Mgr!Next
  BY <1>2, SeenSame DEF Names, NameOnly, Mgr!NameOnly, Seen
<1>3. ASSUME Asked, caller = None, Seen' = Seen
      PROVE  Mgr!Next
  BY <1>3 DEF Asked, Mgr!Halt, Mgr!Request, Seen
<1>4. ASSUME Halts
      PROVE  Mgr!Next
  BY <1>4, <1>3, SeenSame DEF Halts, Pumping
<1>5. ASSUME ReadsReport
      PROVE  Mgr!Next
  <2>1. Reads(FromManager) /\ Head(msgs) \notin Halted
    BY <1>5 DEF ReadsReport, Reads, FromManager, Halted
  <2>2. Seen # <<>> /\ Head(Seen) = Head(msgs) /\ Seen' = Tail(Seen)
    BY <1>0, <2>1, ReadSeen
  <2>3. Mgr!ReadMessage
    BY <1>5, <2>1, <2>2 DEF ReadsReport, Reads, Pumping, Mgr!ReadMessage, Seen, Halted
  <2> QED
    BY <2>3
<1>6. ASSUME ReadsHalted
      PROVE  Mgr!Next
  <2>1. Reads(FromManager) /\ Head(msgs) \in Halted
    BY <1>6 DEF ReadsHalted, Reads, FromManager, Halted
  <2>2. Seen # <<>> /\ Head(Seen) = Head(msgs) /\ Seen' = Tail(Seen)
    BY <1>0, <2>1, ReadSeen
  <2>3. Mgr!ReadMessage
    BY <1>6, <2>1, <2>2 DEF ReadsHalted, Reads, Pumping, Mgr!ReadMessage, Seen, Halted
  <2> QED
    BY <2>3
<1>7. ASSUME UNCHANGED mgrVars, Seen' = Seen
      PROVE  UNCHANGED Mgr!vars
  BY <1>7 DEF Seen
<1>8. ASSUME ReadsAsk
      PROVE  [Mgr!Next]_Mgr!vars
  <2>1. Seen' = Seen
    BY <1>0, <1>8, ReadUnseen DEF ReadsAsk
  <2> QED
    BY <1>3, <1>7, <1>8, <2>1 DEF ReadsAsk, Reads, Pumping
<1>9. ASSUME Posts
      PROVE  UNCHANGED Mgr!vars
  BY <1>0, <1>7, <1>9, PostUnseen DEF Posts
<1>10. ~Overrides
  BY DEF Overrides
<1>11. ASSUME LaunchReady \/ LaunchRefused
       PROVE  Mgr!Next
  BY <1>11, SeenSame DEF LaunchReady, LaunchRefused, Mgr!LaunchReady, Mgr!LaunchRefused, Seen
<1>12. ASSUME Wake \/ Dispatch \/ LaunchRelease \/ LaunchOpen \/ LaunchPowerOn
       PROVE  Mgr!Next
  <2>1. Mgr!Wake \/ Mgr!Dispatch \/ Mgr!LaunchRelease \/ Mgr!LaunchOpen \/ Mgr!LaunchPowerOn
    BY <1>12, SeenSame
       DEF Wake, Dispatch, LaunchRelease, LaunchOpen, LaunchPowerOn, Goto, Decrypted,
           Mgr!Wake, Mgr!Dispatch, Mgr!LaunchRelease, Mgr!LaunchOpen, Mgr!LaunchPowerOn,
           Mgr!Goto, Mgr!Decrypted, Seen
  <2> QED
    BY <2>1
<1>13. ASSUME HaltPowerOff \/ HaltDrop \/ HaltEncrypt \/ Clear
       PROVE  Mgr!Next
  <2>1. Mgr!HaltPowerOff \/ Mgr!HaltDrop \/ Mgr!HaltEncrypt \/ Mgr!Clear
    BY <1>13, SeenSame
       DEF HaltPowerOff, HaltDrop, HaltEncrypt, Clear, Goto, Decrypted, Delete,
           Mgr!HaltPowerOff, Mgr!HaltDrop, Mgr!HaltEncrypt, Mgr!Clear, Mgr!Goto,
           Mgr!Decrypted, Mgr!Delete, Seen
  <2> QED
    BY <2>1
<1>14. ASSUME NEW m \in FromManager, Post(m)
       PROVE  Mgr!Post(m)
  BY <1>0, <1>14, PostSeen DEF Mgr!Post, Seen
<1>15. ASSUME LaunchDone \/ HaltDone
       PROVE  Mgr!Next
  <2>1. Mgr!LaunchDone \/ Mgr!HaltDone
    BY <1>14, <1>15
       DEF LaunchDone, HaltDone, Goto, Delete, FromManager,
           Mgr!LaunchDone, Mgr!HaltDone, Mgr!Goto, Mgr!Delete
  <2> QED
    BY <2>1
<1>16. ASSUME NEW i \in Images, GuestOff(i) \/ PlayerWrites(i) \/ PlayerEnds(i)
       PROVE  Mgr!Next
  <2>1. Mgr!GuestOff(i) \/ Mgr!PlayerWrites(i) \/ Mgr!PlayerEnds(i)
    BY <1>16, SeenSame
       DEF GuestOff, PlayerWrites, PlayerEnds, Delete,
           Mgr!GuestOff, Mgr!PlayerWrites, Mgr!PlayerEnds, Mgr!Delete, Seen
  <2> QED
    BY <2>1
<1>17. ASSUME UNCHANGED vars
       PROVE  UNCHANGED Mgr!vars
  BY <1>17, SeenSame DEF vars, Seen
<1> HIDE DEF Mgr!Next, Mgr!vars
<1> QED
  BY <1>1, <1>2, <1>4, <1>5, <1>6, <1>8, <1>9, <1>10, <1>11, <1>12, <1>13, <1>15, <1>16, <1>17,
     Effects DEF Effect, Worker, External

-----------------------------------------------------------------------------
(* A virtual machine that runs is watched.                                 *)

Sought == DOMAIN Asks \cup {"launched"}

\* Somebody polls the virtual machine, or a message is on its way that makes up for it.
Cover == Alive # {} \/ Has(Sought)

\* The worker's last step frees the slot, so that the cover must be there before, unless a
\* request overtook that step; and a
\* launch that is under way or has failed has nothing to be covered.
Watch ==
    /\ lv_handleVM \in powered /\ ~isWorking /\ page # "exit" /\ ~overtaken => Cover
    /\ lv_handleVM \in powered /\ wpc = "clear" /\ page # "exit" /\ ~overtaken => Cover
    /\ lv_nVmProc = "start" /\ wpc \in {"wait", "woken"} => lv_handleVM \notin powered
    /\ wpc = "launchFail" => lv_handleVM \notin powered

\* What the manager's own invariant says of the slot: it is taken exactly while a command
\* is in launchVM, in the event or with the worker, and a launch is carried out under it.
Slot ==
    /\ isWorking <=> caller # None \/ lv_mutexVm \/ wpc # "wait"
    /\ caller # None => wpc = "wait" /\ lv_nVmProc = "start"
    /\ wpc \in LaunchSteps => lv_nVmProc = "start"

\* These follow from the manager's inductive invariant.
LEMMA SlotOfManager ==
    ASSUME MP!IInv
    PROVE  Slot
BY DEF Slot, MP!IInv, MP!Handover, MP!OnTheSlot, MP!isWorking, isWorking, MP!LaunchSteps,
       LaunchSteps

\* A halt under way: the window asked, or heard that a command was in progress, and if that
\* was over but for the clearing of the slot the history has it.
Excused == isWorking' /\ wpc' = wpc /\ (wpc = "clear" => overtaken')

\* A thread that goes leaves a message, a message that is read leaves a thread or a halt.
LEMMA CoverStep ==
    ASSUME Base, PageTypes, Slot, SessionDrops = FALSE, [PageNext]_allVars, Cover
    PROVE  Cover' \/ lv_handleVM' = None \/ Excused
<1>0. msgs \in Seq(Messages) /\ monitor \in [Monitors -> MonitorSteps]
  BY DEF Base, ManagerTypeOK, PageTypes
<1>1. ASSUME \A e \in Monitors : monitor[e] # "none" => monitor'[e] # "none",
             Has(Sought) => Has(Sought)'
      PROVE  Cover'
  BY <1>1 DEF Cover, Alive
<1>2. ASSUME UNCHANGED <<monitor, msgs>>
      PROVE  Cover'
  BY <1>2 DEF Cover, Alive, Has
<1>3. ASSUME NEW c \in {"stop", "suspend"}, NEW r, onAfterStopVM(c, r)
      PROVE  Excused
  BY <1>3 DEF onAfterStopVM, Excused, Slot, isWorking, mgrVars, callVars, workerVars
<1>4. ASSUME NEW m \in DOMAIN Asks, Post(m)
      PROVE  Cover'
  <2>1. m \in Messages /\ m \in Sought /\ msgs' = Append(msgs, m)
    BY <1>4 DEF Messages, Sought, Post
  <2>2. Has(Sought)'
    BY <1>0, <2>1, HasPosted
  <2> QED
    BY <2>2 DEF Cover
<1>5. CASE UserInput
  <2>1. UNCHANGED <<monitor, msgs>>
    BY <1>5 DEF UserInput, Start, LaunchBegin, Confirm, CloseClicked, Login, vars
  <2> QED
    BY <1>2, <2>1
<1>6. CASE Answer
  <2>1. ASSUME AnswerIdle
        PROVE  Cover' \/ Excused
    <3>1. ASSUME monitor' = [monitor EXCEPT ![Waiter] = IF @ = "idle" THEN "poll" ELSE @],
                 msgs' = msgs
          PROVE  Cover'
      <4>1. \A e \in Monitors : monitor[e] # "none" => monitor'[e] # "none"
        BY <1>0, <3>1
      <4>2. Has(Sought) => Has(Sought)'
        BY <3>1 DEF Has
      <4> QED
        BY <1>1, <4>1, <4>2
    <3> QED
      BY <2>1, <3>1, <1>3 DEF AnswerIdle, Close
  <2>2. ASSUME ~AnswerIdle
        PROVE  UNCHANGED <<monitor, msgs>>
    BY <1>6, <2>2 DEF Answer, AnswerHalt, AnswerLogout, AnswerUpdate, AnswerLaunchFailed,
                      AnswerKClient, AnswerSession, vars
  <2> QED
    BY <1>2, <2>1, <2>2
<1>7. CASE Message
  <2>1. ASSUME OnLaunched
        PROVE  Cover'
    BY <1>0, <2>1 DEF OnLaunched, Cover, Alive
  <2>2. ASSUME OnLaunchFailed
        PROVE  Cover'
    <3>1. msgs # <<>> /\ msgs' = Tail(msgs) /\ Head(msgs) \notin Sought
      BY <2>2 DEF OnLaunchFailed, Take, Sought, Asks
    <3>2. Has(Sought) => Has(Sought)'
      BY <1>0, <3>1, HasRead
    <3> QED
      BY <1>1, <2>2, <3>2 DEF OnLaunchFailed
  <2>3. ASSUME NEW m \in DOMAIN Asks, OnAsk(m)
        PROVE  Excused
    <3>1. Asks[m][1] \in {"stop", "suspend"}
      BY DEF Asks
    <3> QED
      BY <1>3, <2>3, <3>1 DEF OnAsk, Take
  <2>4. ASSUME NEW m \in Halted, OnHalted(m)
        PROVE  lv_handleVM' = None
    BY <2>4, HaltedHead DEF Base, HaltsAlone, OnHalted
  <2> QED
    BY <1>7, <2>1, <2>2, <2>3, <2>4 DEF Message, Halted
<1>8. CASE Tick
  BY <1>8, <1>4 DEF Tick, Asks
<1>9. CASE Monitoring
  <2>1. ASSUME NEW e \in Monitors, MonitorSeesStop(e) \/ MonitorNoAgent(e)
        PROVE  Cover'
    BY <2>1, <1>4 DEF MonitorSeesStop, MonitorNoAgent, Asks
  <2>2. ASSUME NEW e \in Monitors, MonitorAdvance(e) \/ OnViolation(e)
        PROVE  Cover'
    <3>1. \A d \in Monitors : monitor[d] # "none" => monitor'[d] # "none"
      BY <1>0, <2>2 DEF MonitorAdvance, OnViolation, Becomes
    <3>2. msgs' = msgs
      BY <2>2 DEF MonitorAdvance, OnViolation, vars
    <3> QED
      BY <1>1, <3>1, <3>2 DEF Has
  <2>3. ASSUME NEW e \in Monitors, OnIdleTimeout(e)
        PROVE  Cover'
    BY <2>3, <1>2 DEF OnIdleTimeout, vars
  <2> QED
    BY <1>9, <2>1, <2>2, <2>3 DEF Monitoring
<1>10. CASE Manager \/ Vmware \/ UNCHANGED allVars
  <2>1. UNCHANGED monitor
    BY <1>10 DEF Manager, Vmware, allVars, pageVars
  <2>2. ASSUME NEW m \in Messages, msgs' = Append(msgs, m)
        PROVE  Has(Sought) => Has(Sought)'
    BY <1>0, <2>2, HasPosted
  <2>3. ASSUME Manager
        PROVE  msgs' = msgs \/ \E m \in Messages : msgs' = Append(msgs, m)
    <3>1. {"launched", "launchFailed", "stopped", "suspended"} \subseteq Messages
      BY DEF Messages, FromManager
    <3>2. ASSUME LaunchDone \/ HaltDone
          PROVE  \E m \in Messages : msgs' = Append(msgs, m)
      BY <3>1, <3>2 DEF LaunchDone, HaltDone, Post
    <3>3. ASSUME Wake \/ Dispatch \/ LaunchRelease \/ LaunchOpen \/ LaunchPowerOn
                 \/ HaltPowerOff \/ HaltDrop \/ HaltEncrypt \/ Clear
                 \/ LaunchReady \/ LaunchRefused
          PROVE  msgs' = msgs
      BY <3>3 DEF Wake, Dispatch, LaunchRelease, LaunchOpen, LaunchPowerOn, HaltPowerOff,
                  HaltDrop, HaltEncrypt, Clear, LaunchReady, LaunchRefused
    <3> QED
      BY <2>3, <3>2, <3>3 DEF Manager, Worker
  <2>4. ASSUME Vmware \/ UNCHANGED allVars
        PROVE  msgs' = msgs
    BY <2>4 DEF Vmware, External, GuestOff, PlayerWrites, PlayerEnds, allVars, vars
  <2> QED
    BY <1>1, <1>10, <2>1, <2>2, <2>3, <2>4 DEF Has
<1>11. ~OnSessionInvalid
  BY DEF OnSessionInvalid
<1> QED
  BY <1>5, <1>6, <1>7, <1>8, <1>9, <1>10, <1>11 DEF PageNext

\* The page, once closed, stays closed.
LEMMA ExitIsFinal ==
    ASSUME [PageNext]_allVars, page' # "exit"
    PROVE  page # "exit"
<1>1. CASE UserInput
  BY <1>1 DEF UserInput, Start, Confirm, CloseClicked, Login, Enabled_, Pumping
<1>2. CASE Answer
  BY <1>2 DEF Answer, AnswerHalt, AnswerLogout, AnswerUpdate, AnswerLaunchFailed, AnswerIdle,
              AnswerKClient, AnswerSession, Close, Pumping
<1>3. CASE Message
  BY <1>3 DEF Message, OnLaunched, OnLaunchFailed, OnAsk, OnHalted, Take, Pumping
<1>4. CASE Monitoring
  BY <1>4 DEF Monitoring, MonitorSeesStop, MonitorAdvance, MonitorNoAgent, OnIdleTimeout,
              OnViolation, Pumping
<1>5. CASE Tick \/ OnSessionInvalid \/ Manager
  BY <1>5 DEF Tick, OnSessionInvalid, Manager, Pumping
<1>6. CASE Vmware \/ UNCHANGED allVars
  BY <1>6 DEF Vmware, allVars, pageVars
<1> QED
  BY <1>1, <1>2, <1>3, <1>4, <1>5, <1>6 DEF PageNext

\* What overtook the clearing of the slot is forgotten only for a halt that is carried out.
LEMMA OvertakenStep ==
    ASSUME Slot, SessionDrops = FALSE, [PageNext]_allVars, overtaken, ~overtaken'
    PROVE  isWorking' /\ wpc' = "wait"
<1> USE DEF haltVars
<1>1. ASSUME NEW c \in {"stop", "suspend"}, NEW r, onAfterStopVM(c, r)
      PROVE  isWorking' /\ wpc' = "wait"
  BY <1>1 DEF onAfterStopVM, Slot, isWorking, workerVars
<1>2. CASE UserInput
  BY <1>2 DEF UserInput, Start, Confirm, CloseClicked, Login
<1>3. CASE Answer
  BY <1>1, <1>3
     DEF Answer, AnswerHalt, AnswerLogout, AnswerUpdate, AnswerLaunchFailed, AnswerIdle,
         AnswerKClient, AnswerSession
<1>4. CASE Message
  <2>1. ASSUME NEW m \in DOMAIN Asks, OnAsk(m)
        PROVE  isWorking' /\ wpc' = "wait"
    <3>1. Asks[m][1] \in {"stop", "suspend"}
      BY DEF Asks
    <3> QED
      BY <1>1, <2>1, <3>1 DEF OnAsk
  <2> QED
    BY <1>4, <2>1 DEF Message, OnLaunched, OnLaunchFailed, OnHalted
<1>5. CASE Monitoring
  BY <1>1, <1>5 DEF Monitoring, MonitorSeesStop, MonitorAdvance, MonitorNoAgent, OnIdleTimeout,
                    OnViolation
<1>6. CASE Tick \/ OnSessionInvalid
  BY <1>6 DEF Tick, OnSessionInvalid
<1>7. CASE Manager \/ Vmware \/ UNCHANGED allVars
  BY <1>7 DEF Manager, Vmware, allVars, pageVars
<1> QED
  BY <1>2, <1>3, <1>4, <1>5, <1>6, <1>7 DEF PageNext

\* A power-on that may fail fails over no machine that is on.
PowersOnce == wpc = "powerOn" /\ "powerOn" \in Faults => powered = {}

\* The cover is there when the slot becomes free, and stays until the slot is taken.
LEMMA WatchStep ==
    ASSUME Base, PageTypes, Slot, Slot', Watch, PowersOnce,
           SessionDrops = FALSE, [PageNext]_allVars
    PROVE  Watch'
<1>a. Cover => \/ Cover' \/ lv_handleVM' = None
               \/ isWorking' /\ wpc' = wpc /\ (wpc = "clear" => overtaken')
  BY CoverStep DEF Excused
<1>c. overtaken => overtaken' \/ (isWorking' /\ wpc' = "wait")
  BY OvertakenStep
<1>b. page' # "exit" => page # "exit"
  BY ExitIsFinal
<1> USE NoneAssumption DEF isWorking, Pumping, Commands, LaunchSteps, HaltSteps, WorkerSteps,
           Base, ManagerTypeOK, HandleSteps, HaltsAlone, Slot, Watch, PowersOnce,
           mgrVars, callVars, workerVars, pathVars, vmVars, fileVars
<1>1. ASSUME Launches
      PROVE  Watch'
  BY <1>1, <1>a, <1>b, <1>c DEF Launches, Launch, LaunchBegin, Enabled_, Pumping
<1>2. ASSUME Names
      PROVE  Watch'
  BY <1>2, <1>a, <1>b, <1>c DEF Names, NameOnly, Enabled_, Pumping
<1>3. ASSUME Halts
      PROVE  Watch'
  BY <1>3, <1>a, <1>b, <1>c DEF Halts, Asked, Pumping
<1>4. ASSUME ReadsReport
      PROVE  Watch'
  BY <1>4, <1>a, <1>b, <1>c DEF ReadsReport, Reads, Pumping
<1>5. ASSUME ReadsHalted
      PROVE  Watch'
  BY <1>5, <1>a, <1>b, <1>c DEF ReadsHalted, Reads, Pumping
<1>6. ASSUME ReadsAsk
      PROVE  Watch'
  BY <1>6, <1>a, <1>b, <1>c DEF ReadsAsk, Reads, Asked, Pumping
<1>7. ASSUME Posts
      PROVE  Watch'
  <2>1. UNCHANGED mgrVars
    BY <1>7 DEF Posts
  <2> QED
    BY <2>1, <1>a, <1>b, <1>c
<1>8. ASSUME Overrides
      PROVE  Watch'
  BY <1>8, <1>a, <1>b, <1>c DEF Overrides, Request, Pumping
<1>9. ASSUME Wake
      PROVE  Watch'
  BY <1>9, <1>a, <1>b, <1>c DEF Wake, Goto
<1>10. ASSUME Dispatch
      PROVE  Watch'
  BY <1>10, <1>a, <1>b, <1>c DEF Dispatch, Goto
<1>11. ASSUME LaunchRelease
      PROVE  Watch'
  BY <1>11, <1>a, <1>b, <1>c DEF LaunchRelease, Goto
<1>12. ASSUME LaunchOpen
      PROVE  Watch'
  BY <1>12, <1>a, <1>b, <1>c DEF LaunchOpen, Goto, Decrypted
<1>13. ASSUME LaunchPowerOn
      PROVE  Watch'
  BY <1>13, <1>a, <1>b, <1>c DEF LaunchPowerOn, Goto
<1>14. ASSUME LaunchDone
      PROVE  Watch'
  <2>1. CASE wpc = "launchOk"
    <3>1. "launched" \in Messages /\ "launched" \in Sought /\ msgs' = Append(msgs, "launched")
      BY <1>14, <2>1 DEF LaunchDone, Goto, Post, Messages, FromManager, Sought
    <3>2. Cover'
      BY <3>1, HasPosted DEF Cover
    <3> QED
      BY <1>14, <2>1, <3>2, <1>b, <1>c DEF LaunchDone, Goto
  <2>2. CASE wpc = "launchFail"
    BY <1>14, <2>2, <1>a, <1>b, <1>c DEF LaunchDone, Goto
  <2> QED
    BY <1>14, <2>1, <2>2 DEF LaunchDone, Goto
<1>15. ASSUME HaltPowerOff
      PROVE  Watch'
  BY <1>15, <1>a, <1>b, <1>c DEF HaltPowerOff, Goto
<1>16. ASSUME HaltDrop
      PROVE  Watch'
  BY <1>16, <1>a, <1>b, <1>c DEF HaltDrop, Goto
<1>17. ASSUME HaltEncrypt
      PROVE  Watch'
  BY <1>17, <1>a, <1>b, <1>c DEF HaltEncrypt, Goto, Delete, Decrypted
<1>18. ASSUME HaltDone
      PROVE  Watch'
  BY <1>18, <1>a, <1>b, <1>c DEF HaltDone, Goto, Post
<1>19. ASSUME Clear
      PROVE  Watch'
  BY <1>19, <1>a, <1>b, <1>c DEF Clear, Goto
<1>20. ASSUME LaunchReady
      PROVE  Watch'
  BY <1>20, <1>a, <1>b, <1>c DEF LaunchReady
<1>21. ASSUME LaunchRefused
      PROVE  Watch'
  BY <1>21, <1>a, <1>b, <1>c DEF LaunchRefused
<1>22. ASSUME NEW i \in Images, GuestOff(i)
      PROVE  Watch'
  BY <1>22, <1>a, <1>b, <1>c DEF GuestOff
<1>23. ASSUME NEW i \in Images, PlayerWrites(i)
      PROVE  Watch'
  BY <1>23, <1>a, <1>b, <1>c DEF PlayerWrites
<1>24. ASSUME NEW i \in Images, PlayerEnds(i)
      PROVE  Watch'
  BY <1>24, <1>a, <1>b, <1>c DEF PlayerEnds, Delete
<1>25. ASSUME UNCHANGED vars
      PROVE  Watch'
  BY <1>25, <1>a, <1>b, <1>c DEF vars
<1> QED
  BY <1>1, <1>2, <1>3, <1>4, <1>5, <1>6, <1>7, <1>8, <1>9, <1>10, <1>11, <1>12, <1>13, <1>14,
     <1>15, <1>16, <1>17, <1>18, <1>19, <1>20, <1>21, <1>22, <1>23, <1>24, <1>25, Effects
     DEF Effect, Worker, External

-----------------------------------------------------------------------------
(* The theorems.                                                           *)

\* The page's own variables keep their types, whatever the other threads post.
THEOREM PageTypeCorrect == PageSpec => []PageTypeOK
<1>1. PageInit => PageTypes
  <2> SUFFICES ASSUME PageInit PROVE PageTypes
    OBVIOUS
  <2>1. StackOK(<<>>)
    BY MaxDepthAssumption DEF StackOK
  <2>2. _nReason \in Afters /\ overtaken \in BOOLEAN
    BY DEF PageInit
  <2>3. monitor \in [Monitors -> MonitorSteps]
    BY DEF PageInit, MonitorSteps
  <2> QED
    BY <2>1, <2>2, <2>3 DEF PageInit, PageTypes
<1>2. PageTypes /\ [PageNext]_allVars => PageTypes'
  BY PageTypeStep
<1> QED
  BY <1>1, <1>2, PageTypesSame, PTL DEF PageSpec

\* The invariant of the manager under any page, one whose session drops included.
THEOREM PageBase == PageSpec => []Base
<1>1. PageInit => Base
  <2> SUFFICES ASSUME PageInit PROVE Base
    OBVIOUS
  <2> USE DEF PageInit, Init, Commands, LaunchSteps, HaltSteps, WorkerSteps
  <2>1. msgs \in Seq(Messages)
    OBVIOUS
  <2>2. ManagerTypeOK
    BY <2>1, NoneAssumption DEF ManagerTypeOK
  <2>3. HaltsAlone /\ HandleSteps /\ CommandPending
    BY HasNone DEF HaltsAlone, HandleSteps, CommandPending, isWorking
  <2> QED
    BY <2>2, <2>3 DEF Base
<1>2. Base /\ [PageNext]_allVars => Base'
  <2> SUFFICES ASSUME Base, [PageNext]_allVars PROVE Base'
    OBVIOUS
  <2>1. ManagerTypeOK'
    BY ManagerTypeStep DEF Base, HandleSteps
  <2> QED
    BY <2>1, HaltsAloneStep, WorkStep DEF Base
<1> QED
  BY <1>1, <1>2, PTL DEF PageSpec

\* No command is lost between the slot and the event, even when the lost session overwrites
\* the slot.
THEOREM PageNoCommandLost == PageSpec => []CommandPending
<1>1. Base => CommandPending
  BY DEF Base
<1> QED
  BY PageBase, <1>1, PTL

\* If every power-off powers off, the launcher knows what is on.
LEMMA PowerAlways ==
    ASSUME "powerOff" \notin Faults
    PROVE  PageSpec => []Power
<1>1. PageInit => Power
  BY HasNone DEF PageInit, Init, Power, NoOrphan
<1>2. Base /\ Power /\ [PageNext]_allVars => Power'
  BY PowerStep
<1> QED
  BY PageBase, <1>1, <1>2, PTL DEF PageSpec

\* If every power-off powers off, the launcher never loses the handle of a virtual machine
\* that is on, even when the lost session overwrites the slot.
THEOREM PageHandleKept ==
    ASSUME "powerOff" \notin Faults
    PROVE  PageSpec => []NoOrphan
<1>1. Power => NoOrphan
  BY DEF Power
<1> QED
  BY PowerAlways, <1>1, PTL

\* If every power-off powers off, the dialog closes only when no virtual machine is on.
THEOREM ExitsClean ==
    ASSUME "powerOff" \notin Faults
    PROVE  PageSpec => ExitWithoutVm
<1>1. Base /\ Power /\ [PageNext]_allVars
          => [page # "exit" /\ page' = "exit" => powered = {}]_allVars
  BY ExitStep
<1> QED
  BY PageBase, PowerAlways, <1>1, PTL DEF PageSpec, ExitWithoutVm

\* If every power-off powers off, files are deleted only when no virtual machine is on.
THEOREM DeletesAfterHalt ==
    ASSUME "powerOff" \notin Faults
    PROVE  PageSpec => DeletesHalted
<1>1. Base /\ Power /\ [PageNext]_allVars
          => [deleted' # deleted => lv_handleVM = None /\ powered = {}]_allVars
  BY DeleteStep
<1> QED
  BY PageBase, PowerAlways, <1>1, PTL DEF PageSpec, DeletesHalted

\* If every key opens its descriptor, every .vmx file keeps its own image's, even when the
\* lost session overwrites the slot.
THEOREM PageKeepsDescriptors ==
    ASSUME "decrypt" \notin Faults
    PROVE  PageSpec => []OwnDescriptor
<1>1. PageInit => OwnFiles
  BY DEF PageInit, Init, OwnFiles, OwnDescriptor
<1>2. Base /\ OwnFiles /\ [PageNext]_allVars => OwnFiles'
  BY OwnFilesStep
<1>3. OwnFiles => OwnDescriptor
  BY DEF OwnFiles
<1> QED
  BY PageBase, <1>1, <1>2, <1>3, PTL DEF PageSpec

\* As long as the session holds, the page is a window of the manager: it asks only when no
\* command is in progress, and reads what the manager posts in order.
THEOREM PageIsWindow ==
    ASSUME SessionDrops = FALSE
    PROVE  PageSpec => ManagerSpec
<1>1. PageInit => Mgr!Init
  <2>1. Selected(<<>>, FromManager) = <<>>
    BY SelectedEmpty
  <2> QED
    BY <2>1 DEF PageInit, Init, Mgr!Init
<1>2. Base /\ [PageNext]_allVars => [Mgr!Next]_Mgr!vars
  BY ManagerStep DEF Base
<1> QED
  BY PageBase, <1>1, <1>2, PTL DEF PageSpec, ManagerSpec, Mgr!Spec

\* What is proved of the manager with its window therefore holds under the page.
\* (Mgr and MP name the same definitions twice, so the two are expanded to the same formula.)
LEMMA ManagerUnderPage ==
    ASSUME SessionDrops = FALSE
    PROVE  PageSpec => MP!Spec
<1>1. Mgr!Init => MP!Init
  BY DEF Mgr!Init, MP!Init
<1>2. [Mgr!Next]_Mgr!vars => [MP!Next]_MP!vars
  BY Zenon
     DEF Mgr!Next, Mgr!Window, Mgr!Worker, Mgr!External, Mgr!vars, Mgr!callVars,
         Mgr!workerVars, Mgr!pathVars, Mgr!vmVars, Mgr!fileVars, Mgr!Launch,
         Mgr!LaunchBegin, Mgr!NameOnly, Mgr!LaunchRefused, Mgr!LaunchReady, Mgr!Halt,
         Mgr!Request, Mgr!ReadMessage, Mgr!Wake, Mgr!Dispatch, Mgr!LaunchRelease,
         Mgr!LaunchOpen, Mgr!LaunchPowerOn, Mgr!LaunchDone, Mgr!HaltPowerOff,
         Mgr!HaltDrop, Mgr!HaltEncrypt, Mgr!HaltDone, Mgr!Clear, Mgr!GuestOff,
         Mgr!PlayerWrites, Mgr!PlayerEnds, Mgr!isWorking, Mgr!Goto, Mgr!Post,
         Mgr!Decrypted, Mgr!Delete, MP!Next, MP!Window, MP!Worker, MP!External, MP!vars,
         MP!callVars, MP!workerVars, MP!pathVars, MP!vmVars, MP!fileVars, MP!Launch,
         MP!LaunchBegin, MP!NameOnly, MP!LaunchRefused, MP!LaunchReady, MP!Halt,
         MP!Request, MP!ReadMessage, MP!Wake, MP!Dispatch, MP!LaunchRelease,
         MP!LaunchOpen, MP!LaunchPowerOn, MP!LaunchDone, MP!HaltPowerOff, MP!HaltDrop,
         MP!HaltEncrypt, MP!HaltDone, MP!Clear, MP!GuestOff, MP!PlayerWrites,
         MP!PlayerEnds, MP!isWorking, MP!Goto, MP!Post, MP!Decrypted, MP!Delete
<1> QED
  BY PageIsWindow, <1>1, <1>2, PTL DEF ManagerSpec, Mgr!Spec, MP!Spec

\* The manager's inductive invariant, read through the page's queue.
LEMMA InductiveUnderPage ==
    ASSUME SessionDrops = FALSE
    PROVE  PageSpec => []MP!IInv
<1>1. MP!Spec => []MP!IInv
  BY MP!Inductive, NoneAssumption, FaultsAssumption, MaxMsgsAssumption
     DEF FaultKinds, MP!FaultKinds
<1> QED
  BY ManagerUnderPage, <1>1, PTL

\* As long as the session holds, the slot says what the worker does until the worker clears
\* it: neither a click, nor a message, nor an environment thread overwrites it.
THEOREM PageKeepsSlot ==
    ASSUME SessionDrops = FALSE
    PROVE  PageSpec => []SlotIsWorkers
<1>1. MP!IInv => SlotIsWorkers
  BY DEF MP!IInv, MP!OnTheSlot, MP!LaunchSteps, MP!HaltSteps, SlotIsWorkers, LaunchSteps,
         HaltSteps
<1> QED
  BY InductiveUnderPage, <1>1, PTL

\* As long as the session holds, the page decrypts a descriptor only while the worker waits.
THEOREM PageOwnsFiles ==
    ASSUME SessionDrops = FALSE
    PROVE  PageSpec => []FilesHaveOneOwner
<1>1. MP!IInv => FilesHaveOneOwner
  BY DEF MP!IInv, MP!Handover, FilesHaveOneOwner
<1> QED
  BY InductiveUnderPage, <1>1, PTL

\* As long as the session holds, no decrypted descriptor outlives the command and the
\* vmplayer it was written for.
THEOREM PageLeavesNoPlain ==
    ASSUME SessionDrops = FALSE
    PROVE  PageSpec => []NoPlainLeftBehind
<1>1. MP!IInv => NoPlainLeftBehind
  BY DEF MP!IInv, MP!PlainFiles, MP!NoPlainLeftBehind, MP!isWorking, NoPlainLeftBehind,
         isWorking
<1> QED
  BY InductiveUnderPage, <1>1, PTL

\* As long as the session holds, every command the page has accepted is answered by one
\* message of its kind before the next is accepted: the service the page relies on.
THEOREM PageIsServed ==
    ASSUME SessionDrops = FALSE
    PROVE  PageSpec => MP!ServiceSpec
<1>1. MP!Spec => MP!ServiceSpec
  BY MP!ImplementsService, NoneAssumption, FaultsAssumption, MaxMsgsAssumption
     DEF FaultKinds, MP!FaultKinds
<1> QED
  BY ManagerUnderPage, <1>1, PTL

\* As long as the session holds, a command is over in at most nine steps of launchVM and the
\* worker, whatever the user, the boxes and the environment threads do meanwhile.
THEOREM PageCommandsEnd ==
    ASSUME SessionDrops = FALSE
    PROVE  PageSpec => MP!CommandEnds
<1>1. MP!Spec => MP!CommandEnds
  BY MP!CommandsEnd, NoneAssumption, FaultsAssumption, MaxMsgsAssumption
     DEF FaultKinds, MP!FaultKinds
<1> QED
  BY ManagerUnderPage, <1>1, PTL

\* As long as the session holds, a virtual machine that runs with no command in progress is
\* watched, unless the last request to halt it was dropped in the gap between the worker's
\* message and its clearing of the slot (KVmMgr::_vm_process, onAfterStopVM).  It is enough that power-offs or power-ons do not fail: a machine that could not be powered off
\* may be on when it is launched again, and then stays on when the launch fails.
THEOREM RunningIsWatched ==
    ASSUME SessionDrops = FALSE,
           "powerOff" \notin Faults \/ "powerOn" \notin Faults
    PROVE  PageSpec => []Watched
<1>1. PageSpec => []PageTypes
  BY PageTypeCorrect, PageTypesSame, PTL
<1>2. PageSpec => []Slot
  BY InductiveUnderPage, SlotOfManager, PTL
<1>3. PageSpec => []PowersOnce
  <2>1. CASE "powerOff" \notin Faults
    <3>1. Power => PowersOnce
      BY DEF Power, PowersOnce
    <3> QED
      BY <2>1, PowerAlways, <3>1, PTL
  <2>2. CASE "powerOn" \notin Faults
    <3>1. PowersOnce
      BY <2>2 DEF PowersOnce
    <3> QED
      BY <3>1, PTL
  <2> QED
    BY <2>1, <2>2
<1>4. PageInit => Watch
  BY DEF PageInit, Init, Watch, isWorking
<1>5. Base /\ PageTypes /\ Slot /\ Slot' /\ Watch /\ PowersOnce /\ [PageNext]_allVars
          => Watch'
  BY WatchStep
<1>6. Watch => Watched
  BY DEF Watch, Watched, Cover, Has, Sought
<1> QED
  BY PageBase, <1>1, <1>2, <1>3, <1>4, <1>5, <1>6, PTL DEF PageSpec
=============================================================================
