---------------------------- MODULE LauncherPage ----------------------------
(***************************************************************************)
(* The launcher's main page, src/KLauncher/ClaPageMain.cpp, with the parts *)
(* of src/KLauncher/KLauncherDlg.cpp that end it, over the VM manager of   *)
(* KVmMgr.tla.                                                             *)
(*                                                                         *)
(* One thread runs the window: it takes messages off one queue (msgs, here *)
(* with everybody's messages in it), and a handler that opens a message    *)
(* box runs a nested loop, so that further messages are handled while it   *)
(* waits for the answer (stack).  Posted messages come before user input,  *)
(* and an open box disables the page's buttons.  For every virtual machine *)
(* it launched, an environment thread polls the guest agent and reports    *)
(* back by posting, or by sending and waiting.                             *)
(*                                                                         *)
(* Boxes that only inform (a click that came to nothing, a halt that was   *)
(* somebody else's, a violation's warning) are left out: messages are      *)
(* handled behind them as ever, and a user who lets one stand is a user    *)
(* who does nothing.                                                       *)
(***************************************************************************)
EXTENDS KVmMgr, FiniteSets, Selections

CONSTANTS
    Monitors,      \* environment threads that may exist at once
    MaxDepth,      \* bound on the message boxes open inside one another
    SessionDrops   \* may the server end the session?

ASSUME MonitorsAssumption == IsFiniteSet(Monitors) /\ None \notin Monitors
ASSUME MaxDepthAssumption == MaxDepth \in Nat
ASSUME SwitchAssumption   == SessionDrops \in BOOLEAN

VARIABLES
    page,              \* "main", "login", or "exit" once the dialog is closed
    stack,             \* open boxes, innermost last: <<box, thread that waits for it>>
    sel,               \* _nImageIdx, the image selected by the last Start
    _nReason,          \* what the reason of the last halt asked for makes of its end
    monitor,           \* what each environment thread does next
    lv_thdEnvironment, \* the thread whose handle the page holds, or None
    timer,             \* is OnTimer still being called?
    deleted,           \* images whose directory a violation had deleted
    overtaken          \* history, kept for a session that does not drop: was a halt dropped
                       \* between the message the worker posts at a command's end and its
                       \* clearing of the slot, and none taken since?

haltVars == <<_nReason, overtaken>>
pageVars == <<page, stack, sel, haltVars, monitor, lv_thdEnvironment, timer, deleted>>
mgrVars  == <<callVars, workerVars, pathVars, lv_handleVM, m_strVMX, vmVars, fileVars>>
allVars  == <<vars, pageVars>>

\* Why a virtual machine may be halted, and what onAfterVMStoped then does; that is all that
\* is kept of a reason.
After == [user_control       |-> "nothing",
          fail_launch        |-> "nothing",
          fail_qr            |-> "nothing",
          agent_not_found    |-> "nothing",
          expire_idle_vm     |-> "nothing",
          user_close_vm      |-> "nothing",
          logout             |-> "login",
          violation_logout   |-> "login",
          client_update      |-> "close",
          client_force_stop  |-> "close",
          kclient_terminated |-> "tell",
          violation_delete   |-> "delete"]

Reasons == DOMAIN After
Afters  == {"nothing", "login", "close", "tell", "delete"}

\* Posted messages that ask for a halt: the command and the reason it is given.
Asks == [QR_INVALID         |-> <<"stop", "fail_qr">>,
         AGENT_NOT_FOUND    |-> <<"stop", "agent_not_found">>,
         KCLIENT_TERMINATED |-> <<"suspend", "kclient_terminated">>,
         USER_STOP          |-> <<"stop", "user_close_vm">>]

MonitorSteps == {"none", "waitIP", "post", "poll", "idle", "violation"}
Alive == {e \in Monitors : monitor[e] # "none"}

-----------------------------------------------------------------------------
PageInit ==
    /\ Init
    /\ page = "main"
    /\ stack = <<>>
    /\ sel \in Images \cup {None}
    /\ _nReason \in Afters   \* no constructor initialises it, nor _nImageIdx; a number that is
                            \* no reason does nothing, one that is no image's names nothing
    /\ monitor = [e \in Monitors |-> "none"]
    /\ lv_thdEnvironment = None
    /\ timer = TRUE
    /\ deleted = {}
    /\ overtaken = FALSE

\* The window's thread takes messages: it is not inside launchVM and not gone.
Pumping ==
    /\ page # "exit"
    /\ caller = None

\* The page takes user input: nothing posted is waiting and no box is open.
Enabled_ == Pumping /\ page = "main" /\ stack = <<>> /\ msgs = <<>>

Open(box, e) ==
    /\ Len(stack) < MaxDepth
    /\ stack' = Append(stack, <<box, e>>)

\* The innermost box is answered; the handler that opened it goes on.
Close(box) ==
    /\ Pumping
    /\ stack # <<>>
    /\ stack[Len(stack)][1] = box
    /\ stack' = SubSeq(stack, 1, Len(stack) - 1)

Waiter == stack[Len(stack)][2]

\* Mutants of onAfterStopVM: isWorking() is not tested; the event is not set.
StopWhileWorking(c, reason) ==
    /\ lv_nVmProc' = c
    /\ lv_mutexVm' = TRUE
    /\ _nReason' = After[reason]
    /\ overtaken' = FALSE
    /\ UNCHANGED <<workerVars, caller, pathVars, lv_handleVM, m_strVMX, vmVars, fileVars>>

StopUnheard(c, reason) ==
    IF isWorking
    THEN UNCHANGED <<mgrVars, haltVars>>
    ELSE /\ lv_nVmProc' = c
         /\ _nReason' = After[reason]
         /\ overtaken' = FALSE
         /\ UNCHANGED <<lv_mutexVm, workerVars, caller, pathVars, lv_handleVM, m_strVMX, vmVars,
                        fileVars>>

\* onAfterStopVM: the request is dropped while a command is in progress.
onAfterStopVM(c, reason) ==
    IF isWorking
    THEN /\ overtaken' = (overtaken \/ (wpc = "clear" /\ ~SessionDrops))
         /\ UNCHANGED <<mgrVars, _nReason>>
    ELSE /\ lv_nVmProc' = c
         /\ lv_mutexVm' = TRUE
         /\ _nReason' = After[reason]
         /\ overtaken' = FALSE
         /\ UNCHANGED <<workerVars, caller, pathVars, lv_handleVM, m_strVMX, vmVars, fileVars>>

-----------------------------------------------------------------------------
(* User input.                                                             *)

\* OnBnClickedBtnStart: the selection and the path are the new ones from here on, whatever
\* becomes of the click.
Start(i) ==
    /\ Enabled_
    /\ ~isWorking
    /\ sel' = i
    /\ m_strVMX' = i
    /\ \/ /\ lv_handleVM \in powered
          /\ Open("running", None)
          /\ UNCHANGED <<callVars, workerVars, pathVars, lv_handleVM, vmVars, fileVars, msgs>>
       \/ /\ lv_handleVM \notin powered
          /\ i \notin deleted
          /\ LaunchBegin(i)
          /\ UNCHANGED stack
       \/ \* not downloaded, no configuration, no password, or the key cannot be rotated
          /\ lv_handleVM \notin powered
          /\ UNCHANGED <<callVars, workerVars, pathVars, lv_handleVM, vmVars, fileVars, msgs>>
          /\ UNCHANGED stack
    /\ UNCHANGED <<page, haltVars, monitor, lv_thdEnvironment, timer, deleted>>

\* Logging out and installing an update are confirmed in a box first.
Confirm(box) ==
    /\ Enabled_
    /\ Open(box, None)
    /\ UNCHANGED <<vars, page, sel, haltVars, monitor, lv_thdEnvironment, timer, deleted>>

\* Mutant of OnCancel: isRunning() is not asked.
OnCancelAnyway(s) == stack' = <<>> /\ page' = "exit"

\* CKLauncherDlg::OnCancel.
OnCancel(s) ==
    IF isRunning
    THEN /\ Len(s) < MaxDepth
         /\ stack' = Append(s, <<"close", None>>)
         /\ UNCHANGED page
    ELSE /\ stack' = <<>>
         /\ page' = "exit"

\* The close button, on the login page too, and the tray's menu, which no box disables.
\* (A closed dialog's boxes are still waited for; what is handled until then is left out.)
CloseClicked ==
    /\ Pumping
    /\ OnCancel(stack)
    /\ UNCHANGED <<vars, sel, haltVars, monitor, lv_thdEnvironment, timer, deleted>>

Login ==
    /\ Pumping
    /\ page = "login"
    /\ stack = <<>>
    /\ msgs = <<>>
    /\ page' = "main"
    /\ UNCHANGED <<vars, stack, sel, haltVars, monitor, lv_thdEnvironment, timer, deleted>>

-----------------------------------------------------------------------------
(* Answers to boxes.                                                       *)

\* A box with buttons for terminate, suspend and cancel.
AnswerHalt(box, reason) ==
    /\ Close(box)
    /\ \/ onAfterStopVM("stop", reason)
       \/ onAfterStopVM("suspend", reason)
       \/ UNCHANGED <<mgrVars, haltVars>>
    /\ UNCHANGED <<msgs, page, sel, monitor, lv_thdEnvironment, timer, deleted>>

AnswerLogout ==
    /\ Close("logout")
    /\ \/ onAfterStopVM("stop", "logout")
       \/ UNCHANGED <<mgrVars, haltVars>>
    /\ UNCHANGED <<msgs, page, sel, monitor, lv_thdEnvironment, timer, deleted>>

\* WM_USER_UPDATE_READY: a forced update ends the launcher even if it is declined.
AnswerUpdate ==
    /\ Close("update")
    /\ \/ onAfterStopVM("suspend", "client_update")
       \/ onAfterStopVM("suspend", "client_force_stop")
       \/ UNCHANGED <<mgrVars, haltVars>>
    /\ UNCHANGED <<msgs, page, sel, monitor, lv_thdEnvironment, timer, deleted>>

AnswerLaunchFailed ==
    /\ Close("launchFailed")
    /\ onAfterStopVM("stop", "fail_launch")
    /\ UNCHANGED <<msgs, page, sel, monitor, lv_thdEnvironment, timer, deleted>>

\* Mutant of AnswerIdle: the sender stops polling either way.
AnswerIdleLeaving ==
    /\ Close("idle")
    /\ monitor' = [monitor EXCEPT ![Waiter] = IF @ = "idle" THEN "none" ELSE @]
    /\ \/ onAfterStopVM("stop", "expire_idle_vm")
       \/ UNCHANGED <<mgrVars, haltVars>>
    /\ UNCHANGED <<msgs, page, sel, lv_thdEnvironment, timer, deleted>>

\* The idle dialog times out or is answered: the sender stops, or polls again.
AnswerIdle ==
    /\ Close("idle")
    /\ \/ /\ onAfterStopVM("stop", "expire_idle_vm")
          /\ monitor' = [monitor EXCEPT ![Waiter] = IF @ = "idle" THEN "none" ELSE @]
       \/ /\ monitor' = [monitor EXCEPT ![Waiter] = IF @ = "idle" THEN "poll" ELSE @]
          /\ UNCHANGED <<mgrVars, haltVars>>
    /\ UNCHANGED <<msgs, page, sel, lv_thdEnvironment, timer, deleted>>

\* The launcher closes after telling that kclient is gone.
AnswerKClient ==
    /\ Pumping
    /\ stack # <<>>
    /\ stack[Len(stack)][1] = "kclient"
    /\ OnCancel(SubSeq(stack, 1, Len(stack) - 1))
    /\ UNCHANGED <<vars, sel, haltVars, monitor, lv_thdEnvironment, timer, deleted>>

AnswerSession ==
    /\ Close("session")
    /\ page' = "login"
    /\ UNCHANGED <<vars, sel, haltVars, monitor, lv_thdEnvironment, timer, deleted>>

Answer ==
    \/ AnswerHalt("running", "user_control")
    \/ AnswerHalt("close", "client_force_stop")
    \/ AnswerLogout \/ AnswerUpdate \/ AnswerLaunchFailed \/ AnswerIdle
    \/ AnswerKClient \/ AnswerSession

-----------------------------------------------------------------------------
(* Posted messages.                                                        *)

Take(m) == Pumping /\ msgs # <<>> /\ Head(msgs) = m /\ msgs' = Tail(msgs)

\* onAfterVmLaunched: an environment thread is started and its handle kept.
OnLaunched ==
    /\ Take("launched")
    /\ \E e \in Monitors \ Alive :
         /\ monitor' = [monitor EXCEPT ![e] = "waitIP"]
         /\ lv_thdEnvironment' = e
    /\ UNCHANGED <<mgrVars, page, stack, sel, haltVars, timer, deleted>>

OnLaunchFailed ==
    /\ Take("launchFailed")
    /\ Open("launchFailed", None)
    /\ UNCHANGED <<mgrVars, page, sel, haltVars, monitor, lv_thdEnvironment, timer, deleted>>

OnAsk(m) ==
    /\ Take(m)
    /\ onAfterStopVM(Asks[m][1], Asks[m][2])
    /\ UNCHANGED <<page, stack, sel, monitor, lv_thdEnvironment, timer, deleted>>

\* What is left to do depends on the reason.
AfterReason ==
    CASE _nReason = "login"  -> page' = "login" /\ UNCHANGED <<stack, deleted>>
      [] _nReason = "close"  -> page' = "exit" /\ stack' = <<>> /\ UNCHANGED deleted
      [] _nReason = "tell"   -> Open("kclient", None) /\ UNCHANGED <<page, deleted>>
      [] _nReason = "delete" -> deleted' = deleted \cup (Images \cap {sel})
                                /\ UNCHANGED <<page, stack>>
      [] OTHER -> UNCHANGED <<page, stack, deleted>>

\* Mutant of OnHalted: the terminated thread is left in a state of its own.
OnHaltedForgetting(m) ==
    /\ Take(m)
    /\ lv_thdEnvironment' = None
    /\ m_strVMX' = None
    /\ monitor' = [e \in Monitors |-> IF e = lv_thdEnvironment THEN "terminated" ELSE monitor[e]]
    /\ AfterReason
    /\ UNCHANGED <<callVars, workerVars, pathVars, lv_handleVM, vmVars, fileVars, sel,
                   haltVars, timer>>

\* onAfterVMStoped: the environment thread is terminated wherever it is.
OnHalted(m) ==
    /\ Take(m)
    /\ monitor' = [e \in Monitors |-> IF e = lv_thdEnvironment THEN "none" ELSE monitor[e]]
    /\ lv_thdEnvironment' = None
    /\ m_strVMX' = None
    /\ AfterReason
    /\ UNCHANGED <<callVars, workerVars, pathVars, lv_handleVM, vmVars, fileVars, sel,
                   haltVars, timer>>

Message ==
    \/ OnLaunched \/ OnLaunchFailed
    \/ \E m \in DOMAIN Asks : OnAsk(m)
    \/ \E m \in {"stopped", "suspended"} : OnHalted(m)

\* OnTimer: kclient is gone, or the QR code was found to be wrong; either ends the timer.
Tick ==
    /\ Pumping
    /\ timer
    /\ msgs = <<>>
    /\ \/ Post("KCLIENT_TERMINATED")
       \/ isRunning /\ Post("QR_INVALID")
    /\ timer' = FALSE
    /\ UNCHANGED <<mgrVars, page, stack, sel, haltVars, monitor, lv_thdEnvironment, deleted>>

-----------------------------------------------------------------------------
(* The environment thread, set_environment.                                *)

Becomes(e, from, to) == monitor[e] = from /\ monitor' = [monitor EXCEPT ![e] = to]

\* Mutant of MonitorSeesStop: the thread ends without a word.
MonitorLeaves(e) ==
    /\ page # "exit"
    /\ ~isRunning
    /\ \E s \in {"waitIP", "post", "poll"} : Becomes(e, s, "none")
    /\ UNCHANGED <<vars, page, stack, sel, haltVars, lv_thdEnvironment, timer, deleted>>

\* It waits for the guest's address, posts the policies, and polls; a virtual machine that
\* is not running ends it with a request to stop.
MonitorSeesStop(e) ==
    /\ page # "exit"
    /\ ~isRunning
    /\ \E s \in {"waitIP", "post", "poll"} : Becomes(e, s, "none")
    /\ Post("USER_STOP")
    /\ UNCHANGED <<mgrVars, page, stack, sel, haltVars, lv_thdEnvironment, timer, deleted>>

MonitorAdvance(e) ==
    /\ page # "exit"
    /\ isRunning
    /\ \/ Becomes(e, "waitIP", "post")
       \/ Becomes(e, "post", "poll")
       \/ Becomes(e, "poll", "idle")
       \/ Becomes(e, "poll", "violation")
    /\ UNCHANGED <<vars, page, stack, sel, haltVars, lv_thdEnvironment, timer, deleted>>

\* The agent does not answer.
MonitorNoAgent(e) ==
    /\ page # "exit"
    /\ isRunning
    /\ \E s \in {"post", "poll"} : Becomes(e, s, "none")
    /\ Post("AGENT_NOT_FOUND")
    /\ UNCHANGED <<mgrVars, page, stack, sel, haltVars, lv_thdEnvironment, timer, deleted>>

\* WM_USER_VM_IDLE_TIMEOUT is sent: the dialog opens in the window's thread.
OnIdleTimeout(e) ==
    /\ Pumping
    /\ monitor[e] = "idle"
    /\ \A k \in 1 .. Len(stack) : stack[k] # <<"idle", e>>
    /\ Open("idle", e)
    /\ UNCHANGED <<vars, page, sel, haltVars, monitor, lv_thdEnvironment, timer, deleted>>

\* Mutant of OnViolation: the directory is deleted at once.
OnViolationDeleting(e) ==
    /\ Pumping
    /\ Becomes(e, "violation", "poll")
    /\ \/ \E c \in {"stop", "suspend"} : onAfterStopVM(c, "violation_logout")
       \/ UNCHANGED <<mgrVars, haltVars>>
    /\ deleted' = deleted \cup {sel}
    /\ UNCHANGED <<msgs, page, stack, sel, lv_thdEnvironment, timer>>

\* WM_USER_VIOLATION is sent: the script's actions decide what happens.
OnViolation(e) ==
    /\ Pumping
    /\ Becomes(e, "violation", "poll")
    /\ \/ \E c \in {"stop", "suspend"}, r \in {"violation_delete", "violation_logout"} :
              onAfterStopVM(c, r)
       \/ UNCHANGED <<mgrVars, haltVars>>
    /\ UNCHANGED <<msgs, page, stack, sel, lv_thdEnvironment, timer, deleted>>

\* CKLauncherDlg::WindowProc, WM_USER_CONN_VALIDATE, whatever page is shown and whatever box
\* is open (each login has its thread, and they end one by one): the virtual machine is
\* suspended without asking isWorking(), and without a reason.
OnSessionInvalid ==
    /\ SessionDrops
    /\ Pumping
    /\ Request("suspend")
    /\ Open("session", None)
    /\ UNCHANGED <<page, sel, haltVars, monitor, lv_thdEnvironment, timer, deleted>>

-----------------------------------------------------------------------------
UserInput ==
    \/ \E i \in Images : Start(i)
    \/ Confirm("logout") \/ Confirm("update")
    \/ CloseClicked
    \/ Login

Manager ==
    /\ page # "exit"
    /\ \/ Worker
       \/ LaunchReady
       \/ LaunchRefused
    /\ UNCHANGED pageVars

Vmware == External /\ UNCHANGED pageVars

Monitoring ==
    \E e \in Monitors :
        MonitorSeesStop(e) \/ MonitorAdvance(e) \/ MonitorNoAgent(e)
            \/ OnIdleTimeout(e) \/ OnViolation(e)

PageNext ==
    \/ UserInput \/ Answer \/ Message \/ Tick \/ OnSessionInvalid
    \/ Monitoring \/ Manager \/ Vmware

PageSpec == PageInit /\ [][PageNext]_allVars

\* The worker and the environment threads are scheduled, the window pumps its messages and
\* lets in the messages sent to it, and the idle dialog answers itself after a minute.
PageFairness ==
    /\ WF_allVars(Manager)
    /\ WF_allVars(Message)
    /\ WF_allVars(AnswerIdle)
    /\ \A e \in Monitors :
          /\ WF_allVars(MonitorSeesStop(e))
          /\ SF_allVars(OnIdleTimeout(e))
          /\ SF_allVars(OnViolation(e))

FairPageSpec == PageSpec /\ PageFairness

-----------------------------------------------------------------------------
(* Properties.                                                             *)

Boxes == {"running", "close", "logout", "update", "launchFailed", "idle", "kclient", "session"}

PageTypeOK ==
    /\ page \in {"main", "login", "exit"}
    /\ stack \in Seq(Boxes \X (Monitors \cup {None}))
    /\ Len(stack) <= MaxDepth
    /\ sel \in Images \cup {None}
    /\ _nReason \in Afters
    /\ monitor \in [Monitors -> MonitorSteps]
    /\ lv_thdEnvironment \in Monitors \cup {None}
    /\ timer \in BOOLEAN
    /\ deleted \subseteq Images
    /\ overtaken \in BOOLEAN

\* A virtual machine that runs, with no command in progress, is watched: an environment
\* thread polls it, or a message that will start one or stop the machine is waiting; unless
\* the last halt that was asked for came when the worker had posted its message but not yet
\* cleared the slot, and was dropped.
Watched ==
    lv_handleVM \in powered /\ ~isWorking /\ page # "exit" /\ ~overtaken =>
        \/ Alive # {}
        \/ \E k \in 1 .. Len(msgs) : msgs[k] \in DOMAIN Asks \cup {"launched"}

\* The dialog closes only when no virtual machine is on, whether or not a command is in
\* progress, by the user's click, a halt's reason or the loss of kclient.
ExitWithoutVm == [][page # "exit" /\ page' = "exit" => powered = {}]_allVars

\* A violation deletes files only once the virtual machine they belong to has been halted,
\* whichever messages overtook one another on the way.
DeletesHalted == [][deleted' # deleted => lv_handleVM = None /\ powered = {}]_allVars

\* The page is a caller KVmMgr can live with: it implements the window of KVmMgr, reading
\* the manager's messages among its own.
FromManager == {"launched", "launchFailed", "stopped", "suspended"}

Mgr == INSTANCE KVmMgr WITH msgs <- Selected(msgs, FromManager)

ManagerSpec == Mgr!Spec

\* When the user closes the virtual machine the launcher lets go of it, unless it is
\* launched again, the launcher is closed, a box keeps waiting for the user, or the request
\* was dropped in the gap between a command's last message and the clearing of the slot.
ClosedVmReleased ==
    lv_handleVM # None /\ lv_handleVM \notin powered ~>
        lv_handleVM = None \/ lv_handleVM \in powered \/ page = "exit" \/ stack # <<>> \/ overtaken
=============================================================================
