# TLA+ models of C_DLP_VMImage

C_DLP_VMImage runs a protected VMware virtual machine on a Windows host: a launcher
downloads an encrypted VM image, rotates its password, starts it through VIX, pushes policies
to an agent inside the guest and polls it, and a DLL injected into VMware's processes keeps
the decrypted descriptor out of the user's hands.

This directory models the parts of it where most goes on at once: the launcher's window, its
VM manager and the threads around them, the password of an image, the session with the server,
the download of an image, and the agent in the guest with the launcher's threads that talk to
it. Section 1 is the inventory of the whole system, section 2 says what each module models,
sections 3 and 4 what is checked and proved, section 5 what is not modelled, section 6 what is
left to do.

## 1. The system

### Host

| part | source | state | operations | talks to |
|---|---|---|---|---|
| VM manager | `kenan/KVmMgr.cpp` | command slot `lv_nVmProc`, event `lv_mutexVm`, paths `lv_strVMX`, `lv_strDecryptVmx`, `m_strVMX`, handle `lv_handleVM`, password `lv_strEncPwd` | `launchVM`, `stopVM`, `suspendVM`, `isRunning`, `isWorking`, `encryptVMX`, the worker `_vm_process` | page (posted messages), VIX, `.vmx`/`.vml` files |
| main page | `KLauncher/ClaPageMain.cpp` | selection, `_nReason`, configuration `m_group`, handles of the environment, policy, download and update threads | Start, Download, menu, timer, message handlers, the four threads | VM manager, server connection, guest agent |
| launcher dialog | `KLauncher/KLauncherDlg.cpp` | current page | `OnCancel`, page changes, session callback | main page, VM manager |
| server connection | `KenanConn/KenanConn.cpp` | token, session, one global configuration, shake thread | login, OTP, configuration, passwords, reports, agent requests | server, agent |
| file encryption | `cmn_crypto/kncrypto.cpp` | none (files) | encrypt, re-encrypt, decrypt, is-encrypted | VM manager, KenanHelperVM |
| registry | `kenan/KGlobal.cpp` | policy record with `_wszEncPwd` | `readConfig`, `writeConfig` | page writes, KenanHelperVM reads |
| KenanHelperVM | `KenanHelperVM/*` | `g_wszVML`, `g_wszEncPwd`, hooks | load, unload, file redirection, clipboard, screen capture, parent watch | vmplayer, vmware-vmx, the registry |
| update | `KUpdateApp` | installed files | check, delete and copy, restart | started by the page |
| policy library | `cmn_secu` | policy files | reading | hooks |
| others | `launcher`, `KenanNet`, `cmn*`, `kenan/SessionManager.cpp`, `Test*` | | older user interface, test clients, toolkits, third-party code | |

### Guest

| part | source | state | operations | talks to |
|---|---|---|---|---|
| agent | `KenanAgent/MIServer.cpp` | violation and script rules, each twice (uploaded and running), last results, `violation_section`, `lv_thdScript` | HTTP handlers (16 threads), copy threads, the rule thread | launcher (HTTP), PowerShell |
| agent service | `kenanAgentSvc/agent_svc.cpp` | the agent process, the firewall's scope | start the agent, firewall rules | Windows |
| QR dialog | `KAgentQR` | the code shown | show, alert | user |

### What is hard about it

*Interleaving without locks.* The window's thread, the worker, an environment thread per
launched machine, a policy thread and a download thread share plain globals. The command slot
is protected by nothing but the callers' habit of testing `isWorking()` first.

*Messages, sent and posted.* Threads report by `PostMessage` (queued, also behind an open
message box, whose nested loop handles what comes) and by `SendMessage` (the sender waits).
`onAfterStopVM` drops a request while a command is in progress.

*One password in five places.* Each Start and each download makes a new password for the
`.vmx`, which must reach the file, the server, the registry, the worker and the next vmplayer
one after the other, with failures, crashes and thread terminations in between.

*Files that come and go.* The decrypted `.vml` is written by the window, deleted by the
worker, written again by vmplayer, and encrypted back by the worker or by vmplayer, whichever
comes first.

*Partial failure.* Most results of VIX and of the server are ignored.

*Locks that are not.* The agent's one critical section is initialised by the thread that uses
it most, after the requests that need it may have come; its HTTP handlers change the uploaded
lists and read the running ones without it, and one of them leaves it without being inside.

*Threads nobody ends.* A login does not end the shake thread of the login before, a cancelled
download goes on until it looks, and a request that was given up is still carried out.

What makes the parts correct: the manager loses no command and mixes none up, and leaves no
decrypted copy; the page watches every running machine, releases a closed one, does not exit
over a running one; an image can always be opened with the password the server holds; the
agent works from the lists uploaded last, runs no script oftener than it was uploaded, reports
no outcome twice and accuses nobody without a failed check; a token belongs to its session, and
only the end of a session throws its user out; a download that reports completion is whole.

`PROJECT.json` lists every hazard at its line, with the properties that cover it or the reason
why none does.

## 2. The modules

### `VmService` – what the manager promises

One command at a time; for every accepted command one completion message, or a refusal. State:
`busy`, `done`.

### `KVmMgr` – the VM manager

Variables keep the source's names. `wpc` is the worker's program counter in `_vm_process`
(one step per VIX call, file operation, message and slot write), `wcmd` the branch it took,
`caller` the image `launchVM` is decrypting on the window's thread between its write of the
slot and `SetEvent`. A descriptor's content is the name of the image it belongs to, so `vml[i]`
and `disk[i]` tell whether one image's descriptor ended up in another's file.

| code | actions |
|---|---|
| `launchVM` | `LaunchBegin`, `LaunchRefused`, `LaunchReady` |
| `stopVM`, `suspendVM` | `Request` |
| `_vm_process` | `Wake`, `Dispatch`, `LaunchDone`, `HaltEncrypt`, `HaltDone`, `Clear` |
| `_launchVM`, `_stopVM`, `_suspendVM` | `LaunchRelease`, `LaunchOpen`, `LaunchPowerOn`, `HaltPowerOff`, `HaltDrop` |
| vmplayer with KenanHelperVM | `PlayerWrites`, `PlayerEnds` |
| the user in the guest | `GuestOff` |
| the window | `Launch`, `NameOnly`, `Halt`, `ReadMessage` |

`Faults` says which external calls may fail: the decryption, the opening, the power-on, the
power-off. Posting when the queue bound `MaxMsgs` is reached waits; Windows' own limit (10 000
messages) is not modelled. The `Sleep`s and the two-second timeout of the worker's wait change no
state and are left out.

### `LauncherPage` – the window over the manager

Extends `KVmMgr`, whose worker and external actions it uses as they are, and replaces its
window. `msgs` is now the whole queue, with the messages of the environment threads and the
timer; `stack` is the message boxes open inside one another, each with the environment thread
that waits for its answer. `Start`, `OnCancel`, `AnswerHalt` and so on are the handlers;
`MonitorSeesStop`, `MonitorAdvance`, `MonitorNoAgent`, `OnIdleTimeout`, `OnViolation` are
`set_environment`. `_nReason` and `_nImageIdx` start uninitialised, as in the code. The queue as
the manager knows it is `Selected(msgs, FromManager)`, of the small module `Selections`: the
messages of the whole queue that are the manager's, in their order.

Abstractions: the guest agent's answers are a choice (no answer, idle too long, a violation);
retries inside one upload or poll change nothing that is modelled; the QR check is the timer's
choice; boxes that only inform are left out. A download in progress does not appear here (it
does in `VmxKey`).

`After` says what `onAfterVMStoped` makes of each reason for a halt; that is all that is kept of
`_nReason`. Exits (the close button, the tray) and the server's word that the session is over
come on any page and behind any box; which of the two pages shows makes no difference to
`OnCancel` or to `suspendVM`.

The worker posts its message before it clears the slot (`KVmMgr.cpp:208-209`), and a halt asked
for in between is dropped. The model has that gap; `overtaken` is history and tells that a halt
was dropped in it and none taken since. `Watched` and `ClosedVmReleased` except that case, and
each fails without the exception.

The switch `SessionDrops`: the server may end the session, whereupon `CKLauncherDlg::WindowProc`
calls `suspendVM` without testing `isWorking()`. With it `SlotIsWorkers`, `FilesHaveOneOwner`,
`NoPlainLeftBehind`, `Watched` and `ManagerSpec` fail; `PageSession` checks what still holds.

### `VmxKey` – the password of an image

One image. `vmx` is the password the file is encrypted with (or plain, torn, gone); `server`,
`registry`, `lv_strEncPwd` and `player` are the other places. Start and the download each take
one step per place, and interleave freely: nothing in the code keeps a Start from an image whose
download is still at it (a click in the list finds the `.vmx` as soon as it is unzipped,
`ClaPageMain.cpp:454`, and the question at `:1034` is commented out).

| code | actions |
|---|---|
| `download_unzip` | `DownloadUnzip`, `DownloadSetPassword`, `DownloadEncrypt`, `DownloadOpen`, `DownloadWrite` |
| `OnBnClickedBtnStart` | `StartGetPassword`, `StartEncrypt`, `StartOpen`, `StartWrite`, `StartSetPassword`, `StartConfig`, `StartLaunch` |
| `_vm_process`, `onAfterVMStoped` | `WorkerLaunch`, `WorkerHalt` |
| `policy_update` | `PolicyUpdate` |
| vmplayer with KenanHelperVM | `PlayerWrites`, `PlayerEnds` |
| the user in the guest, the end of the launcher | `GuestOff`, `Crash` |

`encryptVMX` is three steps for either of them: the file is read (`Read`, `ReadRefused`), opened
to be written, which leaves it empty (`Openings`), and written (`Written`). What each makes of a
failure is the code's: a plain file that could not be encrypted counts as encrypted
(`KVmMgr.cpp:311`), an encrypted one that could not be replaced may be gone
(`kncrypto.cpp:191`). A file that is gone is a size of -1, which passes the comparison with an
unsigned size: the launcher dies of the allocation.

`Mishaps` says what may go wrong at all: a failing `kc_set_password`, a download terminated by
`onAfterVMStoped`, a crash of the launcher, a Start while the previous policy thread is still
there, a Start while the previous vmplayer is, a file that cannot be opened or written. The
variable `mishaps` is the part of them that a behaviour is free to have: it is any subset of
`Mishaps` from the beginning on, so that one run meets every combination, and a property can say
which mishaps it does not withstand. GUIDs are
fresh: a new one differs from all that are held anywhere. `overlap` (has a Start met a download,
the last one or an earlier one) and `rewritten` (has the last Start written the file) are
history.

### `ScriptService` – what the agent promises about scripts

A script of the list in force is carried out (or refused) at most once, and its outcome is
taken by a poll at most once and never before there is one; a new list starts all over. State:
`state[s]`, one of none, waiting, finished, taken.

### `AgentRules` – the guest agent and the threads that talk to it

Three kinds of processes. The two launcher threads (`Clients`): `env` posts `/ip` and both lists
and then polls, `policy` posts what changed. The HTTP handlers (`Handlers`), each with its
request and how far it is; a client that gives up a request leaves its handler at work, whose
answer is then in vain. The copy threads (`Copiers`) and the one rule thread, which share
`section`, the critical section: `"zero"` before its initialisation, `"stuck"` when leaving it
once too often has spoiled it.

`list[k]` and `running[k]` are the numbers of the uploads the two lists are of. The text of a rule's
result is abstracted to absent, empty (as each list arrives), good or bad; a script's status and
`notified` flag are the source's.

| code | actions |
|---|---|
| `post_to_agent`, `set_environment`, the `KC_*` requests | `Send`, `GiveUp`, `Succeed`, `Fail`, `PostOver` |
| `policy_update` | `PolicyUpdate` |
| `OnHostIPProc` | `HandleIP` |
| `OnViolationProc`, `OnAgentScriptProc` | `ClearList`, `RefillList` (with `StartCopy`) |
| `OnIdleProc`: `GetViolation`, `GetAgentScript` | `GetViolation`, `GetAgentScript`, `MarkNotified` |
| the reply | `Answer`, `AnswerInVain` |
| `TF_COPY_SCRIPT_RULE` | `CopyEnter`, `CopyLeave` |
| `TF_VIOLATION` | `InitSection`, `RuleEnter`, `CheckRule`, `PassOver`, `Reach`, `Accept`, `Refuse`, `RunEnds`, `RuleLeave` |
| the end of the process | `Exit` |

`Faults`: an answer that comes too late (`"timeout"`: two seconds for `/ip`, one for a poll), a
request without a connection, the end of the process and a new one, a copy thread that comes
before the section is initialised, a report that outgrows the launcher's buffer. `ran`,
`received`, `accused`, `wrong` and `strayed` are history.

What a reader should know of the code, and finds in the model:
- A rule's result is empty when its list arrives, and differs from what is expected. The first poll
  reads it, reports nothing (the text is empty) and leaves the section all the same
  (`MIServer.cpp:243`), under whoever is inside: with any violation rule `strayed` becomes TRUE
  as a matter of course.
- `KC_GET_AGENT_VERSION` posts to the same path as the poll (`KenanConn.cpp:1849`): outcomes and
  violations read by it are dropped.
- A copy clears outcomes that have not been polled, and a copy that comes late can make a script run
  again: not once for each upload, but not oftener than the number of uploads.
- An agent that was started again has no lists, but answers polls: nobody posts them again.
- A poll that was given up may mark an outcome of a script that has been run anew meanwhile.
- A post that fails for good after a policy change is not repeated; it asks for the machine to
  be stopped, which a busy manager drops.

Test and creation of the rule thread (`MIServer.cpp:720`) are one step here. An element written
after its list was replaced under the writer (undefined behaviour) is written in its new place,
or nowhere; that the process dies of it instead is `"exit"`.

### `Session` – login, one-time password and the shake threads

Sessions, tokens and threads have the number of their login. `shake[t]` is where the `TF_SHAKE` of
login `t` is: asleep, waiting for the server's answer, waiting in `SendMessage` for the window, or
behind a message box. All threads share `lv_szJWT`, `lv_dwLastError` and the dialog's `fields`.

| code | actions |
|---|---|
| `KC_AUTH`, `OnBnClickedBtnBack`, logout | `KC_AUTH`, `Back`, `Logout` |
| `KC_OTP` and the OTP page | `OtpAsk`, `OtpAccepted`, `OtpRefused`, `OtpFailed`, `OtpReadError`, `OtpCounted` |
| `TF_SHAKE` | `Ask`, `Answered`, `Vaguely`, `Unanswered` |
| `WM_USER_CONN_VALIDATE` | `Validate`, `Dismiss` |
| `CKLauncherDlg::OnCancel` | `OnCancel`, in `CloseWindow` and `OtpCounted` |

`Faults`: no answer, one that does not parse, and an answer to validate with neither `is_valid`
nor a message the dialog knows. `crossed` (an answer was under way at the last login),
`guesses` and `spared` (a refusal was not counted) are history.

### `Download` – the Download and Pause buttons and their thread

`lv_thdDownload` is the page's handle; to cancel is to forget it. `archive[i]` is the number of
chunks of the file and whether anything else was written into it, `holder[i]` the thread that
has it open. `Start`, `Cancel`, `OnBnClickedBtnPause`, `onAfterVMStoped`, `Dismiss` are the
page; `Report` to `End` are `download_unzip` with `KC_DOWN_VMIMAGE`, one step per request,
chunk, retry, unpacking and message. `StatMax` is the size `_wstat` fails above. `Faults`: a
request that fails or breaks off, an answer that is the page of an error, which is not told from
data, and 7z not doing what it should: its exit code is never read (`ClaPathMgr.cpp:112-129`),
so what it made of the archive decides only whether there is a `.vmx`. `handed` (the archive as
it was given to 7z), `cancelled` and `crowded` (a download was started while another thread, or
what it had open, was left behind) are history.

Two simplifications: a thread that waits behind a box when it is terminated takes its box with
it, and an image that was completed may be downloaded again (the page asks whether its path is
there, which the list knows). An answer is received whether or not the page still holds a
handle: without a total length the progress callback does not look (`KenanConn.cpp:896`).

### `MC*` modules

Give the constants values and, where model values are interchangeable, a symmetry set.

## 3. The runs

| run | question | states | time |
|---|---|---|---|
| `KVmMgrFaults` | Does the manager keep its promises whatever external call fails? | 1.1 M | 1 min |
| `KVmMgrSound` | With honest power-offs and matching keys, do descriptors and handles stay where they belong? | 28 k | 3 s |
| `PageWatched` | Is every running machine watched? | 4.1 M | 90 s |
| `PageSession` | What survives a session that ends at any moment? | 4.6 M | 110 s |
| `PageLive` | Is the page a caller the manager can live with, and is a machine closed by the user released? | 470 k | 70 s |
| `KeyMishaps` | What of the five places can be relied on, under every combination of mishaps? | 106 k (up to symmetry) | 100 s |
| `KeyLostReply` | (violation) Is encryptVMX only asked without a password for files without one? | | 1 s |
| `KeyOverlap` | (violation) The same of the download, when nothing goes wrong? | | 1 s |
| `AgentLive` | Does what is uploaded come into force, and is every outcome picked up? | 180 k | 50 s |
| `AgentFaults` | What holds of the agent whatever goes wrong? | 5.1 M (up to symmetry) | 100 s |
| `Session` | What can the threads of two logins do to one another? | 260 k | 20 s |
| `Download` | Is what a completed download unpacked whole, a cancelled one cancelled, and does each end? | 530 k | 35 s |

**Properties.** `CommandPending`: while the slot is taken, `launchVM` has yet to return, the
event is set or the worker is at work. `SlotIsWorkers`: the worker's command is the slot's until
it clears it. `FilesHaveOneOwner`: the window decrypts only while the worker waits.
`NoPlainLeftBehind`: a `.vml` exists only under a command on it or under its vmplayer.
`OwnDescriptor`, `NoOrphan`: see above. `ServiceSpec`, `Served`: the manager refines `VmService`
and completes every command. `Watched`: a running machine has an environment thread or a message
that deals with it, unless a halt was `overtaken`. `ManagerSpec`: the page's steps are steps of
`KVmMgr`'s window. `ExitWithoutVm`, `DeletesHalted`: the dialog closes, and a violation deletes,
only while no machine is on, be it one the handle was never opened on. `ClosedVmReleased`: a
closed machine's handle is released, with the same exception. `NotLockedOut`: if nothing goes
wrong, whenever neither Start nor the download is between file and server, the server's password
opens the file. `LaunchOpens`: a Start that has written the file finds it so at `launchVM`.
`WritersAgree`: the vmplayer and the worker write the file back with the server's password.
`NoPasswordMeansPlain`, `DownloadMeetsPlain`: `encryptVMX` is asked without an old password only
for a file no GUID was put on.

`Undisturbed`: nobody replaces a list under the rule thread, and no two copies are made at once.
`RunOncePerUpload`, `ReportedOnce`: no script runs oftener than it was uploaded, no outcome is
received oftener than it came about. `OwnOutcomes`: what is reported is of the list in force,
until a poll strays. `InForceOrComing`, `RulesInForce`: the running list is the uploaded one or
a copy is on its way, and in the end it is. `OutcomesTaken`: an outcome is picked up as long as
the launcher polls. `KeepsService`: the agent refines `ScriptService`. `OnlyRealViolations`: the
launcher is told of a violation only after a check came out wrong. `TokenOfSession`: the token
is the current session's or none. `OnlyEndedSessionsLeave`: whoever is sent to the login page
has lost the session. `SessionWatched`: the current session has a thread that asks for it.
`GuessesBounded`: no more than three wrong one-time passwords. `EndedSessionNoticed`: the main
page is left after the session has ended. `CompleteIsWhole`: a download that reports completion
gave 7z the whole archive (what 7z made of it nobody looks at). `CanceledByUser`,
`EveryDownloadEnds`: as they say.

**What fails, and where it is stated.** A Start that meets the image's own download needs no
mishap at all: the two rewrite the file and tell the server in any order, and each of
`NotLockedOut`, `WritersAgree` and `LaunchOpens` fails. They are therefore stated of an image no
Start of which has met a download (`NotLockedOut`; a lock-out lasts) or of a Start that met none
(the other two); `KeyOverlap` shows the cause. `NotLockedOut` is broken besides by each of the
six mishaps alone; `WritersAgree` by a crash, by a Start beside the old policy thread and by an
old vmplayer; `LaunchOpens` by an old vmplayer only. What `LaunchOpens` does not say is that a
Start reaches `launchVM` only over a file it has written: a plain or an emptied file that
`encryptVMX` reported as done is refused there (`rewritten` is FALSE). `NoPasswordMeansPlain` is
broken by a failing `kc_set_password` and by a crash. The first cause is the finding of
`KeyLostReply`: `download_unzip` ignores `kc_set_password`'s result (`ClaPageMain.cpp:1465`),
the file is encrypted with a password the server never got, and the next Start passes an empty
one, against the comment at `KVmMgr.cpp:306`. `OwnDescriptor` fails when a launch is refused
(`"decrypt"` in `Faults`), because `lv_strDecryptVmx` is renamed before the refusal and
`lv_strVMX` after it; `LaunchOpens` says of which Starts that is not to be feared. `NoOrphan`,
`ExitWithoutVm` and `DeletesHalted` fail when a power-off fails, which the code does not report.
`Watched` survives that alone, and a failing power-on alone, but not both: a machine that was
not powered off has lost its environment thread with its handle, the next Start of the image
opens it again, the power-on fails over the machine that is on, and nobody watches it. For that
reason the runs of `LauncherPage` have all the faults of a launch and no failing power-off.

In the newer modules the exceptions are part of the properties, as history variables, and each
of them is needed: without it TLC finds a violation. `Undisturbed` ends with the first poll
that `strayed`. `TokenOfSession` and `OnlyEndedSessionsLeave` except an answer that was
`crossed` by a login; `GuessesBounded` a refusal that was `spared`, because another thread's
request left `ERROR_SERVER_DISABLED` or because `OnCancel` cannot close over a running machine.
`EndedSessionNoticed` fails when vague answers of another thread hide the end for ever.
`CompleteIsWhole` and `CanceledByUser` except a `crowded` download, and the first an archive
with something else in it (an error's page, or data from the wrong offset). `EveryDownloadEnds`
excepts a thread that was paused: cancelling does not resume it. `RulesInForce` excepts an
agent that is given up (`AGENT_NOT_FOUND`) and an alert nobody answers; with violation rules it
fails, since `GetViolation` may leave a section that is free and spoil it, and with `"exit"`
too, since nobody posts the lists again. That is why `AgentLive` has no violation rules and no
fault but `"timeout"`.

**Bounds.** Two images in `KVmMgr` (a command on one meets the files of the other), one in
`LauncherPage` (the page's own state has one selection; what two images add is the manager's
and is checked there). Two posted messages unread: the answer to one command waits behind
another's, or a thread's report behind an answer; two boxes, one of the user's and one of a
message's, are open in one another; two environment threads when watching is checked, since
the thread of a closed machine may outlive the next launch, and one elsewhere. Seven GUIDs:
one for each place that can hold its own at the worst moment and one more; with five, a
download or a Start could find no fresh one after mishaps, with seven it always does. The bounds on
messages and boxes are guards: a poster waits, a box is not opened, so no behaviour within the
bound is lost.

`AgentLive`: one script that asks the user, one handler, two copy threads, three uploads (the
first post's two and one more of a changed policy, so that a copy meets an older one).
`AgentFaults`: one script, one violation rule, two handlers (a request given up is still at work
when the next one comes), two copy threads, two uploads: with two handlers a third is out of
TLC's reach; what it adds, a second upload of the scripts, is in `AgentLive`, where the
refinement holds the runs of each upload apart, and in the proofs, which set no bound.
`Session`: two logins (the thread of one meets the session of the other; with three, the safety
properties were checked too), the code's three attempts, four wrong passwords, one more than the
code should take. `Download`: two threads (one left behind and one of the page), two images (the
same one and another), archives of two chunks (a break in the middle), of which one is what
`_wstat` can count, and one retry instead of five. Bounds on uploads, logins and guesses are
guards of the user's and the policy's actions; a history that reaches them goes on without.

**Deadlock** is checked except where the system may stop: in the `LauncherPage` and `Session`
runs the process may end (`page = "exit"`); in `AgentLive` and `AgentFaults` the environment
thread may end and a spoiled section leaves everybody waiting; in `Download` no thread may be
left to start.

**Fairness.** `KVmMgr!Fairness`: the worker thread is scheduled, `launchVM` returns (it only
reads and writes files), the window pumps messages. `LauncherPage!PageFairness`: the same, the
environment thread is scheduled, a sent message is let in at some time the window pumps
(strong, because boxes and commands interrupt the pumping), and the idle dialog closes itself
after a minute (`dlg.m_nMax = 60`). No user action is fair; `ClosedVmReleased` therefore
allows a box that keeps waiting for the user. A violation's warning box is assumed answered.

`AgentRules!Fairness`: threads that can go on do. Strong fairness for entering the section as a
copy thread, since the rule thread sleeps 300 ms outside it, and for getting a thread of the
server, whose connections wait in a queue of 100 for one of 16 threads. None for the alert's
answer, a policy change, a restart. `Session!Fairness`: the shake threads and the window run,
boxes are dismissed, and of the checks that are sent again and again some are answered
(strong). `Download!Fairness`: a thread that is not suspended runs, its requests end one way or
the other, its box is dismissed; the user need not click anything.

## 4. The proofs

Every invariant, every action property and both refinements the passing runs check are also
proved, in the modules named `*_proofs`; the runs show them on a small instance, the theorems for
every value of the constants the hypotheses allow. A hypothesis is there where TLC finds the
property violated without it (section 3), and only there.

**`KVmMgr_proofs`** proves for every set of images, every `Faults` and every `MaxMsgs` that
`Spec` implies `[]` of `TypeOK`, `CommandPending`, `SlotIsWorkers`, `FilesHaveOneOwner` and
`NoPlainLeftBehind`, and that it implements `VmService`; `OwnDescriptor` under
`"decrypt" \notin Faults`; `NoOrphan` under `"powerOff" \notin Faults`.

None of these is inductive alone. `IInv` adds where each variable may be at each of the
worker's steps:
- `Handover`: a taken slot is with `launchVM`, the event or the worker; these three exclude
  one another, so a second command cannot get in between.
- `OnTheSlot`: from `Dispatch` to `Clear` the slot is `wcmd`, a launch's steps belong to
  "start", a halt's to the others.
- `LaunchPaths`: during a launch both paths name the same image, and the handle after the
  opening.
- `PlainFiles`: `NoPlainLeftBehind` itself.

`OwnFiles` and `PowerKnown` strengthen it for the two conditional theorems: without refused
launches the two paths never differ when the worker uses them; without failing power-offs
nothing but the handle's machine is on. One lemma per conjunct shows that every action
preserves it. The refinement maps `busy` to the slot, except at `clear`, where the message is
out already and the command is over as far as the window can tell.

`CommandsEnd` is the part of `Served` that needs no fairness. `Left` is the number of steps a
command has before it, at most nine; every step of a thread at work on it makes it less, and no
other step makes it more while the slot is taken. What `Served` adds is only that the threads
take their steps.

**`LauncherPage_proofs`** is about the page and the manager under it, for any number of images,
environment threads, boxes and messages. The page has some thirty steps, but they do only ten
different things to the manager, the effects: a launch, a renaming, a halt asked for, a report
read, and so on. The lemma `Effects` sorts the steps, and the invariants over the manager's
variables are shown effect by effect.

- *With a session that may end at any moment.* The `suspendVM` of a lost session overwrites the
  slot of a command in progress, so that the manager's `IInv` does not hold. `Base` is what does:
  the types, `CommandPending`, no launch beside a halt or before its message is read
  (`HaltsAlone`), and a handle that is open or closed at the steps that rely on it
  (`HandleSteps`). From it follows `CommandPending`, and `PageTypeOK` is proved besides, with no
  hypothesis. `Power` adds that nothing is on but the handle's machine; it needs honest power-offs, and gives
  `NoOrphan`, `ExitWithoutVm` and `DeletesHalted`. `OwnFiles` adds that the two paths differ only
  inside `launchVM`, where no halt is carried out; it needs keys that open, and gives
  `OwnDescriptor`.
- *While the session lasts.* `PageIsWindow` shows that the page, with the messages of its queue
  that are the manager's, is a window of `KVmMgr`: `Spec` of that module holds of it
  (`ManagerSpec`). The lemmas `PostSeen`, `PostUnseen`, `ReadSeen` and `ReadUnseen` say what a
  message of the page's is to the manager's queue: nothing. By that theorem all that is
  proved of `KVmMgr` is proved of the launcher (`PageKeepsSlot`, `PageOwnsFiles`,
  `PageLeavesNoPlain`, `PageIsServed`, `PageCommandsEnd`).
- *Watching.* `RunningIsWatched` holds but for `overtaken`. `Watch` is its invariant: when the
  slot of a machine that is on becomes free, an environment thread is alive or a message that
  leads to one or to a halt is in the queue, and this stays so until the slot is taken again;
  `PowersOnce` holds the two faults apart.

**`Selections_proofs`** proves what `Selected` does when an element is appended to the sequence and
when the first one is taken, by induction on its length. The library's induction theorems have an
operator as their parameter, which the provers cannot instantiate; here the induction is over a
*set* of numbers, from `NatLessThanWellFounded` and `WFMin` (`Induct`), and the recursive function
is shown to exist by the same means (`SelectsExists`).

**`VmxKey_proofs`** proves `KeyTypeOK`, `LaunchOpens`, `WritersAgree` and `NotLockedOut` for
every set of GUIDs and of mishaps; the exceptions are in the properties. `Exclusive` says that a
Start that met no download has the file for itself, and what it has written there until the
launch; `Agreement` which places hold the server's password when, after such a Start; `Opened`
which password the file has at each step of Start and of the download before any two of them
have met.

**`AgentRules_proofs`** proves `AgentTypeOK`, `Undisturbed`, `RunOncePerUpload`, `ReportedOnce`,
`InForceOrComing`, `OnlyRealViolations` and `KeepsService` for all finite sets of scripts and
copy threads, all rules, handlers and faults. The inductive invariant counts: `RunInv` bounds
the runs of a script by `ran + Cardinality(Pending) + Waiting <= uploads`, where `Pending` are
the copies that may still revive it and `Waiting` is one while it is ready; `ReportInv` bounds
what was received by what was run less what is still with an answer, unmarked or being carried
out. `SectionInv` says who may be inside the section in each of its states, `AccuseInv` where an
accusation may be before a check failed. The refinement maps a script that is being run to
"waiting", because its outcome is only there when the flag is written. `AtScript` is what it
needs: the script the rule thread is at is as the thread left it or, after a poll that strayed,
absent or ready again because a copy put another list in its place. In the latter case a script
that waits may have the outcome of the list before to report, which `ScriptService` does not
see; `OutcomesAreOwn` proves that this needs a poll that strayed.

**`Session_proofs`** proves the five invariants of the run for any number of logins, attempts and
any faults. `Counted` relates the attempts left to the wrong passwords, `NotYet` and `Alone`
say which threads exist and which of them the boxes belong to, `CurrentAsked` and
`CurrentFields` what the answers and fields of the current session may be when no answer was
crossed.

**`Download_proofs`** proves the three invariants of the run for any threads, images, sizes and
retries. `Alone` says that there is one active thread unless crowded, `Held`, `Opened` and
`Filling` relate the archive, who has it open and what is still to come: chunks there and
chunks left make the whole, unless junk was written. That what was `handed` to 7z is whole is
all `CompleteMeansWhole` claims of a completed download. `DownloadsAdvance` is the part of
`EveryDownloadEnds` that needs no fairness: each step of a thread takes it to a later attempt, a
later place in this one, or a chunk further, and no step of anybody else sets it back.

Assumptions on constants are the `ASSUME`s of the modules: distinct special values, `Faults`
and `Mishaps` among their kinds, a positive queue bound.

**Only model-checked**: the liveness properties `Served`, `ClosedVmReleased`, `RulesInForce`,
`OutcomesTaken`, `EndedSessionNoticed` and `EveryDownloadEnds`, since liveness under fairness
and `ENABLED` are out of the prover's reach, and that `NoPasswordMeansPlain` and
`DownloadMeetsPlain` fail.

## 5. Not modelled

- Third-party code (`cmn_poco`, `cmn_net`, `cmn_detour`, `cmn_vm17`, `cmn_zip`, the four copies
  of `json.hpp`) is by far the most of the tree's lines, with the toolkit of tree and list
  controls; none of it is this program's own logic. The share of all lines the models cover is
  small for that reason.
- Dialogs, drawing, tray, clipboard and screen hooks of KenanHelperVM, window affinity: pure
  user interface, or state that is a handful of policy flags. The clipboard's shared state is
  in the plan.
- Of the agent: the port list and its node client, registry writes, what an update's archive
  holds.
- Of the server connection: the parsing of the configuration, reports, administration calls.
  Their answers are inputs of the models. The lists the launcher uploads are composed by it and
  well formed: a handler that throws while it refills a list (`MIServer.cpp:944-968`, `1038-1057`)
  is not modelled.
- Of the main page: the list, deleting images from it, the post when the QR code is seen (once
  more `/ip` and the ports), the update's download.
- The agent's service and firewall, the update application, the file redirector's handles:
  small, in the plan.
- The cipher: a file opens with the key it was written with, and with no other.

## 6. The plan

Done: `VmService`, `KVmMgr`, `LauncherPage`, `VmxKey`, `ScriptService`, `AgentRules` (with the posts
and retries of the launcher's threads), `Session`, `Download`, with the runs and proofs above.

Next, in this order:
1. The parts of the other liveness properties that need no fairness, as `CommandsEnd` and
   `DownloadsAdvance` are for two of them: that an upload's copy is never undone by an earlier
   one, that an outcome stays until it is read.
2. A bound on what a session that ends can do: which of the manager's invariants hold again once
   the command it overwrote is over.
3. `Download` composed with `VmxKey`, so that two downloads of one image can meet as a Start and a
   download do.
4. `Redirector` – which of `.vmx` and `.vml` a process sees, open handles.
5. `FirewallScope` (an address ending in .0 or .255), `Update` (delete, copy, failure between
   the two), the agent's service, the clipboard state.
6. Two rule threads in `AgentRules`, by making test and creation two steps.

Not planned: dialogs and drawing, third-party code, the cipher's strength, Windows session
enumeration, the older launcher.
