------------------------------- MODULE KVmMgr -------------------------------
(***************************************************************************)
(* The VM manager of the launcher, src/kenan/KVmMgr.cpp.                   *)
(*                                                                         *)
(* The window's thread asks for a command by writing the one command slot  *)
(* lv_nVmProc and setting the auto-reset event lv_mutexVm; the worker      *)
(* thread TF_VM_PROCESS consumes the event, reads the slot, drives VMware  *)
(* through VIX, tidies up the decrypted descriptor (.vml), posts a message *)
(* to the window and only then clears the slot.  The slot is not locked:   *)
(* that callers first test isWorking() is all that protects it.  The       *)
(* callers of this module do, as ClaPageMain does; CKLauncherDlg, which    *)
(* does not, is in LauncherPage.tla.                                       *)
(*                                                                         *)
(* VMware is external: its power states, and the vmplayer process that     *)
(* KenanHelperVM is injected into, which rewrites the .vml it was sent to  *)
(* and puts it back, encrypted, when it ends.  A power-on of an image whose *)
(* vmplayer has not ended yet is taken up by that process.                 *)
(***************************************************************************)
EXTENDS Naturals, Sequences

CONSTANTS
    Images,      \* the VM images on the disk
    None,        \* the empty path, the NULL handle, no file
    Faults,      \* which external calls may fail
    MaxMsgs      \* bound on the messages waiting in the window's queue

FaultKinds == {"decrypt", "open", "powerOn", "powerOff"}

ASSUME NoneAssumption    == None \notin Images
ASSUME FaultsAssumption  == Faults \subseteq FaultKinds
ASSUME MaxMsgsAssumption == MaxMsgs \in Nat \ {0}

VARIABLES
    lv_nVmProc,        \* the command slot
    lv_mutexVm,        \* is the auto-reset event set?
    wpc,               \* what the worker does next
    wcmd,              \* the command the worker read from the slot
    caller,            \* the image launchVM is decrypting, or None
    lv_strVMX,         \* descriptor the worker launches and re-encrypts
    lv_strDecryptVmx,  \* image whose .vml was named last
    lv_handleVM,       \* image the VIX handle is open on, or None
    m_strVMX,          \* path that isRunning() tests for being empty
    powered,           \* external: images whose virtual machine is powered on
    player,            \* external: player[i] is the descriptor i's vmplayer loaded
    vml,               \* vml[i]: the descriptor i's decrypted .vml file holds
    disk,              \* disk[i]: the descriptor i's encrypted .vmx file holds
    msgs               \* messages posted to the window, oldest first

callVars   == <<lv_nVmProc, lv_mutexVm, caller>>
workerVars == <<wpc, wcmd>>
pathVars   == <<lv_strVMX, lv_strDecryptVmx>>
vmVars     == <<powered, player>>
fileVars   == <<vml, disk>>
vars == <<callVars, workerVars, pathVars, lv_handleVM, m_strVMX, vmVars, fileVars, msgs>>

Commands == {"start", "stop", "suspend"}
LaunchSteps == {"release", "open", "powerOn", "launchOk", "launchFail"}
HaltSteps   == {"powerOff", "drop", "encrypt", "halted"}
WorkerSteps == {"wait", "woken", "clear"} \cup LaunchSteps \cup HaltSteps

-----------------------------------------------------------------------------
Init ==
    /\ lv_nVmProc = "unknown"
    /\ lv_mutexVm = FALSE
    /\ wpc = "wait"
    /\ wcmd = "unknown"
    /\ caller = None
    /\ lv_strVMX = None
    /\ lv_strDecryptVmx = None
    /\ lv_handleVM = None
    /\ m_strVMX = None
    /\ powered = {}
    /\ player = [i \in Images |-> None]
    /\ vml = [i \in Images |-> None]
    /\ disk = [i \in Images |-> i]
    /\ msgs = <<>>

isWorking == lv_nVmProc # "unknown"

\* The handle alone decides: the path is only tested for being empty.
isRunning ==
    /\ m_strVMX # None
    /\ lv_handleVM \in powered

Post(m) ==
    /\ Len(msgs) < MaxMsgs
    /\ msgs' = Append(msgs, m)

\* The decrypted copy is on the disk.
Decrypted(i) == i \in Images /\ vml[i] # None

Delete(i) == IF i \in Images THEN [vml EXCEPT ![i] = None] ELSE vml

-----------------------------------------------------------------------------
(* Called on the window's thread.                                          *)

\* Mutant of LaunchBegin: the .vml is only named once.
LaunchBeginNamed(i) ==
    /\ caller = None
    /\ caller' = i
    /\ lv_nVmProc' = "start"
    /\ lv_strDecryptVmx' = IF lv_strDecryptVmx = None THEN i ELSE lv_strDecryptVmx
    /\ UNCHANGED <<lv_mutexVm, workerVars, lv_strVMX, lv_handleVM, vmVars, fileVars, msgs>>

\* launchVM up to the decryption: the slot is taken before there is anything to run.
LaunchBegin(i) ==
    /\ caller = None
    /\ caller' = i
    /\ lv_nVmProc' = "start"
    /\ lv_strDecryptVmx' = i
    /\ UNCHANGED <<lv_mutexVm, workerVars, lv_strVMX, lv_handleVM, vmVars, fileVars, msgs>>

\* The key does not open the descriptor: the slot is given back.
LaunchRefused ==
    /\ "decrypt" \in Faults
    /\ caller # None
    /\ caller' = None
    /\ lv_nVmProc' = "unknown"
    /\ UNCHANGED <<lv_mutexVm, workerVars, pathVars, lv_handleVM, m_strVMX, vmVars, fileVars, msgs>>

\* The decrypted copy is written and the worker is woken.
LaunchReady ==
    /\ caller # None
    /\ caller' = None
    /\ vml' = [vml EXCEPT ![caller] = disk[caller]]
    /\ lv_strVMX' = caller
    /\ lv_mutexVm' = TRUE
    /\ UNCHANGED <<lv_nVmProc, workerVars, lv_strDecryptVmx, lv_handleVM, m_strVMX, vmVars, disk, msgs>>

\* Mutant of Request: the event is not set.
RequestUnheard(c) ==
    /\ lv_nVmProc' = c
    /\ UNCHANGED <<lv_mutexVm, workerVars, caller, pathVars, lv_handleVM, m_strVMX, vmVars, fileVars, msgs>>

\* stopVM and suspendVM: write the slot, set the event.
Request(c) ==
    /\ lv_nVmProc' = c
    /\ lv_mutexVm' = TRUE
    /\ UNCHANGED <<workerVars, caller, pathVars, lv_handleVM, m_strVMX, vmVars, fileVars, msgs>>

-----------------------------------------------------------------------------
(* The worker thread, KVmMgr::_vm_process.  A wait that times out changes  *)
(* nothing.                                                                *)

Goto(from, to) == wpc = from /\ wpc' = to

Wake ==
    /\ lv_mutexVm
    /\ lv_mutexVm' = FALSE
    /\ Goto("wait", "woken")
    /\ UNCHANGED <<lv_nVmProc, wcmd, caller, pathVars, lv_handleVM, m_strVMX, vmVars, fileVars, msgs>>

Dispatch ==
    /\ \/ lv_nVmProc = "unknown" /\ Goto("woken", "wait")
       \/ lv_nVmProc = "start" /\ Goto("woken", "release")
       \/ lv_nVmProc \in {"stop", "suspend"} /\ Goto("woken", "powerOff")
    /\ wcmd' = lv_nVmProc
    /\ UNCHANGED <<callVars, pathVars, lv_handleVM, m_strVMX, vmVars, fileVars, msgs>>

\* _launchVM first releases whatever handle is left.
LaunchRelease ==
    /\ Goto("release", "open")
    /\ lv_handleVM' = None
    /\ UNCHANGED <<callVars, wcmd, pathVars, m_strVMX, vmVars, fileVars, msgs>>

\* Opening needs the decrypted copy, which an old vmplayer of the image may have deleted.
LaunchOpen ==
    /\ \/ /\ Goto("open", "powerOn")
          /\ Decrypted(lv_strVMX)
          /\ lv_handleVM' = lv_strVMX
       \/ /\ Goto("open", "launchFail")
          /\ "open" \in Faults \/ ~Decrypted(lv_strVMX)
          /\ UNCHANGED lv_handleVM
    /\ UNCHANGED <<callVars, wcmd, pathVars, m_strVMX, vmVars, fileVars, msgs>>

\* A failed power-on leaves the handle open.
LaunchPowerOn ==
    /\ \/ /\ Goto("powerOn", "launchOk")
          /\ powered' = powered \cup {lv_handleVM}
          /\ player' = [player EXCEPT ![lv_handleVM] = disk[lv_handleVM]]
          /\ m_strVMX' = lv_strVMX
       \/ /\ "powerOn" \in Faults
          /\ Goto("powerOn", "launchFail")
          /\ UNCHANGED <<vmVars, m_strVMX>>
    /\ UNCHANGED <<callVars, wcmd, pathVars, lv_handleVM, fileVars, msgs>>

\* Mutant of LaunchDone: a launch that failed leaves the decrypted copy.
LaunchDoneLeaving ==
    /\ \/ Goto("launchOk", "clear") /\ Post("launched") /\ vml' = Delete(lv_strDecryptVmx)
       \/ Goto("launchFail", "clear") /\ Post("launchFailed") /\ vml' = vml
    /\ UNCHANGED <<callVars, wcmd, pathVars, lv_handleVM, m_strVMX, vmVars, disk>>

\* The decrypted copy is deleted and the window told; the slot is still taken.
LaunchDone ==
    /\ \/ Goto("launchOk", "clear") /\ Post("launched")
       \/ Goto("launchFail", "clear") /\ Post("launchFailed")
    /\ vml' = Delete(lv_strDecryptVmx)
    /\ UNCHANGED <<callVars, wcmd, pathVars, lv_handleVM, m_strVMX, vmVars, disk>>

\* VixVM_PowerOff / VixVM_Suspend, skipped without a handle; a failure is not reported.
HaltPowerOff ==
    /\ Goto("powerOff", "drop")
    /\ \/ powered' = powered \ {lv_handleVM}
       \/ "powerOff" \in Faults /\ UNCHANGED powered
    /\ UNCHANGED <<callVars, wcmd, pathVars, lv_handleVM, m_strVMX, player, fileVars, msgs>>

HaltDrop ==
    /\ Goto("drop", "encrypt")
    /\ lv_handleVM' = None
    /\ UNCHANGED <<callVars, wcmd, pathVars, m_strVMX, vmVars, fileVars, msgs>>

\* Mutant of HaltEncrypt: the .vmx is overwritten even when there is no .vml.
HaltEncryptNothing ==
    /\ Goto("encrypt", "halted")
    /\ disk' = IF lv_strVMX # None /\ lv_strDecryptVmx # None
               THEN [disk EXCEPT ![lv_strVMX] = vml[lv_strDecryptVmx]]
               ELSE disk
    /\ vml' = Delete(lv_strDecryptVmx)
    /\ UNCHANGED <<callVars, wcmd, pathVars, lv_handleVM, m_strVMX, vmVars, msgs>>

\* What the player left in the .vml goes back, encrypted, into the .vmx; without a .vml
\* the .vmx is left as it is.
HaltEncrypt ==
    /\ Goto("encrypt", "halted")
    /\ disk' = IF lv_strVMX # None /\ Decrypted(lv_strDecryptVmx)
               THEN [disk EXCEPT ![lv_strVMX] = vml[lv_strDecryptVmx]]
               ELSE disk
    /\ vml' = Delete(lv_strDecryptVmx)
    /\ UNCHANGED <<callVars, wcmd, pathVars, lv_handleVM, m_strVMX, vmVars, msgs>>

\* Mutant of HaltDone: a suspend answers as a stop.
HaltDoneStopped ==
    /\ Goto("halted", "clear")
    /\ Post("stopped")
    /\ UNCHANGED <<callVars, wcmd, pathVars, lv_handleVM, m_strVMX, vmVars, fileVars>>

HaltDone ==
    /\ Goto("halted", "clear")
    /\ Post(IF wcmd = "stop" THEN "stopped" ELSE "suspended")
    /\ UNCHANGED <<callVars, wcmd, pathVars, lv_handleVM, m_strVMX, vmVars, fileVars>>

\* Mutant of Clear: after a suspend the slot stays taken.
ClearForgotten ==
    /\ Goto("clear", "wait")
    /\ lv_nVmProc' = IF wcmd = "suspend" THEN lv_nVmProc ELSE "unknown"
    /\ UNCHANGED <<lv_mutexVm, wcmd, caller, pathVars, lv_handleVM, m_strVMX, vmVars, fileVars, msgs>>

Clear ==
    /\ Goto("clear", "wait")
    /\ lv_nVmProc' = "unknown"
    /\ UNCHANGED <<lv_mutexVm, wcmd, caller, pathVars, lv_handleVM, m_strVMX, vmVars, fileVars, msgs>>

Worker ==
    \/ Wake \/ Dispatch
    \/ LaunchRelease \/ LaunchOpen \/ LaunchPowerOn \/ LaunchDone
    \/ HaltPowerOff \/ HaltDrop \/ HaltEncrypt \/ HaltDone
    \/ Clear

-----------------------------------------------------------------------------
(* VMware and the vmplayer process of an image.                            *)

\* The user closes the virtual machine.
GuestOff(i) ==
    /\ i \in powered
    /\ powered' = powered \ {i}
    /\ UNCHANGED <<callVars, workerVars, pathVars, lv_handleVM, m_strVMX, player, fileVars, msgs>>

\* The player saves its descriptor; KenanVmxRedirector sends the .vmx it names to the .vml.
PlayerWrites(i) ==
    /\ player[i] # None
    /\ vml' = [vml EXCEPT ![i] = player[i]]
    /\ UNCHANGED <<callVars, workerVars, pathVars, lv_handleVM, m_strVMX, vmVars, disk, msgs>>

\* The player ends: CKenanHelperVMApp::ExitInstance encrypts its .vml and deletes it.
PlayerEnds(i) ==
    /\ player[i] # None
    /\ i \notin powered
    /\ player' = [player EXCEPT ![i] = None]
    /\ disk' = IF vml[i] # None THEN [disk EXCEPT ![i] = vml[i]] ELSE disk
    /\ vml' = Delete(i)
    /\ UNCHANGED <<callVars, workerVars, pathVars, lv_handleVM, m_strVMX, powered, msgs>>

External == \E i \in Images : GuestOff(i) \/ PlayerWrites(i) \/ PlayerEnds(i)

-----------------------------------------------------------------------------
(* The manager with a window that asks only when isWorking() is false, as  *)
(* OnBnClickedBtnStart and onAfterStopVM do.                               *)

\* Mutants of Launch: isWorking() is not tested; isRunning() is not.
LaunchWhileWorking(i) ==
    /\ lv_handleVM \notin powered
    /\ m_strVMX' = i
    /\ LaunchBegin(i)

LaunchWhileRunning(i) ==
    /\ ~isWorking
    /\ m_strVMX' = i
    /\ LaunchBegin(i)

\* OnBnClickedBtnStart names the image to isRunning() before it asks.
Launch(i) ==
    /\ ~isWorking
    /\ lv_handleVM \notin powered
    /\ m_strVMX' = i
    /\ LaunchBegin(i)

\* A Start that goes no further (the VM is running, the server is not reached) has named it.
NameOnly(i) ==
    /\ ~isWorking
    /\ caller = None
    /\ m_strVMX' = i
    /\ UNCHANGED <<callVars, workerVars, pathVars, lv_handleVM, vmVars, fileVars, msgs>>

\* Mutant of Halt: isWorking() is not tested.
HaltWhileWorking(c) == caller = None /\ Request(c)

Halt(c) == ~isWorking /\ caller = None /\ Request(c)

\* The window reads a message; for a halt it forgets the path (onAfterVMStoped).
ReadMessage ==
    /\ caller = None
    /\ msgs # <<>>
    /\ msgs' = Tail(msgs)
    /\ m_strVMX' = IF Head(msgs) \in {"stopped", "suspended"} THEN None ELSE m_strVMX
    /\ UNCHANGED <<callVars, workerVars, pathVars, lv_handleVM, vmVars, fileVars>>

Window ==
    \/ \E i \in Images : Launch(i) \/ NameOnly(i)
    \/ LaunchRefused
    \/ LaunchReady
    \/ \E c \in {"stop", "suspend"} : Halt(c)
    \/ ReadMessage

Next == Window \/ Worker \/ External

Spec == Init /\ [][Next]_vars

\* The two threads are scheduled, launchVM returns, and the window pumps its messages.
Fairness ==
    /\ WF_vars(Worker)
    /\ WF_vars(LaunchReady \/ LaunchRefused)
    /\ WF_vars(ReadMessage)

FairSpec == Spec /\ Fairness

-----------------------------------------------------------------------------
(* Properties.                                                             *)

TypeOK ==
    /\ lv_nVmProc \in Commands \cup {"unknown"}
    /\ lv_mutexVm \in BOOLEAN
    /\ wpc \in WorkerSteps
    /\ wcmd \in Commands \cup {"unknown"}
    /\ caller \in Images \cup {None}
    /\ lv_strVMX \in Images \cup {None}
    /\ lv_strDecryptVmx \in Images \cup {None}
    /\ lv_handleVM \in Images \cup {None}
    /\ m_strVMX \in Images \cup {None}
    /\ powered \subseteq Images
    /\ player \in [Images -> Images \cup {None}]
    /\ vml \in [Images -> Images \cup {None}]
    /\ disk \in [Images -> Images]
    /\ msgs \in Seq({"launched", "launchFailed", "stopped", "suspended"})

\* No accepted command is lost between the slot and the event: while the slot is taken,
\* launchVM has yet to return, the event is set, or the worker is on its way to clear it.
CommandPending == isWorking => caller # None \/ lv_mutexVm \/ wpc # "wait"

\* Nobody writes the slot under the worker's feet: what it carries out is what the slot
\* says, and it ends by clearing the command it did and no later one.
SlotIsWorkers == wpc \in LaunchSteps \cup HaltSteps \cup {"clear"} => lv_nVmProc = wcmd

\* The window decrypts a descriptor only while the worker touches no file and no handle.
FilesHaveOneOwner == caller # None => wpc = "wait"

\* A decrypted descriptor is on the disk only while the manager is at work on that image,
\* or while the image's vmplayer, which deletes it when it ends, is there.
NoPlainLeftBehind ==
    \A i \in Images :
        vml[i] # None => player[i] # None \/ (isWorking /\ lv_strDecryptVmx = i)

\* One image's descriptor is never encrypted over another image's .vmx.
OwnDescriptor == \A i \in Images : disk[i] = i

\* The launcher never loses the handle of a virtual machine that is still powered on.
NoOrphan == powered \subseteq {lv_handleVM}

\* The manager implements VmService: what it owes the window is settled the moment the
\* message is posted, the clearing of the slot comes after.
Service == INSTANCE VmService WITH
    busy <- IF wpc = "clear" THEN "unknown" ELSE lv_nVmProc,
    done <- msgs

ServiceSpec == Service!Spec

\* Every command the manager accepts is completed.
Served == Service!Served
=============================================================================
