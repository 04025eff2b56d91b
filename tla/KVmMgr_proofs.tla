--------------------------- MODULE KVmMgr_proofs ----------------------------
(***************************************************************************)
(* The safety properties of KVmMgr and its refinement of VmService, for    *)
(* every set of images and every bound on the message queue.               *)
(***************************************************************************)
EXTENDS KVmMgr, TLAPS

-----------------------------------------------------------------------------
(* The inductive invariant.                                                *)

\* Every decrypted descriptor has a vmplayer that will delete it.
Clean == \A i \in Images : vml[i] # None => player[i] # None

\* The three places a command can be in - launchVM, the event, the worker - exclude
\* one another, and one of them holds it exactly while the slot is taken.
Handover ==
    /\ isWorking <=> \/ caller # None
                     \/ lv_mutexVm
                     \/ wpc # "wait"
    /\ lv_mutexVm => caller = None /\ wpc = "wait"
    /\ caller # None => wpc = "wait" /\ lv_nVmProc = "start"

\* The worker carries out what the slot says.
OnTheSlot ==
    /\ wpc \in LaunchSteps => lv_nVmProc = "start"
    /\ wpc \in HaltSteps => lv_nVmProc \in {"stop", "suspend"}
    /\ wpc \in LaunchSteps \cup HaltSteps \cup {"clear"} => wcmd = lv_nVmProc

\* What a launch works on is what launchVM left for it.
LaunchPaths ==
    /\ caller # None => lv_strDecryptVmx = caller
    /\ lv_nVmProc = "start" /\ caller = None =>
          lv_strVMX # None /\ lv_strVMX = lv_strDecryptVmx
    /\ wpc \in {"powerOn", "launchOk"} => lv_handleVM = lv_strVMX

\* No decrypted descriptor is left when the worker is past its DeleteFile, nor before
\* launchVM writes one.
PlainFiles ==
    /\ NoPlainLeftBehind
    /\ wpc \in {"halted", "clear"} => Clean
    /\ caller # None => Clean

IInv == TypeOK /\ Handover /\ OnTheSlot /\ LaunchPaths /\ PlainFiles

\* When every key opens its descriptor the two paths agree, and each file holds its own.
OwnFiles ==
    /\ caller = None => lv_strVMX = lv_strDecryptVmx
    /\ \A i \in Images : vml[i] \in {None, i} /\ player[i] \in {None, i}
    /\ OwnDescriptor

\* When every power-off powers off, nothing runs from the request of a launch to its
\* power-on, nor after the power-off.
PowerKnown ==
    /\ NoOrphan
    /\ caller # None => powered = {}
    /\ lv_mutexVm /\ lv_nVmProc = "start" => powered = {}
    /\ wpc = "woken" /\ lv_nVmProc = "start" => powered = {}
    /\ wpc \in {"release", "open", "powerOn", "drop"} => powered = {}

-----------------------------------------------------------------------------
\* Every step of the manager keeps the variables in their types.
LEMMA TypeStep ==
    ASSUME IInv, [Next]_vars
    PROVE  TypeOK'
<1> USE NoneAssumption DEF IInv, TypeOK, Handover, OnTheSlot, LaunchPaths, isWorking, LaunchSteps, HaltSteps,
           WorkerSteps, Commands, callVars, workerVars, pathVars, vmVars, fileVars
<1>1. ASSUME NEW i \in Images, Launch(i)
      PROVE  TypeOK'
  BY <1>1 DEF Launch, LaunchBegin
<1>2. ASSUME LaunchRefused
      PROVE  TypeOK'
  BY <1>2 DEF LaunchRefused
<1>3. ASSUME LaunchReady
      PROVE  TypeOK'
  BY <1>3 DEF LaunchReady
<1>4. ASSUME NEW c \in {"stop", "suspend"}, Halt(c)
      PROVE  TypeOK'
  BY <1>4 DEF Halt, Request
<1>5. ASSUME ReadMessage
      PROVE  TypeOK'
  BY <1>5 DEF ReadMessage
<1>6. ASSUME Wake
      PROVE  TypeOK'
  BY <1>6 DEF Wake, Goto
<1>7. ASSUME Dispatch
      PROVE  TypeOK'
  BY <1>7 DEF Dispatch, Goto
<1>8. ASSUME LaunchRelease
      PROVE  TypeOK'
  BY <1>8 DEF LaunchRelease, Goto
<1>9. ASSUME LaunchOpen
      PROVE  TypeOK'
  BY <1>9 DEF LaunchOpen, Goto, Decrypted
<1>10. ASSUME LaunchPowerOn
      PROVE  TypeOK'
  BY <1>10 DEF LaunchPowerOn, Goto
<1>11. ASSUME LaunchDone
      PROVE  TypeOK'
  BY <1>11 DEF LaunchDone, Goto, Post, Delete
<1>12. ASSUME HaltPowerOff
      PROVE  TypeOK'
  BY <1>12 DEF HaltPowerOff, Goto
<1>13. ASSUME HaltDrop
      PROVE  TypeOK'
  BY <1>13 DEF HaltDrop, Goto
<1>14. ASSUME HaltEncrypt
      PROVE  TypeOK'
  BY <1>14 DEF HaltEncrypt, Goto, Delete, Decrypted
<1>15. ASSUME HaltDone
      PROVE  TypeOK'
  BY <1>15 DEF HaltDone, Goto, Post
<1>16. ASSUME Clear
      PROVE  TypeOK'
  BY <1>16 DEF Clear, Goto
<1>17. ASSUME NEW i \in Images, GuestOff(i)
      PROVE  TypeOK'
  BY <1>17 DEF GuestOff
<1>18. ASSUME NEW i \in Images, PlayerWrites(i)
      PROVE  TypeOK'
  BY <1>18 DEF PlayerWrites
<1>19. ASSUME NEW i \in Images, PlayerEnds(i)
      PROVE  TypeOK'
  BY <1>19 DEF PlayerEnds, Delete
<1>20. ASSUME NEW i \in Images, NameOnly(i)
      PROVE  TypeOK'
  BY <1>20 DEF NameOnly
<1>21. CASE UNCHANGED vars
  BY <1>21 DEF vars
<1> QED
  BY <1>1, <1>2, <1>3, <1>4, <1>5, <1>6, <1>7, <1>8, <1>9, <1>10, <1>11, <1>12, <1>13, <1>14, <1>15, <1>16, <1>17, <1>18, <1>19, <1>20, <1>21 DEF Next, Window, Worker, External

\* A command stays in one of its three places until the worker clears the slot: launchVM
\* hands it to the event, the wait that consumes the event hands it to the worker.
LEMMA HandoverStep ==
    ASSUME IInv, [Next]_vars
    PROVE  Handover'
<1> USE NoneAssumption DEF IInv, TypeOK, Handover, OnTheSlot, LaunchPaths, isWorking, LaunchSteps, HaltSteps,
           WorkerSteps, Commands, callVars, workerVars, pathVars, vmVars, fileVars
<1>1. ASSUME NEW i \in Images, Launch(i)
      PROVE  Handover'
  BY <1>1 DEF Launch, LaunchBegin
<1>2. ASSUME LaunchRefused
      PROVE  Handover'
  BY <1>2 DEF LaunchRefused
<1>3. ASSUME LaunchReady
      PROVE  Handover'
  BY <1>3 DEF LaunchReady
<1>4. ASSUME NEW c \in {"stop", "suspend"}, Halt(c)
      PROVE  Handover'
  BY <1>4 DEF Halt, Request
<1>5. ASSUME ReadMessage
      PROVE  Handover'
  BY <1>5 DEF ReadMessage
<1>6. ASSUME Wake
      PROVE  Handover'
  BY <1>6 DEF Wake, Goto
<1>7. ASSUME Dispatch
      PROVE  Handover'
  BY <1>7 DEF Dispatch, Goto
<1>8. ASSUME LaunchRelease
      PROVE  Handover'
  BY <1>8 DEF LaunchRelease, Goto
<1>9. ASSUME LaunchOpen
      PROVE  Handover'
  BY <1>9 DEF LaunchOpen, Goto, Decrypted
<1>10. ASSUME LaunchPowerOn
      PROVE  Handover'
  BY <1>10 DEF LaunchPowerOn, Goto
<1>11. ASSUME LaunchDone
      PROVE  Handover'
  BY <1>11 DEF LaunchDone, Goto, Post, Delete
<1>12. ASSUME HaltPowerOff
      PROVE  Handover'
  BY <1>12 DEF HaltPowerOff, Goto
<1>13. ASSUME HaltDrop
      PROVE  Handover'
  BY <1>13 DEF HaltDrop, Goto
<1>14. ASSUME HaltEncrypt
      PROVE  Handover'
  BY <1>14 DEF HaltEncrypt, Goto, Delete, Decrypted
<1>15. ASSUME HaltDone
      PROVE  Handover'
  BY <1>15 DEF HaltDone, Goto, Post
<1>16. ASSUME Clear
      PROVE  Handover'
  BY <1>16 DEF Clear, Goto
<1>17. ASSUME NEW i \in Images, GuestOff(i)
      PROVE  Handover'
  BY <1>17 DEF GuestOff
<1>18. ASSUME NEW i \in Images, PlayerWrites(i)
      PROVE  Handover'
  BY <1>18 DEF PlayerWrites
<1>19. ASSUME NEW i \in Images, PlayerEnds(i)
      PROVE  Handover'
  BY <1>19 DEF PlayerEnds, Delete
<1>20. ASSUME NEW i \in Images, NameOnly(i)
      PROVE  Handover'
  BY <1>20 DEF NameOnly
<1>21. CASE UNCHANGED vars
  BY <1>21 DEF vars
<1> QED
  BY <1>1, <1>2, <1>3, <1>4, <1>5, <1>6, <1>7, <1>8, <1>9, <1>10, <1>11, <1>12, <1>13, <1>14, <1>15, <1>16, <1>17, <1>18, <1>19, <1>20, <1>21 DEF Next, Window, Worker, External

\* The worker branches on the slot, and nobody writes the slot before it is done.
LEMMA OnTheSlotStep ==
    ASSUME IInv, [Next]_vars
    PROVE  OnTheSlot'
<1> USE NoneAssumption DEF IInv, TypeOK, Handover, OnTheSlot, LaunchPaths, isWorking, LaunchSteps, HaltSteps,
           WorkerSteps, Commands, callVars, workerVars, pathVars, vmVars, fileVars
<1>1. ASSUME NEW i \in Images, Launch(i)
      PROVE  OnTheSlot'
  BY <1>1 DEF Launch, LaunchBegin
<1>2. ASSUME LaunchRefused
      PROVE  OnTheSlot'
  BY <1>2 DEF LaunchRefused
<1>3. ASSUME LaunchReady
      PROVE  OnTheSlot'
  BY <1>3 DEF LaunchReady
<1>4. ASSUME NEW c \in {"stop", "suspend"}, Halt(c)
      PROVE  OnTheSlot'
  BY <1>4 DEF Halt, Request
<1>5. ASSUME ReadMessage
      PROVE  OnTheSlot'
  BY <1>5 DEF ReadMessage
<1>6. ASSUME Wake
      PROVE  OnTheSlot'
  BY <1>6 DEF Wake, Goto
<1>7. ASSUME Dispatch
      PROVE  OnTheSlot'
  BY <1>7 DEF Dispatch, Goto
<1>8. ASSUME LaunchRelease
      PROVE  OnTheSlot'
  BY <1>8 DEF LaunchRelease, Goto
<1>9. ASSUME LaunchOpen
      PROVE  OnTheSlot'
  BY <1>9 DEF LaunchOpen, Goto, Decrypted
<1>10. ASSUME LaunchPowerOn
      PROVE  OnTheSlot'
  BY <1>10 DEF LaunchPowerOn, Goto
<1>11. ASSUME LaunchDone
      PROVE  OnTheSlot'
  BY <1>11 DEF LaunchDone, Goto, Post, Delete
<1>12. ASSUME HaltPowerOff
      PROVE  OnTheSlot'
  BY <1>12 DEF HaltPowerOff, Goto
<1>13. ASSUME HaltDrop
      PROVE  OnTheSlot'
  BY <1>13 DEF HaltDrop, Goto
<1>14. ASSUME HaltEncrypt
      PROVE  OnTheSlot'
  BY <1>14 DEF HaltEncrypt, Goto, Delete, Decrypted
<1>15. ASSUME HaltDone
      PROVE  OnTheSlot'
  BY <1>15 DEF HaltDone, Goto, Post
<1>16. ASSUME Clear
      PROVE  OnTheSlot'
  BY <1>16 DEF Clear, Goto
<1>17. ASSUME NEW i \in Images, GuestOff(i)
      PROVE  OnTheSlot'
  BY <1>17 DEF GuestOff
<1>18. ASSUME NEW i \in Images, PlayerWrites(i)
      PROVE  OnTheSlot'
  BY <1>18 DEF PlayerWrites
<1>19. ASSUME NEW i \in Images, PlayerEnds(i)
      PROVE  OnTheSlot'
  BY <1>19 DEF PlayerEnds, Delete
<1>20. ASSUME NEW i \in Images, NameOnly(i)
      PROVE  OnTheSlot'
  BY <1>20 DEF NameOnly
<1>21. CASE UNCHANGED vars
  BY <1>21 DEF vars
<1> QED
  BY <1>1, <1>2, <1>3, <1>4, <1>5, <1>6, <1>7, <1>8, <1>9, <1>10, <1>11, <1>12, <1>13, <1>14, <1>15, <1>16, <1>17, <1>18, <1>19, <1>20, <1>21 DEF Next, Window, Worker, External

\* What launchVM left for the worker does not change before the worker is done.
LEMMA LaunchPathsStep ==
    ASSUME IInv, [Next]_vars
    PROVE  LaunchPaths'
<1> USE NoneAssumption DEF IInv, TypeOK, Handover, OnTheSlot, LaunchPaths, isWorking, LaunchSteps, HaltSteps,
           WorkerSteps, Commands, callVars, workerVars, pathVars, vmVars, fileVars
<1>1. ASSUME NEW i \in Images, Launch(i)
      PROVE  LaunchPaths'
  BY <1>1 DEF Launch, LaunchBegin
<1>2. ASSUME LaunchRefused
      PROVE  LaunchPaths'
  BY <1>2 DEF LaunchRefused
<1>3. ASSUME LaunchReady
      PROVE  LaunchPaths'
  BY <1>3 DEF LaunchReady
<1>4. ASSUME NEW c \in {"stop", "suspend"}, Halt(c)
      PROVE  LaunchPaths'
  BY <1>4 DEF Halt, Request
<1>5. ASSUME ReadMessage
      PROVE  LaunchPaths'
  BY <1>5 DEF ReadMessage
<1>6. ASSUME Wake
      PROVE  LaunchPaths'
  BY <1>6 DEF Wake, Goto
<1>7. ASSUME Dispatch
      PROVE  LaunchPaths'
  BY <1>7 DEF Dispatch, Goto
<1>8. ASSUME LaunchRelease
      PROVE  LaunchPaths'
  BY <1>8 DEF LaunchRelease, Goto
<1>9. ASSUME LaunchOpen
      PROVE  LaunchPaths'
  BY <1>9 DEF LaunchOpen, Goto, Decrypted
<1>10. ASSUME LaunchPowerOn
      PROVE  LaunchPaths'
  BY <1>10 DEF LaunchPowerOn, Goto
<1>11. ASSUME LaunchDone
      PROVE  LaunchPaths'
  BY <1>11 DEF LaunchDone, Goto, Post, Delete
<1>12. ASSUME HaltPowerOff
      PROVE  LaunchPaths'
  BY <1>12 DEF HaltPowerOff, Goto
<1>13. ASSUME HaltDrop
      PROVE  LaunchPaths'
  BY <1>13 DEF HaltDrop, Goto
<1>14. ASSUME HaltEncrypt
      PROVE  LaunchPaths'
  BY <1>14 DEF HaltEncrypt, Goto, Delete, Decrypted
<1>15. ASSUME HaltDone
      PROVE  LaunchPaths'
  BY <1>15 DEF HaltDone, Goto, Post
<1>16. ASSUME Clear
      PROVE  LaunchPaths'
  BY <1>16 DEF Clear, Goto
<1>17. ASSUME NEW i \in Images, GuestOff(i)
      PROVE  LaunchPaths'
  BY <1>17 DEF GuestOff
<1>18. ASSUME NEW i \in Images, PlayerWrites(i)
      PROVE  LaunchPaths'
  BY <1>18 DEF PlayerWrites
<1>19. ASSUME NEW i \in Images, PlayerEnds(i)
      PROVE  LaunchPaths'
  BY <1>19 DEF PlayerEnds, Delete
<1>20. ASSUME NEW i \in Images, NameOnly(i)
      PROVE  LaunchPaths'
  BY <1>20 DEF NameOnly
<1>21. CASE UNCHANGED vars
  BY <1>21 DEF vars
<1> QED
  BY <1>1, <1>2, <1>3, <1>4, <1>5, <1>6, <1>7, <1>8, <1>9, <1>10, <1>11, <1>12, <1>13, <1>14, <1>15, <1>16, <1>17, <1>18, <1>19, <1>20, <1>21 DEF Next, Window, Worker, External

\* A .vml is written by launchVM and by the player, and each deletes its own.
LEMMA PlainFilesStep ==
    ASSUME IInv, [Next]_vars
    PROVE  PlainFiles'
<1> USE NoneAssumption DEF IInv, TypeOK, Handover, OnTheSlot, LaunchPaths, isWorking, LaunchSteps, HaltSteps,
           WorkerSteps, Commands, callVars, workerVars, pathVars, vmVars, fileVars, PlainFiles,
           NoPlainLeftBehind, Clean
<1>1. ASSUME NEW i \in Images, Launch(i)
      PROVE  PlainFiles'
  BY <1>1 DEF Launch, LaunchBegin
<1>2. ASSUME LaunchRefused
      PROVE  PlainFiles'
  BY <1>2 DEF LaunchRefused
<1>3. ASSUME LaunchReady
      PROVE  PlainFiles'
  BY <1>3 DEF LaunchReady
<1>4. ASSUME NEW c \in {"stop", "suspend"}, Halt(c)
      PROVE  PlainFiles'
  BY <1>4 DEF Halt, Request
<1>5. ASSUME ReadMessage
      PROVE  PlainFiles'
  BY <1>5 DEF ReadMessage
<1>6. ASSUME Wake
      PROVE  PlainFiles'
  BY <1>6 DEF Wake, Goto
<1>7. ASSUME Dispatch
      PROVE  PlainFiles'
  BY <1>7 DEF Dispatch, Goto
<1>8. ASSUME LaunchRelease
      PROVE  PlainFiles'
  BY <1>8 DEF LaunchRelease, Goto
<1>9. ASSUME LaunchOpen
      PROVE  PlainFiles'
  BY <1>9 DEF LaunchOpen, Goto, Decrypted
<1>10. ASSUME LaunchPowerOn
      PROVE  PlainFiles'
  BY <1>10 DEF LaunchPowerOn, Goto
<1>11. ASSUME LaunchDone
      PROVE  PlainFiles'
  BY <1>11 DEF LaunchDone, Goto, Post, Delete
<1>12. ASSUME HaltPowerOff
      PROVE  PlainFiles'
  BY <1>12 DEF HaltPowerOff, Goto
<1>13. ASSUME HaltDrop
      PROVE  PlainFiles'
  BY <1>13 DEF HaltDrop, Goto
<1>14. ASSUME HaltEncrypt
      PROVE  PlainFiles'
  BY <1>14 DEF HaltEncrypt, Goto, Delete, Decrypted
<1>15. ASSUME HaltDone
      PROVE  PlainFiles'
  BY <1>15 DEF HaltDone, Goto, Post
<1>16. ASSUME Clear
      PROVE  PlainFiles'
  BY <1>16 DEF Clear, Goto
<1>17. ASSUME NEW i \in Images, GuestOff(i)
      PROVE  PlainFiles'
  BY <1>17 DEF GuestOff
<1>18. ASSUME NEW i \in Images, PlayerWrites(i)
      PROVE  PlainFiles'
  BY <1>18 DEF PlayerWrites
<1>19. ASSUME NEW i \in Images, PlayerEnds(i)
      PROVE  PlainFiles'
  BY <1>19 DEF PlayerEnds, Delete
<1>20. ASSUME NEW i \in Images, NameOnly(i)
      PROVE  PlainFiles'
  BY <1>20 DEF NameOnly
<1>21. CASE UNCHANGED vars
  BY <1>21 DEF vars
<1> QED
  BY <1>1, <1>2, <1>3, <1>4, <1>5, <1>6, <1>7, <1>8, <1>9, <1>10, <1>11, <1>12, <1>13, <1>14, <1>15, <1>16, <1>17, <1>18, <1>19, <1>20, <1>21 DEF Next, Window, Worker, External

\* Without a refused launch the two paths name the same image whenever files are written.
LEMMA OwnFilesStep ==
    ASSUME IInv, "decrypt" \notin Faults, OwnFiles, [Next]_vars
    PROVE  OwnFiles'
<1> USE NoneAssumption DEF IInv, TypeOK, Handover, OnTheSlot, LaunchPaths, isWorking, LaunchSteps, HaltSteps,
           WorkerSteps, Commands, callVars, workerVars, pathVars, vmVars, fileVars,
           OwnFiles, OwnDescriptor
<1>1. ASSUME NEW i \in Images, Launch(i)
      PROVE  OwnFiles'
  BY <1>1 DEF Launch, LaunchBegin
<1>2. ASSUME LaunchRefused
      PROVE  OwnFiles'
  BY <1>2 DEF LaunchRefused
<1>3. ASSUME LaunchReady
      PROVE  OwnFiles'
  BY <1>3 DEF LaunchReady
<1>4. ASSUME NEW c \in {"stop", "suspend"}, Halt(c)
      PROVE  OwnFiles'
  BY <1>4 DEF Halt, Request
<1>5. ASSUME ReadMessage
      PROVE  OwnFiles'
  BY <1>5 DEF ReadMessage
<1>6. ASSUME Wake
      PROVE  OwnFiles'
  BY <1>6 DEF Wake, Goto
<1>7. ASSUME Dispatch
      PROVE  OwnFiles'
  BY <1>7 DEF Dispatch, Goto
<1>8. ASSUME LaunchRelease
      PROVE  OwnFiles'
  BY <1>8 DEF LaunchRelease, Goto
<1>9. ASSUME LaunchOpen
      PROVE  OwnFiles'
  BY <1>9 DEF LaunchOpen, Goto, Decrypted
<1>10. ASSUME LaunchPowerOn
      PROVE  OwnFiles'
  BY <1>10 DEF LaunchPowerOn, Goto
<1>11. ASSUME LaunchDone
      PROVE  OwnFiles'
  BY <1>11 DEF LaunchDone, Goto, Post, Delete
<1>12. ASSUME HaltPowerOff
      PROVE  OwnFiles'
  BY <1>12 DEF HaltPowerOff, Goto
<1>13. ASSUME HaltDrop
      PROVE  OwnFiles'
  BY <1>13 DEF HaltDrop, Goto
<1>14. ASSUME HaltEncrypt
      PROVE  OwnFiles'
  BY <1>14 DEF HaltEncrypt, Goto, Delete, Decrypted
<1>15. ASSUME HaltDone
      PROVE  OwnFiles'
  BY <1>15 DEF HaltDone, Goto, Post
<1>16. ASSUME Clear
      PROVE  OwnFiles'
  BY <1>16 DEF Clear, Goto
<1>17. ASSUME NEW i \in Images, GuestOff(i)
      PROVE  OwnFiles'
  BY <1>17 DEF GuestOff
<1>18. ASSUME NEW i \in Images, PlayerWrites(i)
      PROVE  OwnFiles'
  BY <1>18 DEF PlayerWrites
<1>19. ASSUME NEW i \in Images, PlayerEnds(i)
      PROVE  OwnFiles'
  BY <1>19 DEF PlayerEnds, Delete
<1>20. ASSUME NEW i \in Images, NameOnly(i)
      PROVE  OwnFiles'
  BY <1>20 DEF NameOnly
<1>21. CASE UNCHANGED vars
  BY <1>21 DEF vars
<1> QED
  BY <1>1, <1>2, <1>3, <1>4, <1>5, <1>6, <1>7, <1>8, <1>9, <1>10, <1>11, <1>12, <1>13, <1>14, <1>15, <1>16, <1>17, <1>18, <1>19, <1>20, <1>21 DEF Next, Window, Worker, External

\* Without a failed power-off a launch begins, and a handle is dropped, only when
\* nothing is powered on.
LEMMA PowerKnownStep ==
    ASSUME IInv, "powerOff" \notin Faults, PowerKnown, [Next]_vars
    PROVE  PowerKnown'
<1> USE NoneAssumption DEF IInv, TypeOK, Handover, OnTheSlot, LaunchPaths, isWorking, LaunchSteps, HaltSteps,
           WorkerSteps, Commands, callVars, workerVars, pathVars, vmVars, fileVars,
           PowerKnown, NoOrphan
<1>1. ASSUME NEW i \in Images, Launch(i)
      PROVE  PowerKnown'
  BY <1>1 DEF Launch, LaunchBegin
<1>2. ASSUME LaunchRefused
      PROVE  PowerKnown'
  BY <1>2 DEF LaunchRefused
<1>3. ASSUME LaunchReady
      PROVE  PowerKnown'
  BY <1>3 DEF LaunchReady
<1>4. ASSUME NEW c \in {"stop", "suspend"}, Halt(c)
      PROVE  PowerKnown'
  BY <1>4 DEF Halt, Request
<1>5. ASSUME ReadMessage
      PROVE  PowerKnown'
  BY <1>5 DEF ReadMessage
<1>6. ASSUME Wake
      PROVE  PowerKnown'
  BY <1>6 DEF Wake, Goto
<1>7. ASSUME Dispatch
      PROVE  PowerKnown'
  BY <1>7 DEF Dispatch, Goto
<1>8. ASSUME LaunchRelease
      PROVE  PowerKnown'
  BY <1>8 DEF LaunchRelease, Goto
<1>9. ASSUME LaunchOpen
      PROVE  PowerKnown'
  BY <1>9 DEF LaunchOpen, Goto, Decrypted
<1>10. ASSUME LaunchPowerOn
      PROVE  PowerKnown'
  BY <1>10 DEF LaunchPowerOn, Goto
<1>11. ASSUME LaunchDone
      PROVE  PowerKnown'
  BY <1>11 DEF LaunchDone, Goto, Post, Delete
<1>12. ASSUME HaltPowerOff
      PROVE  PowerKnown'
  BY <1>12 DEF HaltPowerOff, Goto
<1>13. ASSUME HaltDrop
      PROVE  PowerKnown'
  BY <1>13 DEF HaltDrop, Goto
<1>14. ASSUME HaltEncrypt
      PROVE  PowerKnown'
  BY <1>14 DEF HaltEncrypt, Goto, Delete, Decrypted
<1>15. ASSUME HaltDone
      PROVE  PowerKnown'
  BY <1>15 DEF HaltDone, Goto, Post
<1>16. ASSUME Clear
      PROVE  PowerKnown'
  BY <1>16 DEF Clear, Goto
<1>17. ASSUME NEW i \in Images, GuestOff(i)
      PROVE  PowerKnown'
  BY <1>17 DEF GuestOff
<1>18. ASSUME NEW i \in Images, PlayerWrites(i)
      PROVE  PowerKnown'
  BY <1>18 DEF PlayerWrites
<1>19. ASSUME NEW i \in Images, PlayerEnds(i)
      PROVE  PowerKnown'
  BY <1>19 DEF PlayerEnds, Delete
<1>20. ASSUME NEW i \in Images, NameOnly(i)
      PROVE  PowerKnown'
  BY <1>20 DEF NameOnly
<1>21. CASE UNCHANGED vars
  BY <1>21 DEF vars
<1> QED
  BY <1>1, <1>2, <1>3, <1>4, <1>5, <1>6, <1>7, <1>8, <1>9, <1>10, <1>11, <1>12, <1>13, <1>14, <1>15, <1>16, <1>17, <1>18, <1>19, <1>20, <1>21 DEF Next, Window, Worker, External

-----------------------------------------------------------------------------
(* The step-by-step part of the refinement.                                *)

\* The command VmService sees is over when the message is posted.
Busy == IF wpc = "clear" THEN "unknown" ELSE lv_nVmProc

\* Every step of the manager is a step of VmService or leaves busy and done alone.
LEMMA ServiceStep ==
    ASSUME IInv, IInv', [Next]_vars
    PROVE  [Service!Next]_Service!vars
<1> USE DEF IInv, TypeOK, Handover, OnTheSlot, isWorking, LaunchSteps, HaltSteps, Commands,
            callVars, workerVars, pathVars, vmVars, fileVars,
            Service!vars, Service!Commands
<1> DEFINE Quiet == UNCHANGED <<Busy, msgs>>
<1>1. Quiet => UNCHANGED Service!vars
  BY DEF Busy
<1>2. ASSUME NEW i \in Images, Launch(i)
      PROVE  Service!Accept("start")
  BY <1>2 DEF Launch, LaunchBegin, Service!Accept
<1>3. ASSUME LaunchRefused
      PROVE  Service!Refuse
  BY <1>3 DEF LaunchRefused, Service!Refuse
<1>4. ASSUME NEW c \in {"stop", "suspend"}, Halt(c)
      PROVE  Service!Accept(c)
  BY <1>4 DEF Halt, Request, Service!Accept
<1>5. ASSUME ReadMessage
      PROVE  Service!Read
  BY <1>5 DEF ReadMessage, Service!Read
<1>6. ASSUME LaunchDone \/ HaltDone
      PROVE  Service!Complete
  BY <1>6 DEF LaunchDone, HaltDone, Goto, Post, Service!Complete, Service!Completions
<1>7. ASSUME LaunchReady \/ Wake \/ Dispatch \/ LaunchRelease \/ LaunchOpen \/ LaunchPowerOn
      PROVE  Quiet
  BY <1>7 DEF LaunchReady, Wake, Dispatch, LaunchRelease, LaunchOpen, LaunchPowerOn, Goto, Busy
<1>8. ASSUME HaltPowerOff \/ HaltDrop \/ HaltEncrypt \/ Clear \/ External \/ UNCHANGED vars
      PROVE  Quiet
  BY <1>8 DEF HaltPowerOff, HaltDrop, HaltEncrypt, Clear, External, GuestOff, PlayerWrites,
              PlayerEnds, Goto, Busy, vars
<1>9. ASSUME NEW i \in Images, NameOnly(i)
      PROVE  Quiet
  BY <1>9 DEF NameOnly, Busy
<1>10. \A c \in Commands : Service!Accept(c) => Service!Next
  BY DEF Service!Next
<1> QED
  BY <1>1, <1>2, <1>3, <1>4, <1>5, <1>6, <1>7, <1>8, <1>9, <1>10
     DEF Next, Window, Worker, Service!Next

-----------------------------------------------------------------------------
(* How much of a command is left.                                          *)

\* The steps launchVM and the worker have yet to take until the slot is free again.
Left ==
    CASE caller # None -> 9
      [] lv_mutexVm -> 8
      [] wpc = "woken" -> 7
      [] wpc = "release" -> 6
      [] wpc \in {"open", "powerOff"} -> 5
      [] wpc \in {"powerOn", "drop"} -> 4
      [] wpc \in {"launchOk", "launchFail", "encrypt"} -> 3
      [] wpc = "halted" -> 2
      [] wpc = "clear" -> 1
      [] OTHER -> 0

\* A step on the command itself.
Working == Worker \/ LaunchReady \/ LaunchRefused

\* Every step on a command brings its end nearer, and nothing the window, the user or a
\* vmplayer does puts it off: a command is over in at most nine steps of the two threads.
CommandEnds == [][(Working => Left' < Left) /\ (isWorking => Left' <= Left)]_vars

\* One step of the manager, from a state of its invariant.
LEMMA LeftStep ==
    ASSUME IInv, Next
    PROVE  (Working => Left' < Left) /\ (isWorking => Left' <= Left)
<1> USE DEF IInv, TypeOK, Handover, OnTheSlot, isWorking, LaunchSteps, HaltSteps, WorkerSteps,
            Commands, callVars, workerVars, Left
<1>1. ASSUME LaunchRefused \/ LaunchReady
      PROVE  Left' < Left
  BY <1>1, NoneAssumption DEF LaunchRefused, LaunchReady
<1>2. ASSUME Wake \/ Dispatch
      PROVE  Left' < Left
  BY <1>2 DEF Wake, Dispatch, Goto
<1>3. ASSUME LaunchRelease \/ LaunchOpen \/ LaunchPowerOn \/ LaunchDone
      PROVE  Left' < Left
  BY <1>3 DEF LaunchRelease, LaunchOpen, LaunchPowerOn, LaunchDone, Goto
<1>4. ASSUME HaltPowerOff \/ HaltDrop \/ HaltEncrypt \/ HaltDone \/ Clear
      PROVE  Left' < Left
  BY <1>4 DEF HaltPowerOff, HaltDrop, HaltEncrypt, HaltDone, Clear, Goto
<1>5. ASSUME NEW i \in Images, Launch(i) \/ NameOnly(i)
      PROVE  ~isWorking
  BY <1>5 DEF Launch, NameOnly
<1>6. ASSUME NEW c \in {"stop", "suspend"}, Halt(c)
      PROVE  ~isWorking
  BY <1>6 DEF Halt
<1>7. ASSUME ReadMessage \/ External
      PROVE  Left' = Left
  BY <1>7 DEF ReadMessage, External, GuestOff, PlayerWrites, PlayerEnds
<1>8. Left \in Nat /\ Left' \in Nat
  OBVIOUS
<1>9. Working => Left' < Left
  BY <1>1, <1>2, <1>3, <1>4 DEF Working, Worker
<1>10. isWorking => Left' <= Left
  <2> HIDE DEF Left
  <2>1. CASE Working
    BY <1>9, <2>1, <1>8
  <2> QED
    BY <1>5, <1>6, <1>7, <2>1, <1>8 DEF Next, Window, Working
<1> QED
  BY <1>9, <1>10

-----------------------------------------------------------------------------
(* The theorems.                                                           *)

\* The inductive invariant holds: a command is in exactly one of its three places.
THEOREM Inductive == Spec => []IInv
<1>1. Init => IInv
  <2> SUFFICES ASSUME Init PROVE IInv
    OBVIOUS
  <2> USE NoneAssumption DEF Init, isWorking, LaunchSteps, HaltSteps, WorkerSteps, Commands
  <2>1. TypeOK
    <3>1. msgs \in Seq({"launched", "launchFailed", "stopped", "suspended"})
      OBVIOUS
    <3> QED
      BY <3>1, Zenon DEF TypeOK
  <2>2. Handover /\ OnTheSlot /\ LaunchPaths
    BY DEF Handover, OnTheSlot, LaunchPaths
  <2>3. PlainFiles
    BY DEF PlainFiles, NoPlainLeftBehind, Clean
  <2> QED
    BY <2>1, <2>2, <2>3 DEF IInv
<1>2. IInv /\ [Next]_vars => IInv'
  BY TypeStep, HandoverStep, OnTheSlotStep, LaunchPathsStep, PlainFilesStep DEF IInv
<1> QED
  BY <1>1, <1>2, PTL DEF Spec

\* Every variable of the manager keeps its type.
THEOREM TypeCorrect == Spec => []TypeOK
BY Inductive, PTL DEF IInv

\* No command the manager accepted is lost between the window and the worker.
THEOREM NoCommandLost == Spec => []CommandPending
<1>1. IInv => CommandPending
  BY DEF IInv, Handover, CommandPending
<1> QED
  BY Inductive, <1>1, PTL

\* The slot is not overwritten while the worker carries out the command it read there.
THEOREM SlotKept == Spec => []SlotIsWorkers
<1>1. IInv => SlotIsWorkers
  BY DEF IInv, OnTheSlot, SlotIsWorkers
<1> QED
  BY Inductive, <1>1, PTL

\* The window's thread and the worker never handle descriptors at the same time.
THEOREM FilesExclusive == Spec => []FilesHaveOneOwner
<1>1. IInv => FilesHaveOneOwner
  BY DEF IInv, Handover, FilesHaveOneOwner
<1> QED
  BY Inductive, <1>1, PTL

\* No decrypted descriptor outlives both the command and the vmplayer it was written for.
THEOREM PlainRemoved == Spec => []NoPlainLeftBehind
<1>1. IInv => NoPlainLeftBehind
  BY DEF IInv, PlainFiles
<1> QED
  BY Inductive, <1>1, PTL

\* If no launch is refused, every .vmx file keeps holding its own image's descriptor.
THEOREM DescriptorsKept ==
    ASSUME "decrypt" \notin Faults
    PROVE  Spec => []OwnDescriptor
<1>1. Init => OwnFiles
  BY DEF Init, OwnFiles, OwnDescriptor
<1>2. IInv /\ OwnFiles /\ [Next]_vars => OwnFiles'
  BY OwnFilesStep
<1>3. OwnFiles => OwnDescriptor
  BY DEF OwnFiles
<1> QED
  BY Inductive, <1>1, <1>2, <1>3, PTL DEF Spec

\* If every power-off powers off, a virtual machine that is on is the one the handle is on.
THEOREM HandleKept ==
    ASSUME "powerOff" \notin Faults
    PROVE  Spec => []NoOrphan
<1>1. Init => PowerKnown
  BY DEF Init, PowerKnown, NoOrphan
<1>2. IInv /\ PowerKnown /\ [Next]_vars => PowerKnown'
  BY PowerKnownStep
<1>3. PowerKnown => NoOrphan
  BY DEF PowerKnown
<1> QED
  BY Inductive, <1>1, <1>2, <1>3, PTL DEF Spec

\* The manager implements VmService: one completion message for every accepted command.
THEOREM ImplementsService == Spec => ServiceSpec
<1>1. Init => Service!Init
  BY DEF Init, Service!Init
<1>2. IInv /\ IInv' /\ [Next]_vars => [Service!Next]_Service!vars
  BY ServiceStep
<1> QED
  BY Inductive, <1>1, <1>2, PTL DEF Spec, ServiceSpec, Service!Spec

\* A command, once accepted, is over in a bounded number of the threads' own steps.
THEOREM CommandsEnd == Spec => CommandEnds
<1>1. IInv /\ [Next]_vars
          => [(Working => Left' < Left) /\ (isWorking => Left' <= Left)]_vars
  BY LeftStep
<1> QED
  BY Inductive, <1>1, PTL DEF Spec, CommandEnds
=============================================================================
