------------------------------- MODULE VmxKey -------------------------------
(***************************************************************************)
(* The password of one image's .vmx file.  Every download and every Start  *)
(* makes a new one, a GUID, that has to reach five places: the file        *)
(* itself, the server, the registry (from where the next vmplayer's        *)
(* KenanHelperVM reads it, once), the worker's lv_strEncPwd and that       *)
(* vmplayer.  Nothing makes the steps one: the window's thread (Start),    *)
(* the download thread, the policy thread, the worker and the vmplayer     *)
(* take them each in its own time, and Start does not ask whether the      *)
(* download has come to its end.                                           *)
(*                                                                         *)
(* src/KLauncher/ClaPageMain.cpp, src/kenan/KVmMgr.cpp,                    *)
(* src/cmn_crypto/kncrypto.cpp, src/KenanHelperVM.  The command slot is    *)
(* KVmMgr.tla's; here a virtual machine is off, being launched, or on.     *)
(***************************************************************************)
CONSTANTS
    Keys,        \* GUIDs
    Empty,       \* the empty password
    Shipped,     \* L"Kenan-vm-encrypt-1226", which images may come encrypted with
    Plain,       \* the file is not encrypted
    Torn,        \* an empty file, left by a write that was cut short
    Gone,        \* no file, no vmplayer
    Mishaps      \* what may go wrong at all

\* "file": the .vmx cannot be opened, or not be written.
MishapKinds == {"setPassword", "kill", "crash", "restart", "oldPlayer", "file"}

Special == {Empty, Shipped, Plain, Torn, Gone}

ASSUME KeysAssumption ==
    /\ Special \cap Keys = {}
    /\ Empty \notin {Shipped, Plain, Torn, Gone}
    /\ Shipped \notin {Plain, Torn, Gone}
    /\ Plain \notin {Torn, Gone}
    /\ Torn # Gone
ASSUME MishapsAssumption == Mishaps \subseteq MishapKinds

VARIABLES
    vmx,           \* the password the .vmx is encrypted with, Plain, Torn or Gone
    vml,           \* is there a decrypted copy?
    server,        \* external: the password the server answers kc_get_password with
    registry,      \* _wszEncPwd of the policy in the registry
    lv_strEncPwd,  \* the password the worker encrypts with
    player,        \* g_wszEncPwd of the vmplayer process, or Gone
    vm,            \* "off", "launching" or "on"
    policy,        \* is the policy thread polling the server?
    spc, szPwd, szNew,   \* Start: its next step, the old and the new password
    dpc, szDown,         \* the download: its next step, its new password
    mishaps,       \* what may go wrong in this behaviour; it never changes
    overlap,       \* history: which Start met a download, "never", "earlier" or the "last" one
    rewritten      \* history: has the last Start written the file?

fileVars   == <<vmx, vml>>
placeVars  == <<server, registry, lv_strEncPwd, player>>
vmVars     == <<vm, policy>>
startVars  == <<spc, szPwd, szNew>>
downVars   == <<dpc, szDown>>
history    == <<mishaps, overlap, rewritten>>
vars == <<fileVars, placeVars, vmVars, startVars, downVars, history>>

Init ==
    /\ vmx = Gone /\ vml = FALSE
    /\ server = Empty /\ registry = Empty /\ lv_strEncPwd = Empty /\ player = Gone
    /\ vm = "off" /\ policy = FALSE
    /\ spc = "none" /\ szPwd = Empty /\ szNew = Empty
    /\ dpc = "none" /\ szDown = Empty
    /\ mishaps \in SUBSET Mishaps
    /\ overlap = "never" /\ rewritten = FALSE

\* A GUID that nobody holds (one that everybody has forgotten is as good as a new one).
Fresh(k) == k \notin {vmx, server, registry, lv_strEncPwd, player, szPwd, szNew, szDown}

\* An encrypted file is opened by its own password; for an image without one that is Shipped.
Opens(old) == vmx \in {Plain, IF old = Empty THEN Shipped ELSE old}

-----------------------------------------------------------------------------
(* KVmMgr::encryptVMX: the file is read, opened to be written, and written *)
(* (which is where it can be found empty).  Only the re-encryption of an   *)
(* encrypted file reports failures; that of a plain one does not.          *)

\* What reading the file leads to.  An empty file is passed over, and so is none at all,
\* unless there is an old password: then its size, -1, is taken for a large one, the
\* buffer for it cannot be had and the launcher dies.
Read(old) ==
    CASE vmx = Plain -> {"create"}
      [] vmx = Torn  -> {"done"}
      [] vmx = Gone  -> {IF old = Empty THEN "done" ELSE "dies"}
      [] OTHER       -> {IF Opens(old) THEN "replace" ELSE "failed"}

\* The same when the file is there but cannot be opened: "not known to be encrypted".
ReadRefused(old) ==
    {r \in {"done", "failed"} :
        /\ "file" \in mishaps /\ vmx \notin {Torn, Gone}
        /\ r = "done" => vmx = Plain \/ old = Empty
        /\ r = "failed" => vmx # Plain \/ old # Empty}

\* What opening the file to write it leads to.  It is not shared with another writer, and
\* the re-encryption deletes it before.
Openings(step, inUse) ==
    LET refused == IF step = "create" THEN "done" ELSE "failed"
    IN  (IF inUse THEN {[file |-> vmx, to |-> refused]} ELSE {[file |-> Torn, to |-> "write"]})
        \cup {[file |-> f, to |-> refused] :
                f \in {g \in {vmx, Gone} : "file" \in mishaps
                                         /\ (g = Gone => step = "replace" /\ ~inUse)}}

\* What becomes of the file when it is written with password k; fwrite's result is ignored.
Written(k) == {k} \cup (IF "file" \in mishaps THEN {Torn} ELSE {})

\* The decrypted copy is encrypted over the .vmx, unless somebody has that open.
WrittenBack(k) ==
    (IF "write" \in {spc, dpc} THEN {vmx} ELSE Written(k))
    \cup (IF "file" \in mishaps THEN {vmx} ELSE {})

\* The launcher ends and is started again; tf_watch_parent deletes the decrypted copy and
\* ends the vmplayer.
Restarted ==
    /\ vml' = (vml /\ player = Gone)
    /\ player' = Gone
    /\ lv_strEncPwd' = Empty
    /\ vm' = "off" /\ policy' = FALSE
    /\ spc' = "none" /\ szPwd' = Empty /\ szNew' = Empty
    /\ dpc' = "none" /\ szDown' = Empty
    /\ UNCHANGED <<vmx, server, registry, history>>

-----------------------------------------------------------------------------
(* The download thread, download_unzip.                                    *)

\* Mutant of DownloadUnzip: an image that is there already is downloaded once more.
DownloadUnzipAgain ==
    /\ dpc = "none"
    /\ vmx' \in {Plain, Shipped}
    /\ dpc' = "setPassword"
    /\ UNCHANGED <<vml, placeVars, vmVars, startVars, szDown, history>>

\* The image is on the disk, unzipped, and from now on a click in the list finds it.
DownloadUnzip ==
    /\ dpc = "none"
    /\ vmx = Gone
    /\ vmx' \in {Plain, Shipped}
    /\ dpc' = "setPassword"
    /\ UNCHANGED <<vml, placeVars, vmVars, startVars, szDown, history>>

\* Mutant of DownloadSetPassword: the server is told the password the image was shipped with.
DownloadSetShipped ==
    /\ dpc = "setPassword"
    /\ \E k \in Keys : Fresh(k) /\ szDown' = k
    /\ server' = Shipped
    /\ dpc' = "encrypt"
    /\ UNCHANGED <<fileVars, registry, lv_strEncPwd, player, vmVars, startVars, history>>

\* kc_set_password, whose result is ignored.
DownloadSetPassword ==
    /\ dpc = "setPassword"
    /\ \E k \in Keys :
         /\ Fresh(k)
         /\ szDown' = k
         /\ \/ server' = k
            \/ "setPassword" \in mishaps /\ server' = server
    /\ dpc' = "encrypt"
    /\ UNCHANGED <<fileVars, registry, lv_strEncPwd, player, vmVars, startVars, history>>

\* encryptVMX without an old password; its result is ignored.
DownloadTo(r) ==
    IF r \in {"create", "replace", "write"}
    THEN dpc' = r /\ szDown' = szDown
    ELSE dpc' = "none" /\ szDown' = Empty

DownloadEncrypt ==
    /\ dpc = "encrypt"
    /\ \E r \in Read(Empty) \cup ReadRefused(Empty) : DownloadTo(r)
    /\ UNCHANGED <<fileVars, placeVars, vmVars, startVars, history>>

DownloadOpen ==
    /\ dpc \in {"create", "replace"}
    /\ \E o \in Openings(dpc, spc = "write") : vmx' = o.file /\ DownloadTo(o.to)
    /\ UNCHANGED <<vml, placeVars, vmVars, startVars, history>>

DownloadWrite ==
    /\ dpc = "write"
    /\ vmx' \in Written(szDown)
    /\ DownloadTo("done")
    /\ UNCHANGED <<vml, placeVars, vmVars, startVars, history>>

Download ==
    \/ DownloadUnzip \/ DownloadSetPassword
    \/ DownloadEncrypt \/ DownloadOpen \/ DownloadWrite

-----------------------------------------------------------------------------
(* Start, on the window's thread: OnBnClickedBtnStart.                     *)

\* kc_get_password, and a new GUID.  Without a vmplayer left from before, and with the
\* virtual machine released (its policy thread terminated), unless that goes wrong; the
\* question whether a download is going on is commented out.
StartGetPassword ==
    /\ spc = "none"
    /\ vm = "off"
    /\ vmx # Gone
    /\ player # Gone => "oldPlayer" \in mishaps
    /\ policy => "restart" \in mishaps
    /\ szPwd' = server
    /\ \E k \in Keys : Fresh(k) /\ szNew' = k
    /\ spc' = "encrypt"
    /\ overlap' = IF dpc # "none" THEN "last"
                  ELSE IF overlap = "never" THEN "never" ELSE "earlier"
    /\ rewritten' = FALSE
    /\ UNCHANGED <<fileVars, placeVars, vmVars, downVars, mishaps>>

StartOver == spc' = "none" /\ szPwd' = Empty /\ szNew' = Empty

\* "Password is not correct for this vm image", or on to the next step.
StartTo(r) ==
    IF r = "failed" THEN StartOver
    ELSE spc' = (IF r = "done" THEN "setPassword" ELSE r) /\ UNCHANGED <<szPwd, szNew>>

StartEncrypt ==
    /\ spc = "encrypt"
    /\ \E r \in Read(szPwd) \cup ReadRefused(szPwd) :
         IF r = "dies" THEN Restarted
         ELSE StartTo(r) /\ UNCHANGED <<vml, placeVars, vmVars, downVars>>
    /\ UNCHANGED <<vmx, history>>

StartOpen ==
    /\ spc \in {"create", "replace"}
    /\ \E o \in Openings(spc, dpc = "write") : vmx' = o.file /\ StartTo(o.to)
    /\ UNCHANGED <<vml, placeVars, vmVars, downVars, history>>

\* Mutant of StartWrite: the file is written with the password it had.
StartWriteOld ==
    /\ spc = "write"
    /\ vmx' = szPwd /\ rewritten' = TRUE
    /\ StartTo("done")
    /\ UNCHANGED <<vml, placeVars, vmVars, downVars, mishaps, overlap>>

StartWrite ==
    /\ spc = "write"
    /\ vmx' \in Written(szNew)
    /\ rewritten' = (vmx' = szNew)
    /\ StartTo("done")
    /\ UNCHANGED <<vml, placeVars, vmVars, downVars, mishaps, overlap>>

\* kc_set_password.  A request that fails may still have reached the server.
StartSetPassword ==
    /\ spc = "setPassword"
    /\ \/ server' = szNew /\ spc' = "config" /\ UNCHANGED <<szPwd, szNew>>
       \/ "setPassword" \in mishaps /\ server' \in {server, szNew} /\ StartOver
    /\ UNCHANGED <<fileVars, registry, lv_strEncPwd, player, vmVars, downVars, history>>

\* Mutant of StartConfig: the registry keeps the last password.
StartConfigSkipped ==
    /\ spc = "config"
    /\ spc' = "launch"
    /\ UNCHANGED <<fileVars, placeVars, vmVars, szPwd, szNew, downVars, history>>

\* KGlobal::writeConfig.
StartConfig ==
    /\ spc = "config"
    /\ registry' = szNew
    /\ spc' = "launch"
    /\ UNCHANGED <<fileVars, server, lv_strEncPwd, player, vmVars, szPwd, szNew, downVars, history>>

\* KVmMgr::launchVM decrypts the file, or refuses, or dies of a file that is gone.
StartLaunch ==
    /\ spc = "launch"
    /\ \/ vmx = szNew /\ vml' = TRUE /\ lv_strEncPwd' = szNew /\ vm' = "launching"
          /\ StartOver /\ UNCHANGED <<server, registry, player, policy, downVars>>
       \/ vmx # Gone /\ (vmx = szNew => "file" \in mishaps)
          /\ StartOver /\ UNCHANGED <<vml, placeVars, vmVars, downVars>>
       \/ vmx = Gone /\ Restarted
    /\ UNCHANGED <<vmx, history>>

Start ==
    \/ StartGetPassword \/ StartEncrypt \/ StartOpen \/ StartWrite
    \/ StartSetPassword \/ StartConfig \/ StartLaunch

-----------------------------------------------------------------------------
(* The worker, the policy thread and the vmplayer.                         *)

\* A vmplayer is started, loads KenanHelperVM and the password with it (or the one that
\* is still there takes the image up), and the decrypted copy is deleted.
WorkerLaunch ==
    /\ vm = "launching"
    /\ vml' = FALSE
    /\ \/ vm' = "on" /\ policy' = TRUE /\ player' = IF player = Gone THEN registry ELSE player
       \/ vm' = "off" /\ UNCHANGED <<policy, player>>
    /\ UNCHANGED <<vmx, server, registry, lv_strEncPwd, startVars, downVars, history>>

\* The worker's halt, and onAfterVMStoped after it: the policy thread is terminated, and
\* so is a download that happens to be going on.  Before the first launch lv_strVMX is
\* empty, and lv_strDecryptVmx may be.
WorkerHalt ==
    /\ vm # "launching"
    /\ spc = "none"
    /\ dpc # "none" => "kill" \in mishaps
    /\ vm' = "off"
    /\ vml' \in IF lv_strEncPwd = Empty THEN {FALSE, vml} ELSE {FALSE}
    /\ vmx' \in IF vml /\ vmx # Gone /\ lv_strEncPwd # Empty
               THEN WrittenBack(lv_strEncPwd) ELSE {vmx}
    /\ policy' = FALSE
    /\ dpc' = "none" /\ szDown' = Empty
    /\ UNCHANGED <<placeVars, startVars, history>>

\* policy_update writes the configuration it got from the server, which has no password.
PolicyUpdate ==
    /\ policy
    /\ registry' = Empty
    /\ UNCHANGED <<fileVars, server, lv_strEncPwd, player, vmVars, startVars, downVars, history>>

GuestOff ==
    /\ vm = "on"
    /\ vm' = "off"
    /\ UNCHANGED <<fileVars, placeVars, policy, startVars, downVars, history>>

PlayerWrites ==
    /\ player # Gone
    /\ vml' = TRUE
    /\ UNCHANGED <<vmx, placeVars, vmVars, startVars, downVars, history>>

\* CKenanHelperVMApp::ExitInstance encrypts with the password of its own.
PlayerEnds ==
    /\ player # Gone
    /\ vm # "on"
    /\ player' = Gone
    /\ vmx' \in IF vml THEN WrittenBack(player) ELSE {vmx}
    /\ vml' = FALSE
    /\ UNCHANGED <<server, registry, lv_strEncPwd, vmVars, startVars, downVars, history>>

\* The launcher is killed.
Crash == "crash" \in mishaps /\ Restarted

Next ==
    \/ Download \/ Start
    \/ WorkerLaunch \/ WorkerHalt \/ PolicyUpdate
    \/ GuestOff \/ PlayerWrites \/ PlayerEnds
    \/ Crash

Spec == Init /\ [][Next]_vars

-----------------------------------------------------------------------------
(* Properties.                                                             *)

Passwords == Keys \cup {Empty}
WriteSteps == {"none", "setPassword", "encrypt", "create", "replace", "write"}
StartSteps == WriteSteps \cup {"config", "launch"}

KeyTypeOK ==
    /\ vmx \in Passwords \cup {Shipped, Plain, Torn, Gone}
    /\ vml \in BOOLEAN
    /\ server \in Passwords
    /\ registry \in Passwords
    /\ lv_strEncPwd \in Passwords
    /\ player \in Passwords \cup {Gone}
    /\ vm \in {"off", "launching", "on"}
    /\ policy \in BOOLEAN
    /\ spc \in StartSteps /\ szPwd \in Passwords /\ szNew \in Passwords
    /\ dpc \in WriteSteps /\ szDown \in Passwords
    /\ mishaps \subseteq MishapKinds
    /\ overlap \in {"never", "earlier", "last"} /\ rewritten \in BOOLEAN

\* If nothing goes wrong, and as long as no Start has met a download, the image is never
\* locked out: whenever neither of them is between the file and the server, the server's
\* password opens the .vmx.
NotLockedOut ==
    mishaps = {} /\ overlap = "never" =>
        (spc \notin {"write", "setPassword"} /\ dpc = "none" => vmx = Gone \/ Opens(server))

\* Unless a vmplayer outlives its virtual machine, a Start that has written the file, and met
\* no download, finds it as it was written when it comes to launchVM: what launchVM refuses
\* is only what encryptVMX reported as done without doing it.
LaunchOpens ==
    "oldPlayer" \notin mishaps /\ overlap # "last" =>
        (spc = "launch" /\ rewritten => vmx = szNew)

\* Whatever becomes of requests, files and downloads, after a Start that met no download the
\* vmplayer and the worker, which will both write the .vmx back, do it with the password the
\* server has.
WritersAgree ==
    mishaps \cap {"oldPlayer", "crash", "restart"} = {} /\ overlap # "last" =>
        /\ player # Gone => player = server
        /\ vml => lv_strEncPwd = server

\* KVmMgr::encryptVMX, "input no password, in this case, vmx must not be encrypted": asked
\* by a Start that met no download to encrypt without an old password, it meets no file
\* encrypted with a GUID.
NoPasswordMeansPlain ==
    spc = "encrypt" /\ szPwd = Empty /\ overlap = "never" => vmx \notin Keys

\* The same comment, of the download, which always asks without an old password.
DownloadMeetsPlain == dpc = "encrypt" => vmx \notin Keys
=============================================================================
