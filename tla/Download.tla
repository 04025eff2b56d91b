------------------------------ MODULE Download ------------------------------
(***************************************************************************)
(* Downloading a virtual machine image: the Download and Pause buttons of  *)
(* the main page and the thread they control (download_unzip in            *)
(* src/KLauncher/ClaPageMain.cpp, over KC_DOWN_VMIMAGE in                  *)
(* src/KenanConn/KenanConn.cpp).                                           *)
(*                                                                         *)
(* The page holds one handle, lv_thdDownload.  To cancel is to forget the  *)
(* handle: the thread finds out when its progress callback next looks,     *)
(* which may take a megabyte, and what it looks at is whether the page     *)
(* holds any handle.  The archive is opened so that nobody else can: a     *)
(* thread that cannot open it receives into memory, and is told all went   *)
(* well.                                                                   *)
(*                                                                         *)
(* An archive is the number of its chunks that are there and whether       *)
(* anything else was written behind them (the page of an error, which is   *)
(* not told from data, or data from the wrong offset).  Left out: the      *)
(* progress bar, the policy's missing Dropbox fields (FAILED at once), and *)
(* the image's password, which VmxKey.tla follows.                         *)
(***************************************************************************)
EXTENDS Naturals

CONSTANTS
    Threads,  \* download threads that may exist in one run of the launcher
    Images,   \* images of the policy
    Size,     \* chunks of an archive
    StatMax,  \* chunks of the largest file GetFileSize can tell the size of (2 GB)
    Retries,  \* attempts after the first (5)
    Faults,   \* what may go wrong
    None

FaultKinds ==
    {"cut",     \* a request fails, or a transfer breaks off
     "status",  \* the answer is the page of an error
     "unpack"}  \* 7z does not start, or unpacks less than there is

ASSUME SetsAssumption  == Images # {} /\ None \notin Threads \cup Nat
ASSUME SizesAssumption == Size \in Nat \ {0} /\ StatMax \in Nat /\ Retries \in Nat
ASSUME FaultsAssumption == Faults \subseteq FaultKinds

Absent == [there |-> FALSE, chunks |-> 0, junk |-> FALSE]
Empty  == [there |-> TRUE,  chunks |-> 0, junk |-> FALSE]

Archives == [there : BOOLEAN, chunks : 0 .. Size, junk : BOOLEAN]

VARIABLES
    lv_thdDownload,     \* the thread whose handle the page holds, or None
    _bPausedDownload,
    m_bDownloadContinue,
    archive,            \* the file each image is downloaded to
    holder,             \* the thread that has it open, or None
    at,                 \* where each thread is
    image,              \* the image it was started for
    attempt,            \* its attempts before this one
    left,               \* chunks still to come in this attempt
    suspended,          \* the threads that are suspended
    handed,             \* the archive as each thread gave it to 7z to unpack
    cancelled,          \* the threads the user cancelled
    crowded             \* was a download started with another thread, or what it had
                        \* open, left behind?

page   == <<lv_thdDownload, _bPausedDownload, m_bDownloadContinue>>
files  == <<archive, holder>>
thread == <<at, image, attempt, left, handed>>
past   == <<cancelled, crowded>>
vars   == <<page, files, thread, suspended, past>>

\* handed, cancelled and crowded are history; the code has no such variables.

Places ==
    {"none", "report", "bearer", "transfer", "back", "unzip", "complete", "failed", "canceled",
     "end", "done", "killed"}

Active == {t \in Threads : at[t] \notin {"none", "done", "killed"}}
Runs(t, where) == at[t] = where /\ t \notin suspended

Init ==
    /\ lv_thdDownload = None
    /\ _bPausedDownload = FALSE
    /\ m_bDownloadContinue \in BOOLEAN   \* no constructor initialises it
    /\ archive = [i \in Images |-> Absent]
    /\ holder = [i \in Images |-> None]
    /\ at = [t \in Threads |-> "none"]
    /\ image = [t \in Threads |-> CHOOSE i \in Images : TRUE]
    /\ attempt = [t \in Threads |-> 0]
    /\ left = [t \in Threads |-> 0]
    /\ suspended = {}
    /\ handed = [t \in Threads |-> Absent]
    /\ cancelled = {}
    /\ crowded = FALSE

To(t, where) == at' = [at EXCEPT ![t] = where]

\* A box of the page is open: its buttons are disabled.
Box == \E t \in Threads : at[t] \in {"complete", "failed"}

-----------------------------------------------------------------------------
(* The page.                                                               *)

\* OnBnClickedBtnDownload without a download: an archive that is there may be continued.
Start(t, i) ==
    /\ lv_thdDownload = None /\ ~Box
    /\ at[t] = "none"
    /\ m_bDownloadContinue' \in IF archive[i].there THEN BOOLEAN ELSE {FALSE}
    /\ _bPausedDownload' = FALSE
    /\ lv_thdDownload' = t
    /\ image' = [image EXCEPT ![t] = i]
    /\ To(t, "report")
    /\ crowded' = (crowded \/ Active # {} \/ holder[i] # None)
    /\ UNCHANGED <<files, attempt, left, handed, suspended, cancelled>>

\* OnBnClickedBtnDownload during a download.  A thread that is suspended stays so.
Cancel ==
    /\ lv_thdDownload # None /\ ~Box
    /\ lv_thdDownload' = None
    /\ cancelled' = cancelled \cup {lv_thdDownload}
    /\ UNCHANGED <<_bPausedDownload, m_bDownloadContinue, files, thread, suspended, crowded>>

OnBnClickedBtnPause ==
    /\ lv_thdDownload # None /\ ~Box
    /\ _bPausedDownload' = ~_bPausedDownload
    /\ suspended' = IF _bPausedDownload THEN suspended \ {lv_thdDownload}
                                        ELSE suspended \cup {lv_thdDownload}
    /\ UNCHANGED <<lv_thdDownload, m_bDownloadContinue, files, thread, past>>

\* Mutant of onAfterVMStoped: the handle is dropped, the thread goes on.
DropHandle ==
    /\ lv_thdDownload # None
    /\ lv_thdDownload' = None
    /\ UNCHANGED <<_bPausedDownload, m_bDownloadContinue, files, thread, suspended, past>>

\* A virtual machine has stopped: the download is terminated where it is, and the file it
\* has open stays open.  (The box it may be waiting behind is left out from here on.)
onAfterVMStoped ==
    /\ lv_thdDownload # None
    /\ To(lv_thdDownload, "killed")
    /\ lv_thdDownload' = None
    /\ UNCHANGED <<_bPausedDownload, m_bDownloadContinue, files, image, attempt, left, handed,
                   suspended, past>>

\* WM_USER_DOWNLOAD_COMPLETE and _FAILED: a box, and when it is dismissed no download.
Dismiss(t) ==
    /\ Runs(t, "complete") \/ Runs(t, "failed")
    /\ lv_thdDownload' = None
    /\ To(t, "end")
    /\ UNCHANGED <<_bPausedDownload, m_bDownloadContinue, files, image, attempt, left, handed,
                   suspended, past>>

-----------------------------------------------------------------------------
(* The thread.                                                             *)

\* kc_up_vmimage_status, whatever becomes of it.
Report(t) ==
    /\ Runs(t, "report")
    /\ To(t, "bearer")
    /\ UNCHANGED <<page, files, image, attempt, left, handed, suspended, past>>

\* _dropbox_get_bearer fails.
NoBearer(t) ==
    /\ "cut" \in Faults /\ Runs(t, "bearer")
    /\ To(t, "back")
    /\ UNCHANGED <<page, files, image, attempt, left, handed, suspended, past>>

\* The offset the next attempt starts from; every attempt but the first continues.
\* GetFileSize's -1, for a file that is not there or too large, is kept in an unsigned
\* number: it is None here, as is the size of a file with anything but data in it.
Offset(t) ==
    LET a == archive[image[t]] IN
    CASE attempt[t] = 0 /\ ~m_bDownloadContinue -> 0
      [] (attempt[t] > 0 \/ m_bDownloadContinue) /\ a.there /\ a.chunks <= StatMax /\ ~a.junk
           -> a.chunks
      [] OTHER -> None

\* The archive is opened, afresh at offset 0, else to append; if it is open already the
\* thread goes on without.  The server sends what is asked for; for an offset that makes no
\* range it sends everything, or an error's page, and at the archive's end an error's page.
Open(t, error) ==
    LET i == image[t]
        o == Offset(t)
        a == IF o = 0 THEN Empty ELSE [archive[i] EXCEPT !.there = TRUE] IN
    /\ Runs(t, "bearer")
    /\ error => "status" \in Faults \/ o \in {None, Size}
    /\ o = Size => error
    /\ left' = [left EXCEPT ![t] = IF error THEN 0 ELSE IF o = None THEN Size ELSE Size - o]
    /\ IF holder[i] = None
       THEN /\ holder' = [holder EXCEPT ![i] = t]
            /\ archive' = [archive EXCEPT ![i] =
                   [a EXCEPT !.junk = a.junk \/ error \/ (o = None /\ a.chunks > 0)]]
       ELSE UNCHANGED files
    /\ To(t, "transfer")
    /\ UNCHANGED <<page, image, attempt, handed, suspended, past>>

\* The next chunk, into the archive or into memory.
Receive(t) ==
    LET i == image[t] IN
    /\ Runs(t, "transfer") /\ left[t] > 0
    /\ left' = [left EXCEPT ![t] = @ - 1]
    /\ archive' = IF holder[i] = t /\ ~archive[i].junk
                  THEN [archive EXCEPT ![i].chunks = @ + 1]
                  ELSE archive
    /\ UNCHANGED <<page, holder, at, image, attempt, handed, suspended, past>>

Closed(t) == IF holder[image[t]] = t THEN [holder EXCEPT ![image[t]] = None] ELSE holder

\* The transfer breaks off, or the progress callback looks and finds no handle.
BreakOff(t) ==
    /\ Runs(t, "transfer")
    /\ "cut" \in Faults \/ lv_thdDownload = None
    /\ holder' = Closed(t)
    /\ left' = [left EXCEPT ![t] = 0]
    /\ To(t, "back")
    /\ UNCHANGED <<page, archive, image, attempt, handed, suspended, past>>

\* All has come.  At the end the callback looks once more, but only at an answer that has
\* told its length: the rest of a cancelled download may come in, too (else it is BreakOff).
Received(t) ==
    /\ Runs(t, "transfer") /\ left[t] = 0
    /\ holder' = Closed(t)
    /\ To(t, "unzip")
    /\ UNCHANGED <<page, archive, image, attempt, left, handed, suspended, past>>

\* Mutants of Back: the attempts are not counted; the loop's outcome is not looked at.
BackUncounted(t) ==
    /\ Runs(t, "back")
    /\ IF attempt[t] = 0 /\ lv_thdDownload = None
       THEN To(t, "canceled")
       ELSE To(t, IF attempt[t] < Retries THEN "bearer" ELSE "failed")
    /\ UNCHANGED <<page, files, image, attempt, left, handed, suspended, past>>

BackAnyway(t) ==
    /\ Runs(t, "back")
    /\ IF attempt[t] = 0 /\ lv_thdDownload = None
       THEN To(t, "canceled") /\ UNCHANGED attempt
       ELSE IF attempt[t] < Retries
       THEN To(t, "bearer") /\ attempt' = [attempt EXCEPT ![t] = @ + 1]
       ELSE To(t, "unzip") /\ UNCHANGED attempt
    /\ UNCHANGED <<page, files, image, left, handed, suspended, past>>

BackOnceMore(t) ==
    /\ Runs(t, "back")
    /\ IF attempt[t] = 0 /\ lv_thdDownload = None
       THEN To(t, "canceled") /\ UNCHANGED attempt
       ELSE IF attempt[t] <= Retries
       THEN To(t, "bearer") /\ attempt' = [attempt EXCEPT ![t] = @ + 1]
       ELSE To(t, "failed") /\ UNCHANGED attempt
    /\ UNCHANGED <<page, files, image, left, handed, suspended, past>>

\* After an attempt that failed: only after the first is a cancellation looked for.
Back(t) ==
    /\ Runs(t, "back")
    /\ IF attempt[t] = 0 /\ lv_thdDownload = None
       THEN To(t, "canceled") /\ UNCHANGED attempt
       ELSE IF attempt[t] < Retries
       THEN To(t, "bearer") /\ attempt' = [attempt EXCEPT ![t] = @ + 1]
       ELSE To(t, "failed") /\ UNCHANGED attempt
    /\ UNCHANGED <<page, files, image, left, handed, suspended, past>>

\* 7z unpacks the archive, which is then deleted, neither if somebody has it open.  What 7z
\* says of it is not looked at, only whether there is a .vmx: that may be an earlier
\* download's, or of what 7z came to unpack before it failed.
Unzip(t) ==
    LET i == image[t]
        a == IF holder[i] = None THEN archive[i] ELSE Absent IN
    /\ Runs(t, "unzip")
    /\ handed' = [handed EXCEPT ![t] = a]
    /\ archive' = IF holder[i] = None THEN [archive EXCEPT ![i] = Absent] ELSE archive
    /\ \/ To(t, "complete")
       \/ (a.chunks < Size \/ a.junk \/ "unpack" \in Faults) /\ To(t, "failed")
    /\ UNCHANGED <<page, holder, image, attempt, left, suspended, past>>

\* WM_USER_DOWNLOAD_CANCELED, which changes only how things look.
Canceled(t) ==
    /\ Runs(t, "canceled")
    /\ To(t, "end")
    /\ UNCHANGED <<page, files, image, attempt, left, handed, suspended, past>>

\* The end of TF_DOWN_UNZIP: the handle is dropped, whosever it is.
End(t) ==
    /\ Runs(t, "end")
    /\ To(t, "done")
    /\ lv_thdDownload' = None
    /\ UNCHANGED <<_bPausedDownload, m_bDownloadContinue, files, image, attempt, left, handed,
                   suspended, past>>

-----------------------------------------------------------------------------
TF_DOWN_UNZIP(t) ==
    \/ Report(t) \/ NoBearer(t) \/ Receive(t) \/ BreakOff(t) \/ Received(t)
    \/ \E error \in BOOLEAN : Open(t, error)
    \/ Back(t) \/ Unzip(t) \/ Canceled(t) \/ End(t)
    \/ Dismiss(t)

Next ==
    \/ \E t \in Threads, i \in Images : Start(t, i)
    \/ Cancel \/ OnBnClickedBtnPause \/ onAfterVMStoped
    \/ \E t \in Threads : TF_DOWN_UNZIP(t)

Spec == Init /\ [][Next]_vars

\* A thread that is not suspended runs, its requests end one way or the other, and the user
\* dismisses a box.
Fairness == \A t \in Threads : WF_vars(TF_DOWN_UNZIP(t))

FairSpec == Spec /\ Fairness

-----------------------------------------------------------------------------
(* Properties.                                                             *)

DownloadTypeOK ==
    /\ lv_thdDownload \in Active \cup {None}
    /\ _bPausedDownload \in BOOLEAN /\ m_bDownloadContinue \in BOOLEAN
    /\ archive \in [Images -> Archives]
    /\ holder \in [Images -> Threads \cup {None}]
    /\ at \in [Threads -> Places]
    /\ image \in [Threads -> Images]
    /\ attempt \in [Threads -> 0 .. Retries]
    /\ left \in [Threads -> 0 .. Size]
    /\ handed \in [Threads -> Archives]
    /\ suspended \subseteq Threads /\ cancelled \subseteq Threads
    /\ crowded \in BOOLEAN

\* A download that reports completion had all of the archive to unpack, although the
\* server's status is not looked at and the attempts append to one file: what it gave to 7z
\* is short only if something was written into it that is not the archive's, or another
\* thread was left behind with it.  (Of what 7z makes of it nothing is promised.)
CompleteIsWhole ==
    \A t \in Threads : at[t] = "complete" => handed[t].chunks = Size \/ handed[t].junk \/ crowded

\* Only the user's click makes a download end as cancelled, although what the thread looks
\* at is whether the page holds any handle: with another thread about, that one's end does.
CanceledByUser == \A t \in Threads : at[t] = "canceled" => t \in cancelled \/ crowded

\* Every download ends, cancelled or not, unless it is suspended: by a retry loop that does
\* not look for the cancellation, by messages it waits for, and by the attempts running out.
EveryDownloadEnds ==
    \A t \in Threads :
        at[t] # "none" ~> at[t] \in {"done", "killed"} \/ t \in suspended
=============================================================================
