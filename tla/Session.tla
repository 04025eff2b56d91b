------------------------------ MODULE Session ------------------------------
(***************************************************************************)
(* The launcher's session with the policy server: the login and one-time   *)
(* password pages (src/KLauncher/ClaPageLogin.cpp, ClaPageOTP.cpp), the    *)
(* dialog (src/KLauncher/KLauncherDlg.cpp) and the part of                 *)
(* src/KenanConn/KenanConn.cpp that keeps the session alive.               *)
(*                                                                         *)
(* Every login starts a thread (TF_SHAKE) that asks the server now and     *)
(* then whether the session is still valid, and nothing ends the thread of *)
(* the login before: it reads the session of the moment when it asks, but  *)
(* what it was told may come when the session has been replaced.  The      *)
(* threads write the token, the dialog's fields and the last error without *)
(* a lock; only the window's thread reads the fields, when it takes the    *)
(* message a shake thread sends and waits for.                             *)
(*                                                                         *)
(* A session, its token and its thread have the number of their login; 0   *)
(* is the empty string.  What becomes of the virtual machine when the page *)
(* asks it to halt is modelled in LauncherPage.tla: here it stops in its   *)
(* own time.  Left out: speed, health and status, which are only shown;    *)
(* failed password attempts, which change nothing and are not counted; a   *)
(* session the server made for an answer that was lost.                    *)
(***************************************************************************)
EXTENDS Naturals, Sequences

CONSTANTS
    MaxLogins,  \* bound on the logins of one run of the launcher
    OtpTries,   \* initial value of lv_nCountOtp (3)
    MaxGuesses, \* bound on the wrong one-time passwords
    Faults      \* what may go wrong with a request

FaultKinds ==
    {"lost",     \* no answer, or one whose status is not 200
     "garbled",  \* an answer that does not parse: lv_dwLastError is set
     "vague"}    \* an answer to validate with neither is_valid nor a known message

ASSUME BoundsAssumption ==
    MaxLogins \in Nat /\ OtpTries \in Nat \ {0} /\ MaxGuesses \in Nat
ASSUME FaultsAssumption == Faults \subseteq FaultKinds

Logins   == 1 .. MaxLogins
Verdicts == {"valid", "ended", "vague"}

VARIABLES
    page,           \* "login", "otp", "main", or "exit" when the dialog is closed
    otp,            \* where OnBnClickedBtnLogin of the OTP page is, "none" outside it
    lv_nCountOtp,   \* attempts left
    boxes,          \* threads whose message opened a box, innermost last
    fields,         \* the verdict in the dialog's fields
    running,        \* is the virtual machine running?
    closing,        \* will the dialog be closed when the machine has stopped?
    lv_szJWT,       \* the login whose token it is
    lv_szSession,   \* the login whose session it is
    lv_dwLastError, \* is it ERROR_SERVER_DISABLED?
    shake,          \* where each login's TF_SHAKE is
    about,          \* the session its request names
    logins,         \* logins so far
    live,           \* sessions the server has not ended
    crossed,        \* was a check under way at the last login?
    guesses,        \* wrong passwords the server refused
    spared          \* has a refusal been let off?

uiVars    == <<page, otp, lv_nCountOtp, boxes, running, closing>>
connVars  == <<lv_szJWT, lv_szSession, lv_dwLastError>>
shakeVars == <<shake, about, fields>>
srvVars   == <<logins, live>>
pastVars  == <<crossed, guesses, spared>>
vars      == <<uiVars, connVars, shakeVars, srvVars, pastVars>>

\* crossed, guesses and spared are history; the code has no such variables.

Init ==
    /\ page = "login"
    /\ otp = "none"
    /\ lv_nCountOtp = OtpTries
    /\ boxes = <<>>
    /\ fields = "valid"
    /\ running = FALSE /\ closing = FALSE
    /\ lv_szJWT = 0 /\ lv_szSession = 0
    /\ lv_dwLastError = FALSE
    /\ shake = [t \in Logins |-> "none"]
    /\ about = [t \in Logins |-> 0]
    /\ logins = 0
    /\ live = {}
    /\ crossed = FALSE /\ guesses = 0 /\ spared = FALSE

UnderWay == {t \in Logins : shake[t] \in {"asked", "told"}}

\* The window takes the user's input: no handler is at work, and a message that was sent to
\* it comes first.
Idle ==
    /\ page # "exit"
    /\ otp = "none"
    /\ boxes = <<>>
    /\ \A t \in Logins : shake[t] # "told"

\* CKLauncherDlg::OnCancel.  With the machine running the user is asked: to halt it, and the
\* dialog is closed when it has stopped, or to leave things as they are.
OnCancel ==
    IF running
    THEN closing' \in {closing, TRUE} /\ UNCHANGED page
    ELSE page' = "exit" /\ UNCHANGED closing

-----------------------------------------------------------------------------
(* The user and the window's thread.                                       *)

\* OnBnClickedBtnLogin of the login page, with the right password.
KC_AUTH ==
    /\ Idle /\ page = "login"
    /\ page' = "otp"
    /\ lv_dwLastError' = FALSE
    /\ UNCHANGED <<otp, lv_nCountOtp, boxes, running, closing, lv_szJWT, lv_szSession, shakeVars,
                   srvVars, pastVars>>

Back ==
    /\ Idle /\ page = "otp"
    /\ page' = "login"
    /\ UNCHANGED <<otp, lv_nCountOtp, boxes, running, closing, connVars, shakeVars, srvVars,
                   pastVars>>

\* onAfterVMStoped for a logout: the session and its thread are left as they are.
Logout ==
    /\ Idle /\ page = "main"
    /\ page' = "login"
    /\ running' = FALSE
    /\ UNCHANGED <<otp, lv_nCountOtp, boxes, closing, connVars, shakeVars, srvVars, pastVars>>

CloseWindow ==
    /\ Idle
    /\ OnCancel
    /\ UNCHANGED <<otp, lv_nCountOtp, boxes, running, connVars, shakeVars, srvVars, pastVars>>

VmStarts ==
    /\ Idle /\ page = "main" /\ ~running
    /\ running' = TRUE
    /\ UNCHANGED <<page, otp, lv_nCountOtp, boxes, closing, connVars, shakeVars, srvVars,
                   pastVars>>

VmStops ==
    /\ page # "exit" /\ running
    /\ running' = FALSE
    /\ page' = IF closing THEN "exit" ELSE page
    /\ UNCHANGED <<otp, lv_nCountOtp, boxes, closing, connVars, shakeVars, srvVars, pastVars>>

\* KC_OTP sends the password and waits: the window's thread takes no message meanwhile.
OtpAsk ==
    /\ Idle /\ page = "otp"
    /\ otp' = "waiting"
    /\ lv_dwLastError' = FALSE
    /\ UNCHANGED <<page, lv_nCountOtp, boxes, running, closing, lv_szJWT, lv_szSession, shakeVars,
                   srvVars, pastVars>>

\* Mutant of OtpAccepted: the token is not taken over.
OtpAcceptedNoToken ==
    /\ page # "exit" /\ otp = "waiting" /\ logins < MaxLogins
    /\ logins' = logins + 1
    /\ live' = live \cup {logins'}
    /\ lv_szSession' = logins'
    /\ shake' = [shake EXCEPT ![logins'] = "sleep"]
    /\ otp' = "none" /\ page' = "main"
    /\ crossed' = (UnderWay # {})
    /\ UNCHANGED <<lv_nCountOtp, boxes, running, closing, lv_szJWT, lv_dwLastError, about, fields,
                   guesses, spared>>

\* The password is right: KC_OTP takes the new session over and starts its thread.
OtpAccepted ==
    /\ page # "exit" /\ otp = "waiting" /\ logins < MaxLogins
    /\ logins' = logins + 1
    /\ live' = live \cup {logins'}
    /\ lv_szJWT' = logins' /\ lv_szSession' = logins'
    /\ shake' = [shake EXCEPT ![logins'] = "sleep"]
    /\ otp' = "none" /\ page' = "main"
    /\ crossed' = (UnderWay # {})
    /\ UNCHANGED <<lv_nCountOtp, boxes, running, closing, lv_dwLastError, about, fields, guesses,
                   spared>>

OtpRefused ==
    /\ page # "exit" /\ otp = "waiting" /\ guesses < MaxGuesses
    /\ otp' = "refused"
    /\ guesses' = guesses + 1
    /\ UNCHANGED <<page, lv_nCountOtp, boxes, running, closing, connVars, shakeVars, srvVars,
                   crossed, spared>>

OtpFailed(f) ==
    /\ page # "exit" /\ otp = "waiting"
    /\ otp' = "failed"
    /\ lv_dwLastError' = (f = "garbled")
    /\ UNCHANGED <<page, lv_nCountOtp, boxes, running, closing, lv_szJWT, lv_szSession, shakeVars,
                   srvVars, pastVars>>

\* KC_GET_ERR: the error is whoever's that came last.  Then a box, either way.
OtpReadError ==
    /\ page # "exit" /\ otp \in {"refused", "failed"}
    /\ otp' = IF lv_dwLastError THEN "none" ELSE "box"
    /\ spared' = (spared \/ (otp = "refused" /\ lv_dwLastError))
    /\ UNCHANGED <<page, lv_nCountOtp, boxes, running, closing, connVars, shakeVars, srvVars,
                   crossed, guesses>>

\* Mutant of OtpCounted: one attempt more.
OtpCountedLate ==
    /\ page # "exit" /\ otp = "box" /\ boxes = <<>>
    /\ otp' = "none"
    /\ IF lv_nCountOtp > 0
       THEN /\ lv_nCountOtp' = lv_nCountOtp - 1
            /\ UNCHANGED <<page, closing, spared>>
       ELSE /\ OnCancel
            /\ spared' = (spared \/ running)
            /\ UNCHANGED lv_nCountOtp
    /\ UNCHANGED <<boxes, running, connVars, shakeVars, srvVars, crossed, guesses>>

\* "Please input the correct OTP code." has been dismissed, after the boxes that were opened
\* behind it.
OtpCounted ==
    /\ page # "exit" /\ otp = "box" /\ boxes = <<>>
    /\ otp' = "none"
    /\ IF lv_nCountOtp > 1
       THEN /\ lv_nCountOtp' = lv_nCountOtp - 1
            /\ UNCHANGED <<page, closing, spared>>
       ELSE /\ OnCancel
            /\ spared' = (spared \/ running)
            /\ UNCHANGED lv_nCountOtp
    /\ UNCHANGED <<boxes, running, connVars, shakeVars, srvVars, crossed, guesses>>

-----------------------------------------------------------------------------
(* TF_SHAKE.                                                               *)

Ask(t) ==
    /\ page # "exit" /\ shake[t] = "sleep"
    /\ shake' = [shake EXCEPT ![t] = "asked"]
    /\ about' = [about EXCEPT ![t] = lv_szSession]
    /\ lv_dwLastError' = FALSE
    /\ UNCHANGED <<uiVars, lv_szJWT, lv_szSession, fields, srvVars, pastVars>>

\* Mutants of Hear: the status of an ended session is left at 1; a vague answer counts as the
\* end of the session.
HearNothing(t, v) ==
    /\ lv_szJWT' = IF v = "valid" THEN about[t] ELSE 0
    /\ fields' = IF v = "ended" THEN "valid" ELSE v

HearWorst(t, v) ==
    /\ lv_szJWT' = IF v = "valid" THEN about[t] ELSE 0
    /\ fields' = IF v = "vague" THEN "ended" ELSE v

\* The token becomes what CALLBACK_VALIDATE made of the answer, nothing unless it is valid;
\* then the dialog's CALLBACK_VALIDATE writes the fields.
Hear(t, v) ==
    /\ lv_szJWT' = IF v = "valid" THEN about[t] ELSE 0
    /\ fields' = v

Told(t, v) ==
    /\ page # "exit" /\ shake[t] = "asked"
    /\ Hear(t, v)
    /\ shake' = [shake EXCEPT ![t] = "told"]
    /\ about' = [about EXCEPT ![t] = 0]
    /\ UNCHANGED <<uiVars, lv_szSession, lv_dwLastError, srvVars, pastVars>>

Answered(t) == Told(t, IF about[t] \in live THEN "valid" ELSE "ended")

Vaguely(t) == "vague" \in Faults /\ Told(t, "vague")

Unanswered(t, f) ==
    /\ page # "exit" /\ shake[t] = "asked"
    /\ shake' = [shake EXCEPT ![t] = "sleep"]
    /\ about' = [about EXCEPT ![t] = 0]
    /\ lv_dwLastError' = (lv_dwLastError \/ f = "garbled")
    /\ UNCHANGED <<uiVars, lv_szJWT, lv_szSession, fields, srvVars, pastVars>>

\* WindowProc, WM_USER_CONN_VALIDATE: at the end of a session the machine is asked to
\* suspend, and the user is told.
Validate(t) ==
    /\ page # "exit" /\ otp \in {"none", "box"} /\ shake[t] = "told"
    /\ IF fields = "ended"
       THEN /\ boxes' = Append(boxes, t)
            /\ shake' = [shake EXCEPT ![t] = "box"]
       ELSE /\ shake' = [shake EXCEPT ![t] = "sleep"]
            /\ UNCHANGED boxes
    /\ UNCHANGED <<page, otp, lv_nCountOtp, running, closing, connVars, about, fields, srvVars,
                   pastVars>>

\* Mutant of Dismiss: the page stays.
DismissOnly ==
    /\ page # "exit" /\ boxes # <<>>
    /\ boxes' = SubSeq(boxes, 1, Len(boxes) - 1)
    /\ shake' = [shake EXCEPT ![boxes[Len(boxes)]] = "done"]
    /\ UNCHANGED <<page, otp, lv_nCountOtp, running, closing, connVars, about, fields, srvVars,
                   pastVars>>

\* The box is dismissed: ShowLoginPage, and FALSE for the thread, which ends.
Dismiss ==
    /\ page # "exit" /\ boxes # <<>>
    /\ boxes' = SubSeq(boxes, 1, Len(boxes) - 1)
    /\ shake' = [shake EXCEPT ![boxes[Len(boxes)]] = "done"]
    /\ page' = "login"
    /\ UNCHANGED <<otp, lv_nCountOtp, running, closing, connVars, about, fields, srvVars,
                   pastVars>>

-----------------------------------------------------------------------------
\* The server ends a session: another login of the user, a disabled user or machine.
SessionEnds(s) ==
    /\ s \in live
    /\ live' = live \ {s}
    /\ UNCHANGED <<uiVars, connVars, shakeVars, logins, pastVars>>

Window ==
    \/ KC_AUTH \/ Back \/ Logout \/ CloseWindow
    \/ VmStarts \/ VmStops
    \/ OtpAsk \/ OtpAccepted \/ OtpRefused \/ OtpReadError \/ OtpCounted
    \/ \E f \in Faults \cap {"lost", "garbled"} : OtpFailed(f)
    \/ Dismiss

Shake(t) ==
    \/ Ask(t) \/ Answered(t) \/ Vaguely(t) \/ Validate(t)
    \/ \E f \in Faults \cap {"lost", "garbled"} : Unanswered(t, f)

Next ==
    \/ Window
    \/ \E t \in Logins : Shake(t)
    \/ \E s \in live : SessionEnds(s)

Spec == Init /\ [][Next]_vars

\* The threads run and the window takes their messages; a user dismisses a box before doing
\* anything else; of the checks that reach the server some are answered as they should be.
Fairness ==
    /\ \A t \in Logins : WF_vars(Ask(t)) /\ SF_vars(Answered(t)) /\ WF_vars(Validate(t))
    /\ WF_vars(Dismiss)

FairSpec == Spec /\ Fairness

-----------------------------------------------------------------------------
(* Properties.                                                             *)

SessionTypeOK ==
    /\ page \in {"login", "otp", "main", "exit"}
    /\ otp \in {"none", "waiting", "refused", "failed", "box"}
    /\ lv_nCountOtp \in 1 .. OtpTries
    /\ boxes \in Seq(Logins)
    /\ fields \in Verdicts
    /\ running \in BOOLEAN /\ closing \in BOOLEAN
    /\ lv_szJWT \in 0 .. MaxLogins
    /\ lv_szSession \in 0 .. logins
    /\ lv_dwLastError \in BOOLEAN
    /\ shake \in [Logins -> {"none", "sleep", "asked", "told", "box", "done"}]
    /\ about \in [Logins -> 0 .. logins]
    /\ logins \in 0 .. MaxLogins
    /\ live \subseteq 1 .. logins
    /\ crossed \in BOOLEAN /\ guesses \in 0 .. MaxGuesses /\ spared \in BOOLEAN

\* The token the requests carry is the current session's, or empty: only an answer that was
\* under way when the session was replaced can bring an older one back (TF_SHAKE stores the
\* token of whatever answer comes in; KC_OTP does not end the thread of the login before).
TokenOfSession == lv_szJWT \in {0, lv_szSession} \/ crossed

\* Whoever is sent back to the login page has lost the session on the server: the threads of
\* several logins share the dialog's fields, but only an answer that was under way at the
\* login can throw a live session out.
OnlyEndedSessionsLeave == boxes # <<>> => lv_szSession \notin live \/ crossed

\* Behind the main page there is always the thread of the current session, whatever the
\* threads of earlier logins read from the fields it wrote.
SessionWatched ==
    page = "main" => lv_szSession \in Logins /\ shake[lv_szSession] \notin {"none", "done"}

\* A launcher takes no more than OtpTries wrong passwords, over all its logins, unless a
\* refusal was let off: another thread's request left ERROR_SERVER_DISABLED behind, or the
\* machine was running and the window could not be closed.
GuessesBounded == guesses <= OtpTries \/ spared

\* Once the server has ended the session, the main page is left, provided that answers are
\* not vague for ever (the other thread's vague answer hides an end in the fields).
EndedSessionNoticed ==
    <>[][\A t \in Logins : ~Vaguely(t)]_vars
        => (page = "main" /\ lv_szSession \notin live ~> page # "main")
=============================================================================
