--------------------------- MODULE Session_proofs ---------------------------
(***************************************************************************)
(* Proofs for Session.tla: its invariants hold for every number of logins  *)
(* and attempts and for every set of faults.                               *)
(***************************************************************************)
EXTENDS Session, SequenceTheorems, TLAPS

\* Without a check that was under way at the login, every request names the session of now.
CurrentAsked == crossed \/ \A t \in Logins : shake[t] = "asked" => about[t] = lv_szSession

\* ... and what is waiting in the fields for the window is true of it.
CurrentFields ==
    crossed \/ fields # "ended" \/ lv_szSession \notin live
            \/ \A t \in Logins : shake[t] # "told"

\* A login has no thread, and its thread no box, before it takes place.
NotYet == boxes \in Seq(1 .. logins) /\ \A t \in Logins : t > logins => shake[t] = "none"

\* No box is open while KC_OTP waits, nor until its error has been read.
Alone == otp \in {"waiting", "refused", "failed"} => boxes = <<>>

\* Every wrong password has cost an attempt, but for the one being told.
Counted ==
    \/ spared
    \/ /\ guesses <= OtpTries
       /\ page # "exit" =>
            guesses + lv_nCountOtp <= OtpTries + IF otp \in {"refused", "box"} THEN 1 ELSE 0

SessionInv ==
    /\ SessionTypeOK
    /\ TokenOfSession /\ CurrentAsked /\ CurrentFields /\ OnlyEndedSessionsLeave
    /\ SessionWatched /\ NotYet /\ Alone
    /\ Counted

\* Dismissing the innermost of several boxes.
LEMMA InnermostBox ==
    ASSUME NEW S, NEW s \in Seq(S), s # <<>>
    PROVE  s[Len(s)] \in S /\ SubSeq(s, 1, Len(s) - 1) \in Seq(S)
<1>1. Len(s) \in Nat /\ Len(s) > 0
  BY EmptySeq, LenProperties
<1>2. s[Len(s)] \in S
  BY <1>1, ElementOfSeq
<1>3. SubSeq(s, 1, Len(s) - 1) \in Seq(S)
  BY <1>1, SubSeqProperties
<1> QED  BY <1>2, <1>3

LEMMA InitHolds == Init => SessionInv
<1> USE BoundsAssumption DEF Init, Logins, Verdicts
<1>1. ASSUME Init PROVE SessionTypeOK
  <2>1. boxes \in Seq(Logins)
    BY <1>1, EmptySeq
  <2>2. shake \in [Logins -> {"none", "sleep", "asked", "told", "box", "done"}]
    BY <1>1
  <2>3. about \in [Logins -> 0 .. logins] /\ live \subseteq 1 .. logins
    BY <1>1
  <2>4. page = "login" /\ otp = "none" /\ lv_nCountOtp \in 1 .. OtpTries /\ fields \in Verdicts
    BY <1>1
  <2>5. /\ lv_szJWT \in 0 .. MaxLogins /\ lv_szSession \in 0 .. logins
        /\ logins \in 0 .. MaxLogins /\ guesses \in 0 .. MaxGuesses
    BY <1>1
  <2>6. /\ running \in BOOLEAN /\ closing \in BOOLEAN /\ lv_dwLastError \in BOOLEAN
        /\ crossed \in BOOLEAN /\ spared \in BOOLEAN
    BY <1>1, Zenon
  <2> QED  BY <2>1, <2>2, <2>3, <2>4, <2>5, <2>6 DEF SessionTypeOK
<1>2. ASSUME Init
      PROVE  /\ TokenOfSession /\ CurrentAsked /\ CurrentFields /\ OnlyEndedSessionsLeave
             /\ SessionWatched /\ NotYet /\ Alone
  BY <1>2, EmptySeq DEF TokenOfSession, CurrentAsked, CurrentFields, OnlyEndedSessionsLeave, SessionWatched,
       NotYet, Alone
<1>3. ASSUME Init PROVE Counted
  BY <1>3 DEF Counted
<1> QED  BY <1>1, <1>2, <1>3 DEF SessionInv

LEMMA StepHolds == SessionInv /\ [Next]_vars => SessionInv'
<1> SUFFICES ASSUME SessionInv, [Next]_vars PROVE SessionInv'
  OBVIOUS
<1> USE BoundsAssumption DEF SessionInv, SessionTypeOK, TokenOfSession, CurrentAsked,
     CurrentFields, OnlyEndedSessionsLeave, SessionWatched, NotYet, Alone, Counted, Logins,
     Verdicts, uiVars, connVars, shakeVars, srvVars, pastVars, Idle
<1>1. CASE KC_AUTH  BY <1>1 DEF KC_AUTH
<1>2. CASE Back  BY <1>2 DEF Back
<1>3. CASE Logout  BY <1>3 DEF Logout
<1>4. CASE CloseWindow
  <2>1. SessionTypeOK'  BY <1>4 DEF CloseWindow, OnCancel
  <2>2. TokenOfSession'  BY <1>4 DEF CloseWindow, OnCancel
  <2>3. CurrentAsked'  BY <1>4 DEF CloseWindow, OnCancel
  <2>4. CurrentFields'  BY <1>4 DEF CloseWindow, OnCancel
  <2>5. OnlyEndedSessionsLeave'  BY <1>4 DEF CloseWindow, OnCancel
  <2>6. SessionWatched'  BY <1>4 DEF CloseWindow, OnCancel
  <2>7. NotYet'  BY <1>4 DEF CloseWindow, OnCancel
  <2>8. Alone'  BY <1>4 DEF CloseWindow, OnCancel
  <2>9. Counted'  BY <1>4 DEF CloseWindow, OnCancel
  <2> QED  BY <2>1, <2>2, <2>3, <2>4, <2>5, <2>6, <2>7, <2>8, <2>9 DEF SessionInv
<1>5. CASE VmStarts  BY <1>5 DEF VmStarts
<1>6. CASE VmStops
  <2>1. SessionTypeOK'  BY <1>6 DEF VmStops
  <2>2. TokenOfSession'  BY <1>6 DEF VmStops
  <2>3. CurrentAsked'  BY <1>6 DEF VmStops
  <2>4. CurrentFields'  BY <1>6 DEF VmStops
  <2>5. OnlyEndedSessionsLeave'  BY <1>6 DEF VmStops
  <2>6. SessionWatched'  BY <1>6 DEF VmStops
  <2>7. NotYet'  BY <1>6 DEF VmStops
  <2>8. Alone'  BY <1>6 DEF VmStops
  <2>9. Counted'  BY <1>6 DEF VmStops
  <2> QED  BY <2>1, <2>2, <2>3, <2>4, <2>5, <2>6, <2>7, <2>8, <2>9 DEF SessionInv
<1>7. CASE OtpAsk  BY <1>7 DEF OtpAsk
<1>8. CASE OtpAccepted
  <2>1. SessionTypeOK'  BY <1>8 DEF OtpAccepted, UnderWay
  <2>2. TokenOfSession'  BY <1>8 DEF OtpAccepted, UnderWay
  <2>3. CurrentAsked'  BY <1>8 DEF OtpAccepted, UnderWay
  <2>4. CurrentFields'  BY <1>8 DEF OtpAccepted, UnderWay
  <2>5. OnlyEndedSessionsLeave'  BY <1>8 DEF OtpAccepted, UnderWay
  <2>6. SessionWatched'  BY <1>8 DEF OtpAccepted, UnderWay
  <2>7. NotYet'  BY <1>8, EmptySeq DEF OtpAccepted, UnderWay
  <2>8. Alone'  BY <1>8 DEF OtpAccepted, UnderWay
  <2>9. Counted'  BY <1>8 DEF OtpAccepted, UnderWay
  <2> QED  BY <2>1, <2>2, <2>3, <2>4, <2>5, <2>6, <2>7, <2>8, <2>9 DEF SessionInv
<1>9. CASE OtpRefused  BY <1>9 DEF OtpRefused
<1>10. CASE OtpReadError  BY <1>10 DEF OtpReadError
<1>11. CASE OtpCounted
  <2>1. SessionTypeOK'
    <3>1. page' \in {"login", "otp", "main", "exit"} /\ lv_nCountOtp' \in 1 .. OtpTries
      <4>1. CASE lv_nCountOtp > 1
        BY <1>11, <4>1 DEF OtpCounted
      <4>2. CASE ~(lv_nCountOtp > 1)
        <5>1. lv_nCountOtp' = lv_nCountOtp
          BY <1>11, <4>2 DEF OtpCounted
        <5>2. page' = page \/ page' = "exit"
          BY <1>11, <4>2 DEF OtpCounted, OnCancel
        <5> QED  BY <5>1, <5>2
      <4> QED  BY <4>1, <4>2
    <3>2. closing' \in BOOLEAN
      <4>1. closing' = closing \/ closing' = TRUE
        BY <1>11 DEF OtpCounted, OnCancel
      <4> QED  BY <4>1
    <3>3. spared' \in BOOLEAN
      <4>1. spared' = spared \/ spared' = (spared \/ running)
        BY <1>11 DEF OtpCounted
      <4> QED  BY <4>1
    <3> QED  BY <1>11, <3>1, <3>2, <3>3 DEF OtpCounted
  <2>2. TokenOfSession'  BY <1>11 DEF OtpCounted, OnCancel
  <2>3. CurrentAsked'  BY <1>11 DEF OtpCounted, OnCancel
  <2>4. CurrentFields'  BY <1>11 DEF OtpCounted, OnCancel
  <2>5. OnlyEndedSessionsLeave'  BY <1>11 DEF OtpCounted, OnCancel
  <2>6. SessionWatched'  BY <1>11 DEF OtpCounted, OnCancel
  <2>7. NotYet'  BY <1>11 DEF OtpCounted, OnCancel
  <2>8. Alone'  BY <1>11 DEF OtpCounted, OnCancel
  <2>9. Counted'
    <3>1. CASE spared
      BY <1>11, <3>1 DEF OtpCounted
    <3>2. CASE ~spared /\ lv_nCountOtp > 1
      BY <1>11, <3>2 DEF OtpCounted
    <3>3. CASE ~spared /\ ~(lv_nCountOtp > 1) /\ running
      <4>1. spared' = (spared \/ running)
        BY <1>11, <3>3 DEF OtpCounted
      <4> QED  BY <3>3, <4>1
    <3>4. CASE ~spared /\ ~(lv_nCountOtp > 1) /\ ~running
      <4>1. guesses <= OtpTries
        BY <3>4
      <4>2. page' = "exit" /\ guesses' = guesses
        BY <1>11, <3>4 DEF OtpCounted, OnCancel
      <4> QED  BY <4>1, <4>2
    <3> QED  BY <3>1, <3>2, <3>3, <3>4
  <2> QED  BY <2>1, <2>2, <2>3, <2>4, <2>5, <2>6, <2>7, <2>8, <2>9 DEF SessionInv
<1>12. CASE \E f \in Faults \cap {"lost", "garbled"} : OtpFailed(f)  BY <1>12 DEF OtpFailed
<1>13. CASE Dismiss
  <2>1. SessionTypeOK'  BY <1>13, InnermostBox DEF Dismiss
  <2>2. TokenOfSession'  BY <1>13, InnermostBox DEF Dismiss
  <2>3. CurrentAsked'  BY <1>13, InnermostBox DEF Dismiss
  <2>4. CurrentFields'  BY <1>13, InnermostBox DEF Dismiss
  <2>5. OnlyEndedSessionsLeave'  BY <1>13, InnermostBox DEF Dismiss
  <2>6. SessionWatched'  BY <1>13, InnermostBox DEF Dismiss
  <2>7. NotYet'
    <3>1. boxes[Len(boxes)] \in 1 .. logins /\ boxes' \in Seq(1 .. logins)
      BY <1>13, InnermostBox DEF Dismiss
    <3>2. logins' = logins /\ shake' = [shake EXCEPT ![boxes[Len(boxes)]] = "done"]
      BY <1>13 DEF Dismiss
    <3>3. \A t \in Logins : t > logins => shake'[t] = "none"
      BY <3>1, <3>2
    <3> QED  BY <1>13, <3>1, <3>2, <3>3 DEF Dismiss
  <2>8. Alone'  BY <1>13, InnermostBox DEF Dismiss
  <2>9. Counted'
    <3>1. UNCHANGED <<spared, guesses, lv_nCountOtp, otp>> /\ page # "exit" /\ page' # "exit"
      BY <1>13 DEF Dismiss
    <3> QED  BY <3>1
  <2> QED  BY <2>1, <2>2, <2>3, <2>4, <2>5, <2>6, <2>7, <2>8, <2>9 DEF SessionInv
<1>14. ASSUME NEW t \in Logins, Ask(t) PROVE SessionInv'
  <2>1. SessionTypeOK'  BY <1>14 DEF Ask
  <2>2. TokenOfSession'  BY <1>14 DEF Ask
  <2>3. CurrentAsked'  BY <1>14 DEF Ask
  <2>4. CurrentFields'  BY <1>14 DEF Ask
  <2>5. OnlyEndedSessionsLeave'  BY <1>14 DEF Ask
  <2>6. SessionWatched'  BY <1>14 DEF Ask
  <2>7. NotYet'  BY <1>14 DEF Ask
  <2>8. Alone'  BY <1>14 DEF Ask
  <2>9. Counted'  BY <1>14 DEF Ask
  <2> QED  BY <2>1, <2>2, <2>3, <2>4, <2>5, <2>6, <2>7, <2>8, <2>9 DEF SessionInv
<1>15. ASSUME NEW t \in Logins, Answered(t) PROVE SessionInv'
  <2>1. SessionTypeOK'  BY <1>15 DEF Answered, Told, Hear
  <2>2. TokenOfSession'  BY <1>15 DEF Answered, Told, Hear
  <2>3. CurrentAsked'  BY <1>15 DEF Answered, Told, Hear
  <2>4. CurrentFields'  BY <1>15 DEF Answered, Told, Hear
  <2>5. OnlyEndedSessionsLeave'  BY <1>15 DEF Answered, Told, Hear
  <2>6. SessionWatched'  BY <1>15 DEF Answered, Told, Hear
  <2>7. NotYet'  BY <1>15 DEF Answered, Told, Hear
  <2>8. Alone'  BY <1>15 DEF Answered, Told, Hear
  <2>9. Counted'  BY <1>15 DEF Answered, Told, Hear
  <2> QED  BY <2>1, <2>2, <2>3, <2>4, <2>5, <2>6, <2>7, <2>8, <2>9 DEF SessionInv
<1>16. ASSUME NEW t \in Logins, Vaguely(t) PROVE SessionInv'
  <2>1. SessionTypeOK'  BY <1>16 DEF Vaguely, Told, Hear
  <2>2. TokenOfSession'  BY <1>16 DEF Vaguely, Told, Hear
  <2>3. CurrentAsked'  BY <1>16 DEF Vaguely, Told, Hear
  <2>4. CurrentFields'  BY <1>16 DEF Vaguely, Told, Hear
  <2>5. OnlyEndedSessionsLeave'  BY <1>16 DEF Vaguely, Told, Hear
  <2>6. SessionWatched'  BY <1>16 DEF Vaguely, Told, Hear
  <2>7. NotYet'  BY <1>16 DEF Vaguely, Told, Hear
  <2>8. Alone'  BY <1>16 DEF Vaguely, Told, Hear
  <2>9. Counted'  BY <1>16 DEF Vaguely, Told, Hear
  <2> QED  BY <2>1, <2>2, <2>3, <2>4, <2>5, <2>6, <2>7, <2>8, <2>9 DEF SessionInv
<1>17. ASSUME NEW t \in Logins, Validate(t) PROVE SessionInv'
  <2>1. SessionTypeOK'
    <3>1. boxes' \in Seq(Logins)
      <4>1. boxes' = boxes \/ boxes' = Append(boxes, t)
        BY <1>17 DEF Validate
      <4>2. boxes \in Seq(Logins)
        OBVIOUS
      <4>3. Append(boxes, t) \in Seq(Logins)
        BY <4>2, AppendProperties
      <4> QED  BY <4>1, <4>2, <4>3
    <3>2. shake' \in [Logins -> {"none", "sleep", "asked", "told", "box", "done"}]
      BY <1>17 DEF Validate
    <3> QED  BY <1>17, <3>1, <3>2 DEF Validate
  <2>2. TokenOfSession'  BY <1>17 DEF Validate
  <2>3. CurrentAsked'  BY <1>17 DEF Validate
  <2>4. CurrentFields'  BY <1>17 DEF Validate
  <2>5. OnlyEndedSessionsLeave'  BY <1>17 DEF Validate
  <2>6. SessionWatched'  BY <1>17 DEF Validate
  <2>7. NotYet'
    <3>1. t \in 1 .. logins
      BY <1>17 DEF Validate
    <3>2. boxes' \in Seq(1 .. logins)
      <4>1. boxes' = boxes \/ boxes' = Append(boxes, t)
        BY <1>17 DEF Validate
      <4>2. boxes \in Seq(1 .. logins)
        OBVIOUS
      <4>3. Append(boxes, t) \in Seq(1 .. logins)
        BY <3>1, <4>2, AppendProperties
      <4>4. logins' = logins
        BY <1>17 DEF Validate
      <4> QED  BY <4>1, <4>2, <4>3, <4>4
    <3> QED  BY <1>17, <3>2 DEF Validate
  <2>8. Alone'  BY <1>17 DEF Validate
  <2>9. Counted'  BY <1>17 DEF Validate
  <2> QED  BY <2>1, <2>2, <2>3, <2>4, <2>5, <2>6, <2>7, <2>8, <2>9 DEF SessionInv
<1>18. ASSUME NEW t \in Logins, \E f \in Faults \cap {"lost", "garbled"} : Unanswered(t, f)
       PROVE SessionInv'
  BY <1>18 DEF Unanswered
<1>19. ASSUME NEW s \in live, SessionEnds(s) PROVE SessionInv'  BY <1>19 DEF SessionEnds
<1>20. CASE UNCHANGED vars  BY <1>20 DEF vars
<1> QED
  BY <1>1, <1>2, <1>3, <1>4, <1>5, <1>6, <1>7, <1>8, <1>9, <1>10, <1>11, <1>12, <1>13, <1>14,
     <1>15, <1>16, <1>17, <1>18, <1>19, <1>20 DEF Next, Window, Shake

THEOREM SessionInductive == Spec => []SessionInv
<1> QED  BY InitHolds, StepHolds, PTL DEF Spec

\* SessionTypeOK of the model's variables (the state kept by KenanConn.cpp and the pages).
THEOREM SessionTypeCorrect == Spec => []SessionTypeOK
<1>1. SessionInv => SessionTypeOK  BY DEF SessionInv
<1> QED  BY <1>1, SessionInductive, PTL

\* lv_szJWT is the token of lv_szSession, or empty, unless a check was under way at the login.
THEOREM TokenIsOfSession == Spec => []TokenOfSession
<1>1. SessionInv => TokenOfSession  BY DEF SessionInv
<1> QED  BY <1>1, SessionInductive, PTL

\* WindowProc sends nobody back to the login page whose session is live, with the same
\* exception.
THEOREM LiveSessionsStay == Spec => []OnlyEndedSessionsLeave
<1>1. SessionInv => OnlyEndedSessionsLeave  BY DEF SessionInv
<1> QED  BY <1>1, SessionInductive, PTL

\* The main page is never shown without the shake thread of its session.
THEOREM AlwaysWatched == Spec => []SessionWatched
<1>1. SessionInv => SessionWatched  BY DEF SessionInv
<1> QED  BY <1>1, SessionInductive, PTL

\* lv_nCountOtp bounds the wrong passwords over all logins, unless a refusal was let off.
THEOREM GuessesAreBounded == Spec => []GuessesBounded
<1>1. SessionInv => GuessesBounded  BY DEF SessionInv, Counted, GuessesBounded
<1> QED  BY <1>1, SessionInductive, PTL
=============================================================================
