---------------------------- MODULE VmxKey_proofs ----------------------------
(***************************************************************************)
(* The password of a .vmx file, for every set of GUIDs, whatever may go    *)
(* wrong.  Each property says itself which mishaps it does not withstand,  *)
(* and that Start and the download met at the file.                        *)
(***************************************************************************)
EXTENDS VmxKey, TLAPS

-----------------------------------------------------------------------------
(* The inductive invariants.                                               *)

\* The virtual machine is off and no vmplayer is there while Start is at work; one that met
\* no download has the file to itself, and so has a download that no Start has met.  Needs
\* no vmplayer left from before.
Exclusive ==
    /\ spc # "none" => vm = "off" /\ player = Gone
    /\ spc \in {"encrypt", "create", "replace", "write"} => ~rewritten
    /\ overlap # "last" =>
         /\ dpc # "none" => spc = "none" /\ vm = "off" /\ player = Gone
         /\ spc # "none" \/ vm # "off" \/ player # Gone => vmx # Gone
         /\ spc # "none" /\ rewritten => vmx = szNew

\* After a Start that met no download the five places agree from the moment it has told the
\* server until the vmplayer has ended.  Needs a launcher that is not killed and a virtual
\* machine that is released before it is started again.
Agreement ==
    /\ spc # "none" => ~policy /\ ~vml
    /\ vml => player # Gone \/ vm = "launching"
    /\ vm = "launching" => ~policy /\ player = Gone
    /\ spc = "launch" => registry = szNew
    /\ overlap # "last" =>
         /\ player # Gone => player = server /\ lv_strEncPwd = server
         /\ vm # "off" => lv_strEncPwd = server
         /\ vm = "launching" => registry = server
         /\ spc \in {"config", "launch"} => server = szNew

\* As long as no Start has met a download, the server's password opens the file except on
\* the way from the file to the server.  Needs a world without mishaps.
Opened ==
    overlap = "never" =>
        /\ spc \notin {"write", "setPassword"} /\ dpc = "none" => vmx = Gone \/ Opens(server)
        /\ spc = "encrypt" => szPwd = server
        /\ spc = "setPassword" => vmx = szNew
        /\ dpc \in {"setPassword", "encrypt", "create", "replace"} => vmx \in {Plain, Shipped}
        /\ dpc \notin {"none", "setPassword"} => server = szDown /\ szDown \in Keys
        /\ spc # "none" => szNew \in Keys
        /\ player # Gone \/ vm # "off" => server \in Keys
        /\ vmx = Torn => spc = "write" \/ dpc = "write"

-----------------------------------------------------------------------------
\* Every step keeps the variables in their types.
LEMMA KeyTypeStep ==
    ASSUME KeyTypeOK, [Next]_vars
    PROVE  KeyTypeOK'
<1> USE DEF KeyTypeOK, StartSteps, WriteSteps,
           fileVars, placeVars, vmVars, startVars, downVars, history
<1>1. CASE DownloadUnzip
  BY <1>1 DEF DownloadUnzip
<1>2. CASE DownloadSetPassword
  BY <1>2 DEF DownloadSetPassword, Fresh, Passwords
<1>3. CASE DownloadEncrypt
  BY <1>3 DEF DownloadEncrypt, DownloadTo, Read, ReadRefused, Passwords
<1>4. CASE DownloadOpen
  BY <1>4 DEF DownloadOpen, DownloadTo, Openings, Passwords
<1>5. CASE DownloadWrite
  BY <1>5 DEF DownloadWrite, DownloadTo, Written, Passwords
<1>6. CASE StartGetPassword
  <2>1. szNew' \in Passwords
    BY <1>6 DEF StartGetPassword, Passwords
  <2>2. overlap' \in {"never", "earlier", "last"}
    BY <1>6 DEF StartGetPassword
  <2> QED
    BY <1>6, <2>1, <2>2 DEF StartGetPassword
<1>7. CASE StartEncrypt
  <2>1. PICK r \in Read(szPwd) \cup ReadRefused(szPwd) :
             IF r = "dies" THEN Restarted
             ELSE StartTo(r) /\ UNCHANGED <<vml, placeVars, vmVars, downVars>>
    BY <1>7 DEF StartEncrypt
  <2>2. r \in {"create", "done", "dies", "replace", "failed"}
    BY DEF Read, ReadRefused
  <2>3. UNCHANGED <<vmx, history>>
    BY <1>7 DEF StartEncrypt
  <2>4. CASE r = "dies"
    BY <2>1, <2>3, <2>4 DEF Restarted, Passwords
  <2>5. CASE r # "dies"
    <3>1. StartTo(r) /\ UNCHANGED <<vml, placeVars, vmVars, downVars>>
      BY <2>1, <2>5
    <3>2. spc' \in StartSteps /\ szPwd' \in Passwords /\ szNew' \in Passwords
      BY <3>1, <2>2, <2>5 DEF StartTo, StartOver, Passwords
    <3> QED
      BY <2>3, <3>1, <3>2
  <2> QED
    BY <2>4, <2>5
<1>8. CASE StartOpen
  BY <1>8 DEF StartOpen, StartTo, StartOver, Openings, Passwords
<1>9. CASE StartWrite
  BY <1>9 DEF StartWrite, StartTo, Written
<1>10. CASE StartSetPassword
  BY <1>10 DEF StartSetPassword, StartOver, Passwords
<1>11. CASE StartConfig
  BY <1>11 DEF StartConfig
<1>12. CASE StartLaunch
  <2>1. CASE Restarted
    BY <1>12, <2>1 DEF StartLaunch, Restarted, Passwords
  <2>2. CASE ~Restarted
    <3>1. UNCHANGED <<vmx, history>> /\ StartOver /\ UNCHANGED <<server, registry, player, policy, downVars>>
      BY <1>12, <2>2 DEF StartLaunch
    <3>2. vml' \in BOOLEAN /\ lv_strEncPwd' \in Passwords /\ vm' \in {"off", "launching", "on"}
      BY <1>12, <2>2 DEF StartLaunch
    <3> QED
      BY <3>1, <3>2 DEF StartOver, Passwords
  <2> QED
    BY <2>1, <2>2
<1>13. CASE WorkerLaunch
  <2>1. UNCHANGED <<vmx, server, registry, lv_strEncPwd, startVars, downVars, history>>
    BY <1>13 DEF WorkerLaunch
  <2>2. vml' \in BOOLEAN /\ vm' \in {"off", "launching", "on"}
    BY <1>13 DEF WorkerLaunch
  <2>3. policy' \in BOOLEAN
    BY <1>13 DEF WorkerLaunch
  <2>4. player' \in Passwords \cup {Gone}
    BY <1>13 DEF WorkerLaunch
  <2> QED
    BY <2>1, <2>2, <2>3, <2>4
<1>14. CASE WorkerHalt
  <2>1. vmx' \in Passwords \cup {Shipped, Plain, Torn, Gone}
    BY <1>14 DEF WorkerHalt, WrittenBack, Written
  <2>2. szDown' \in Passwords
    BY <1>14 DEF WorkerHalt, Passwords
  <2>3. vml' \in BOOLEAN
    BY <1>14 DEF WorkerHalt
  <2>4. vm' = "off" /\ policy' = FALSE /\ dpc' = "none"
        /\ UNCHANGED <<placeVars, startVars, history>>
    BY <1>14 DEF WorkerHalt
  <2> QED
    BY <2>1, <2>2, <2>3, <2>4
<1>15. CASE PolicyUpdate
  BY <1>15 DEF PolicyUpdate, Passwords
<1>16. CASE GuestOff
  BY <1>16 DEF GuestOff
<1>17. CASE PlayerWrites
  BY <1>17 DEF PlayerWrites
<1>18. CASE PlayerEnds
  <2>1. vmx' \in Passwords \cup {Shipped, Plain, Torn, Gone}
    BY <1>18 DEF PlayerEnds, WrittenBack, Written
  <2> QED
    BY <1>18, <2>1 DEF PlayerEnds
<1>19. CASE Crash
  BY <1>19 DEF Crash, Restarted, Passwords
<1>20. CASE UNCHANGED vars
  BY <1>20 DEF vars
<1> QED
  BY <1>1, <1>2, <1>3, <1>4, <1>5, <1>6, <1>7, <1>8, <1>9, <1>10, <1>11, <1>12, <1>13, <1>14, <1>15, <1>16, <1>17, <1>18, <1>19, <1>20
     DEF Next, Download, Start

\* Nobody touches the file between its writing and its decryption.
LEMMA ExclusiveStep ==
    ASSUME KeyTypeOK, Exclusive, "oldPlayer" \notin mishaps, [Next]_vars
    PROVE  Exclusive'
<1> USE KeysAssumption DEF KeyTypeOK, Passwords, StartSteps, WriteSteps, Special,
           fileVars, placeVars, vmVars, startVars, downVars, history, Exclusive, Opens
<1>1. CASE DownloadUnzip
  BY <1>1 DEF DownloadUnzip
<1>2. CASE DownloadSetPassword
  BY <1>2 DEF DownloadSetPassword, Fresh
<1>3. CASE DownloadEncrypt
  BY <1>3 DEF DownloadEncrypt, DownloadTo, Read, ReadRefused
<1>4. CASE DownloadOpen
  BY <1>4 DEF DownloadOpen, DownloadTo, Openings
<1>5. CASE DownloadWrite
  BY <1>5 DEF DownloadWrite, DownloadTo, Written
<1>6. CASE StartGetPassword
  BY <1>6 DEF StartGetPassword, Fresh
<1>7. CASE StartEncrypt
  BY <1>7 DEF StartEncrypt, StartTo, StartOver, Restarted, Read, ReadRefused
<1>8. CASE StartOpen
  BY <1>8 DEF StartOpen, StartTo, StartOver, Openings
<1>9. CASE StartWrite
  BY <1>9 DEF StartWrite, StartTo, Written
<1>10. CASE StartSetPassword
  BY <1>10 DEF StartSetPassword, StartOver
<1>11. CASE StartConfig
  BY <1>11 DEF StartConfig
<1>12. CASE StartLaunch
  BY <1>12 DEF StartLaunch, StartOver, Restarted
<1>13. CASE WorkerLaunch
  BY <1>13 DEF WorkerLaunch
<1>14. CASE WorkerHalt
  BY <1>14 DEF WorkerHalt, WrittenBack, Written
<1>15. CASE PolicyUpdate
  BY <1>15 DEF PolicyUpdate
<1>16. CASE GuestOff
  BY <1>16 DEF GuestOff
<1>17. CASE PlayerWrites
  BY <1>17 DEF PlayerWrites
<1>18. CASE PlayerEnds
  BY <1>18 DEF PlayerEnds, WrittenBack, Written
<1>19. CASE Crash
  BY <1>19 DEF Crash, Restarted
<1>20. CASE UNCHANGED vars
  BY <1>20 DEF vars
<1> QED
  BY <1>1, <1>2, <1>3, <1>4, <1>5, <1>6, <1>7, <1>8, <1>9, <1>10, <1>11, <1>12, <1>13, <1>14, <1>15, <1>16, <1>17, <1>18, <1>19, <1>20
     DEF Next, Download, Start

\* The server's password reaches registry, worker and vmplayer before anybody changes it.
LEMMA AgreementStep ==
    ASSUME KeyTypeOK, Exclusive, Agreement, [Next]_vars,
           "oldPlayer" \notin mishaps, "crash" \notin mishaps, "restart" \notin mishaps
    PROVE  Agreement'
<1> USE KeysAssumption DEF KeyTypeOK, Passwords, StartSteps, WriteSteps, Special,
           fileVars, placeVars, vmVars, startVars, downVars, history, Exclusive, Agreement, Opens
<1>1. CASE DownloadUnzip
  BY <1>1 DEF DownloadUnzip
<1>2. CASE DownloadSetPassword
  BY <1>2 DEF DownloadSetPassword, Fresh
<1>3. CASE DownloadEncrypt
  BY <1>3 DEF DownloadEncrypt, DownloadTo, Read, ReadRefused
<1>4. CASE DownloadOpen
  BY <1>4 DEF DownloadOpen, DownloadTo, Openings
<1>5. CASE DownloadWrite
  BY <1>5 DEF DownloadWrite, DownloadTo, Written
<1>6. CASE StartGetPassword
  BY <1>6 DEF StartGetPassword, Fresh
<1>7. CASE StartEncrypt
  BY <1>7 DEF StartEncrypt, StartTo, StartOver, Restarted, Read, ReadRefused
<1>8. CASE StartOpen
  BY <1>8 DEF StartOpen, StartTo, StartOver, Openings
<1>9. CASE StartWrite
  BY <1>9 DEF StartWrite, StartTo, Written
<1>10. CASE StartSetPassword
  BY <1>10 DEF StartSetPassword, StartOver
<1>11. CASE StartConfig
  BY <1>11 DEF StartConfig
<1>12. CASE StartLaunch
  BY <1>12 DEF StartLaunch, StartOver, Restarted
<1>13. CASE WorkerLaunch
  BY <1>13 DEF WorkerLaunch
<1>14. CASE WorkerHalt
  BY <1>14 DEF WorkerHalt, WrittenBack, Written
<1>15. CASE PolicyUpdate
  BY <1>15 DEF PolicyUpdate
<1>16. CASE GuestOff
  BY <1>16 DEF GuestOff
<1>17. CASE PlayerWrites
  BY <1>17 DEF PlayerWrites
<1>18. CASE PlayerEnds
  BY <1>18 DEF PlayerEnds, WrittenBack, Written
<1>19. CASE Crash
  BY <1>19 DEF Crash, Restarted
<1>20. CASE UNCHANGED vars
  BY <1>20 DEF vars
<1> QED
  BY <1>1, <1>2, <1>3, <1>4, <1>5, <1>6, <1>7, <1>8, <1>9, <1>10, <1>11, <1>12, <1>13, <1>14, <1>15, <1>16, <1>17, <1>18, <1>19, <1>20
     DEF Next, Download, Start

\* Whoever writes the file writes it with the password the server has or is told next.
LEMMA OpenedStep ==
    ASSUME KeyTypeOK, Exclusive, Agreement, Opened, mishaps = {}, [Next]_vars
    PROVE  Opened'
<1> USE KeysAssumption DEF KeyTypeOK, Passwords, StartSteps, WriteSteps, Special,
           fileVars, placeVars, vmVars, startVars, downVars, history, Exclusive, Agreement, Opened, Opens
<1>1. CASE DownloadUnzip
  BY <1>1 DEF DownloadUnzip
<1>2. CASE DownloadSetPassword
  BY <1>2 DEF DownloadSetPassword, Fresh
<1>3. CASE DownloadEncrypt
  BY <1>3 DEF DownloadEncrypt, DownloadTo, Read, ReadRefused
<1>4. CASE DownloadOpen
  BY <1>4 DEF DownloadOpen, DownloadTo, Openings
<1>5. CASE DownloadWrite
  BY <1>5 DEF DownloadWrite, DownloadTo, Written
<1>6. CASE StartGetPassword
  BY <1>6 DEF StartGetPassword, Fresh
<1>7. CASE StartEncrypt
  BY <1>7 DEF StartEncrypt, StartTo, StartOver, Restarted, Read, ReadRefused
<1>8. CASE StartOpen
  BY <1>8 DEF StartOpen, StartTo, StartOver, Openings
<1>9. CASE StartWrite
  BY <1>9 DEF StartWrite, StartTo, Written
<1>10. CASE StartSetPassword
  BY <1>10 DEF StartSetPassword, StartOver
<1>11. CASE StartConfig
  BY <1>11 DEF StartConfig
<1>12. CASE StartLaunch
  BY <1>12 DEF StartLaunch, StartOver, Restarted
<1>13. CASE WorkerLaunch
  BY <1>13 DEF WorkerLaunch
<1>14. CASE WorkerHalt
  BY <1>14 DEF WorkerHalt, WrittenBack, Written
<1>15. CASE PolicyUpdate
  BY <1>15 DEF PolicyUpdate
<1>16. CASE GuestOff
  BY <1>16 DEF GuestOff
<1>17. CASE PlayerWrites
  BY <1>17 DEF PlayerWrites
<1>18. CASE PlayerEnds
  BY <1>18 DEF PlayerEnds, WrittenBack, Written
<1>19. CASE Crash
  BY <1>19 DEF Crash, Restarted
<1>20. CASE UNCHANGED vars
  BY <1>20 DEF vars
<1> QED
  BY <1>1, <1>2, <1>3, <1>4, <1>5, <1>6, <1>7, <1>8, <1>9, <1>10, <1>11, <1>12, <1>13, <1>14, <1>15, <1>16, <1>17, <1>18, <1>19, <1>20
     DEF Next, Download, Start

\* What may go wrong in a behaviour is settled at its beginning.
LEMMA MishapsSettled ==
    ASSUME [Next]_vars
    PROVE  mishaps' = mishaps
BY DEF Next, vars, history, Download, Start,
       DownloadUnzip, DownloadSetPassword, DownloadEncrypt, DownloadOpen, DownloadWrite,
       StartGetPassword, StartEncrypt, StartOpen, StartWrite, StartSetPassword, StartConfig,
       StartLaunch, WorkerLaunch, WorkerHalt, PolicyUpdate, GuestOff, PlayerWrites, PlayerEnds,
       Crash, Restarted

-----------------------------------------------------------------------------
(* The theorems.                                                           *)

\* Every variable keeps its type, whatever goes wrong.
THEOREM KeyTypeCorrect == Spec => []KeyTypeOK
<1>1. Init => KeyTypeOK
  BY MishapsAssumption DEF Init, KeyTypeOK, Passwords, StartSteps, WriteSteps
<1>2. KeyTypeOK /\ [Next]_vars => KeyTypeOK'
  BY KeyTypeStep
<1> QED
  BY <1>1, <1>2, PTL DEF Spec

\* Unless a vmplayer outlives its virtual machine, a Start that met no download has the
\* file to itself, whatever else goes wrong.
THEOREM FileExclusive == Spec => []("oldPlayer" \notin mishaps => Exclusive)
<1>1. Init => Exclusive
  BY DEF Init, Exclusive
<1>2. KeyTypeOK /\ ("oldPlayer" \notin mishaps => Exclusive) /\ [Next]_vars
        => ("oldPlayer" \notin mishaps => Exclusive)'
  BY ExclusiveStep, MishapsSettled
<1> QED
  BY KeyTypeCorrect, <1>1, <1>2, PTL DEF Spec

\* Under every other mishap launchVM finds the file as such a Start has written it, if it
\* has written it.
THEOREM LaunchNeverRefused == Spec => []LaunchOpens
<1>1. ("oldPlayer" \notin mishaps => Exclusive) => LaunchOpens
  BY DEF Exclusive, LaunchOpens
<1> QED
  BY FileExclusive, <1>1, PTL

\* The mishaps that make those who write the file back disagree with the server.
Disagreeing == {"oldPlayer", "crash", "restart"}

\* The strengthening of WritersAgree.
LEMMA AgreementKept == Spec => [](mishaps \cap Disagreeing = {} => Exclusive /\ Agreement)
<1> DEFINE Calm == mishaps \cap Disagreeing = {}
<1>1. Init => Agreement
  BY DEF Init, Agreement
<1>2. Calm => "oldPlayer" \notin mishaps /\ "crash" \notin mishaps /\ "restart" \notin mishaps
  BY DEF Disagreeing
<1>3. KeyTypeOK /\ ("oldPlayer" \notin mishaps => Exclusive) /\ (Calm => Agreement) /\ [Next]_vars
        => (Calm => Agreement)'
  <2> SUFFICES ASSUME KeyTypeOK, "oldPlayer" \notin mishaps => Exclusive, Calm => Agreement,
                      [Next]_vars, Calm'
               PROVE  Agreement'
    OBVIOUS
  <2>1. Calm
    BY MishapsSettled
  <2> QED
    BY <2>1, <1>2, AgreementStep
<1> HIDE DEF Calm
<1>4. Spec => [](Calm => Agreement)
  BY KeyTypeCorrect, FileExclusive, <1>1, <1>3, PTL DEF Spec
<1>5. Spec => [](Calm => Exclusive /\ Agreement)
  BY <1>2, <1>4, FileExclusive, PTL
<1> QED
  BY <1>5 DEF Calm

\* Even if the server is not reached, the file not written or a download killed, whoever
\* writes a .vmx back after a Start that met no download does it with the password the
\* server has.
THEOREM PlacesAgree == Spec => []WritersAgree
<1>1. (mishaps \cap Disagreeing = {} => Exclusive /\ Agreement) => WritersAgree
  BY DEF Agreement, WritersAgree, Disagreeing
<1> QED
  BY AgreementKept, <1>1, PTL

\* Without mishaps, and until a Start meets a download, the image can always be opened with
\* the password the server has.
THEOREM NeverLockedOut == Spec => []NotLockedOut
<1> DEFINE Guarded == mishaps = {} => Opened
           Agreed  == mishaps \cap Disagreeing = {} => Exclusive /\ Agreement
<1>1. Init => Guarded
  BY KeysAssumption DEF Init, Opened
<1>2. KeyTypeOK /\ Agreed /\ Guarded /\ [Next]_vars => Guarded'
  <2> SUFFICES ASSUME KeyTypeOK, Agreed, Guarded, [Next]_vars, (mishaps = {})'
               PROVE  Opened'
    OBVIOUS
  <2>1. mishaps = {}
    BY MishapsSettled
  <2>2. Exclusive /\ Agreement
    BY <2>1
  <2> QED
    BY <2>1, <2>2, OpenedStep
<1>3. Guarded => NotLockedOut
  BY DEF Opened, NotLockedOut
<1> HIDE DEF Guarded
<1> QED
  BY KeyTypeCorrect, AgreementKept, <1>1, <1>2, <1>3, PTL DEF Spec
=============================================================================
