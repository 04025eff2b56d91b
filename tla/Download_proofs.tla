-------------------------- MODULE Download_proofs ---------------------------
(***************************************************************************)
(* Proofs for Download.tla: its invariants hold for every number of        *)
(* threads and images, every size and every set of faults.                 *)
(***************************************************************************)
EXTENDS Download, TLAPS

\* Only a thread that is receiving, or was terminated while it did, has an archive open.
Held ==
    \A i \in Images : holder[i] # None =>
        image[holder[i]] = i /\ at[holder[i]] \in {"transfer", "killed"}

\* While the holder receives, what is there and what is to come make up the archive.
Filling ==
    \A t \in Threads :
        at[t] = "transfer" /\ holder[image[t]] = t
            => archive[image[t]].junk \/ archive[image[t]].chunks + left[t] = Size

\* Unless a download was started beside another, there is one thread, ...
Alone == crowded \/ \A t, u \in Active : t = u

\* ... nobody else has its archive open, ...
Opened ==
    crowded \/ \A t \in Active : holder[image[t]] = IF at[t] = "transfer" THEN t ELSE None

\* ... and the page holds its handle until it is cancelled or has had its last word.
Owned ==
    crowded \/ \A t \in Active :
        t \in cancelled \/ at[t] \in {"canceled", "end"} \/ lv_thdDownload = t

\* What is about to be unpacked has all come.
Unpacked ==
    crowded \/ \A t \in Threads :
        at[t] = "unzip" => archive[image[t]].junk \/ archive[image[t]].chunks = Size

DownloadInv ==
    /\ DownloadTypeOK
    /\ Held /\ Filling
    /\ Alone /\ Opened /\ Owned /\ Unpacked
    /\ CompleteIsWhole /\ CanceledByUser

LEMMA InitHolds == Init => DownloadInv
<1> SUFFICES ASSUME Init PROVE DownloadInv
  OBVIOUS
<1>1. (CHOOSE i \in Images : TRUE) \in Images
  BY SetsAssumption
<1>2. DownloadTypeOK
  <2>1. archive \in [Images -> Archives] /\ handed \in [Threads -> Archives]
    <3>1. Absent \in Archives
      BY SizesAssumption DEF Absent, Archives
    <3> QED  BY <3>1 DEF Init
  <2>2. /\ at \in [Threads -> Places] /\ attempt \in [Threads -> 0 .. Retries]
        /\ left \in [Threads -> 0 .. Size] /\ holder \in [Images -> Threads \cup {None}]
    BY SizesAssumption DEF Init, Places
  <2>3. image \in [Threads -> Images]
    BY <1>1 DEF Init
  <2>4. _bPausedDownload \in BOOLEAN /\ m_bDownloadContinue \in BOOLEAN /\ crowded \in BOOLEAN
    BY DEF Init
  <2>5. /\ lv_thdDownload \in Active \cup {None}
        /\ suspended \subseteq Threads /\ cancelled \subseteq Threads
    BY DEF Init
  <2> QED  BY <2>1, <2>2, <2>3, <2>4, <2>5 DEF DownloadTypeOK
<1>3. /\ Held /\ Filling /\ Alone /\ Opened /\ Owned /\ Unpacked
      /\ CompleteIsWhole /\ CanceledByUser
  BY DEF Init, Held, Filling, Alone, Opened, Owned, Unpacked, CompleteIsWhole, CanceledByUser, Active
<1> QED  BY <1>2, <1>3 DEF DownloadInv

LEMMA StepHolds == DownloadInv /\ [Next]_vars => DownloadInv'
<1> SUFFICES ASSUME DownloadInv, [Next]_vars PROVE DownloadInv'
  OBVIOUS
<1> USE SetsAssumption, SizesAssumption
    DEF DownloadInv, DownloadTypeOK, Active, Places, Runs, To, page, files, thread, past
<1>1. CASE \E t \in Threads, i \in Images : Start(t, i)
  <2> PICK t \in Threads, i \in Images : Start(t, i)
    BY <1>1
  <2>1. DownloadTypeOK'  BY DEF Start, Archives, Absent
  <2>2. Held'  BY DEF Start, Held
  <2>3. Filling'
    <3> SUFFICES ASSUME NEW u \in Threads, at'[u] = "transfer", holder'[image'[u]] = u
                 PROVE  archive'[image'[u]].junk \/ archive'[image'[u]].chunks + left'[u] = Size
      BY DEF Filling
    <3>1. u # t /\ at[u] = "transfer" /\ image'[u] = image[u]
      BY DEF Start
    <3>2. UNCHANGED <<archive, holder, left>>
      BY DEF Start
    <3> QED  BY <3>1, <3>2 DEF Filling
  <2>4. Alone'  BY DEF Start, Alone
  <2>5. Opened'
    <3>1. CASE Active # {} \/ holder[i] # None
      BY <3>1 DEF Start, Opened
    <3>2. CASE Active = {} /\ holder[i] = None
      <4>1. Active' = {t} /\ image'[t] = i /\ at'[t] = "report" /\ holder' = holder
        BY <3>2 DEF Start
      <4> QED  BY <3>2, <4>1 DEF Opened
    <3> QED  BY <3>1, <3>2
  <2>6. Owned'  BY DEF Start, Alone, Owned
  <2>7. Unpacked'  BY DEF Start, Alone, Opened, Filling, Unpacked, Archives
  <2>8. CompleteIsWhole'  BY DEF Start, Alone, Opened, Unpacked, CompleteIsWhole
  <2>9. CanceledByUser'  BY DEF Start, Owned, CanceledByUser
  <2> QED  BY <2>1, <2>2, <2>3, <2>4, <2>5, <2>6, <2>7, <2>8, <2>9
<1>2. CASE Cancel
  <2>1. DownloadTypeOK'  BY <1>2 DEF Cancel, Archives, Absent
  <2>2. Held'  BY <1>2 DEF Cancel, Held
  <2>3. Filling'  BY <1>2 DEF Cancel, Held, Filling, Archives
  <2>4. Alone'  BY <1>2 DEF Cancel, Alone
  <2>5. Opened'  BY <1>2 DEF Cancel, Alone, Opened, Held
  <2>6. Owned'  BY <1>2 DEF Cancel, Alone, Owned
  <2>7. Unpacked'  BY <1>2 DEF Cancel, Alone, Opened, Filling, Unpacked, Archives
  <2>8. CompleteIsWhole'  BY <1>2 DEF Cancel, Alone, Opened, Unpacked, CompleteIsWhole
  <2>9. CanceledByUser'  BY <1>2 DEF Cancel, Owned, CanceledByUser
  <2> QED  BY <2>1, <2>2, <2>3, <2>4, <2>5, <2>6, <2>7, <2>8, <2>9
<1>3. CASE OnBnClickedBtnPause
  <2>1. DownloadTypeOK'  BY <1>3 DEF OnBnClickedBtnPause, Archives, Absent
  <2>2. Held'  BY <1>3 DEF OnBnClickedBtnPause, Held
  <2>3. Filling'  BY <1>3 DEF OnBnClickedBtnPause, Held, Filling, Archives
  <2>4. Alone'  BY <1>3 DEF OnBnClickedBtnPause, Alone
  <2>5. Opened'  BY <1>3 DEF OnBnClickedBtnPause, Alone, Opened, Held
  <2>6. Owned'  BY <1>3 DEF OnBnClickedBtnPause, Alone, Owned
  <2>7. Unpacked'  BY <1>3 DEF OnBnClickedBtnPause, Alone, Opened, Filling, Unpacked, Archives
  <2>8. CompleteIsWhole'  BY <1>3 DEF OnBnClickedBtnPause, Alone, Opened, Unpacked, CompleteIsWhole
  <2>9. CanceledByUser'  BY <1>3 DEF OnBnClickedBtnPause, Owned, CanceledByUser
  <2> QED  BY <2>1, <2>2, <2>3, <2>4, <2>5, <2>6, <2>7, <2>8, <2>9
<1>4. CASE onAfterVMStoped
  <2>1. DownloadTypeOK'  BY <1>4 DEF onAfterVMStoped, Archives, Absent
  <2>2. Held'  BY <1>4 DEF onAfterVMStoped, Held
  <2>3. Filling'  BY <1>4 DEF onAfterVMStoped, Held, Filling, Archives
  <2>4. Alone'  BY <1>4 DEF onAfterVMStoped, Alone
  <2>5. Opened'  BY <1>4 DEF onAfterVMStoped, Alone, Opened, Held
  <2>6. Owned'  BY <1>4 DEF onAfterVMStoped, Alone, Owned
  <2>7. Unpacked'  BY <1>4 DEF onAfterVMStoped, Alone, Opened, Filling, Unpacked, Archives
  <2>8. CompleteIsWhole'  BY <1>4 DEF onAfterVMStoped, Alone, Opened, Unpacked, CompleteIsWhole
  <2>9. CanceledByUser'  BY <1>4 DEF onAfterVMStoped, Owned, CanceledByUser
  <2> QED  BY <2>1, <2>2, <2>3, <2>4, <2>5, <2>6, <2>7, <2>8, <2>9
<1>5. ASSUME NEW t \in Threads, Report(t) PROVE DownloadInv'
  <2>1. DownloadTypeOK'  BY <1>5 DEF Report, Archives, Absent
  <2>2. Held'  BY <1>5 DEF Report, Held
  <2>3. Filling'  BY <1>5 DEF Report, Held, Filling, Archives
  <2>4. Alone'  BY <1>5 DEF Report, Alone
  <2>5. Opened'  BY <1>5 DEF Report, Alone, Opened, Held
  <2>6. Owned'  BY <1>5 DEF Report, Alone, Owned
  <2>7. Unpacked'  BY <1>5 DEF Report, Alone, Opened, Filling, Unpacked, Archives
  <2>8. CompleteIsWhole'  BY <1>5 DEF Report, Alone, Opened, Unpacked, CompleteIsWhole
  <2>9. CanceledByUser'  BY <1>5 DEF Report, Owned, CanceledByUser
  <2> QED  BY <2>1, <2>2, <2>3, <2>4, <2>5, <2>6, <2>7, <2>8, <2>9
<1>6. ASSUME NEW t \in Threads, NoBearer(t) PROVE DownloadInv'
  <2>1. DownloadTypeOK'  BY <1>6 DEF NoBearer, Archives, Absent
  <2>2. Held'  BY <1>6 DEF NoBearer, Held
  <2>3. Filling'  BY <1>6 DEF NoBearer, Held, Filling, Archives
  <2>4. Alone'  BY <1>6 DEF NoBearer, Alone
  <2>5. Opened'  BY <1>6 DEF NoBearer, Alone, Opened, Held
  <2>6. Owned'  BY <1>6 DEF NoBearer, Alone, Owned
  <2>7. Unpacked'  BY <1>6 DEF NoBearer, Alone, Opened, Filling, Unpacked, Archives
  <2>8. CompleteIsWhole'  BY <1>6 DEF NoBearer, Alone, Opened, Unpacked, CompleteIsWhole
  <2>9. CanceledByUser'  BY <1>6 DEF NoBearer, Owned, CanceledByUser
  <2> QED  BY <2>1, <2>2, <2>3, <2>4, <2>5, <2>6, <2>7, <2>8, <2>9
<1>7. ASSUME NEW t \in Threads, NEW error \in BOOLEAN, Open(t, error) PROVE DownloadInv'
  <2> DEFINE i == image[t]
             o == Offset(t)
             a == IF o = 0 THEN Empty ELSE [archive[i] EXCEPT !.there = TRUE]
             b == [a EXCEPT !.junk = a.junk \/ error \/ (o = None /\ a.chunks > 0)]
  <2>a. i \in Images /\ archive[i] \in Archives /\ Empty \in Archives
    BY DEF Archives, Empty
  <2>b. \/ o = 0
        \/ o = None
        \/ o = archive[i].chunks /\ o \in 0 .. Size
    BY <2>a DEF Offset, Archives
  <2>c. a \in Archives /\ (o = 0 => a.chunks = 0) /\ (o # 0 => a.chunks = archive[i].chunks)
    BY <2>a DEF Archives, Empty
  <2>d. /\ b \in Archives /\ b.chunks = a.chunks
        /\ error \/ (o = None /\ a.chunks > 0) => b.junk
    <3> HIDE DEF a
    <3>1. (a.junk \/ error \/ (o = None /\ a.chunks > 0)) \in BOOLEAN
      OBVIOUS
    <3> QED  BY <2>c, <3>1 DEF Archives
  <2>e. /\ at[t] = "bearer" /\ at' = [at EXCEPT ![t] = "transfer"]
        /\ left' = [left EXCEPT ![t] = IF error THEN 0 ELSE IF o = None THEN Size ELSE Size - o]
        /\ IF holder[i] = None
           THEN /\ holder' = [holder EXCEPT ![i] = t]
                /\ archive' = [archive EXCEPT ![i] = b]
           ELSE archive' = archive /\ holder' = holder
        /\ UNCHANGED <<lv_thdDownload, _bPausedDownload, m_bDownloadContinue, image, attempt, handed,
                       suspended, cancelled, crowded>>
    BY <1>7 DEF Open
  <2>f. left' \in [Threads -> 0 .. Size]
    BY <2>b, <2>e
  <2>g. archive' \in [Images -> Archives]
    <3> HIDE DEF a, b, i
    <3> QED  BY <2>a, <2>d, <2>e
  <2> HIDE DEF a, b, o
  <2>1. DownloadTypeOK'  BY <2>a, <2>e, <2>f, <2>g
  <2>2. Held'  BY <2>a, <2>e DEF Held
  <2>3. Filling'
    <3> SUFFICES ASSUME NEW u \in Threads, at'[u] = "transfer", holder'[image[u]] = u
                 PROVE  archive'[image[u]].junk \/ archive'[image[u]].chunks + left'[u] = Size
      BY <2>e DEF Filling
    <3>1. CASE u = t
      <4>1. holder[i] = None
        BY <2>e, <3>1 DEF Held
      <4>2. archive'[i] = b
        BY <2>a, <2>e, <4>1
      <4>3. left'[t] = IF error THEN 0 ELSE IF o = None THEN Size ELSE Size - o
        BY <2>e
      <4>4. a.chunks \in 0 .. Size
        BY <2>c DEF Archives
      <4>5. CASE error \/ (o = None /\ a.chunks > 0)
        BY <2>d, <3>1, <4>2, <4>5
      <4>6. CASE ~error /\ o = None /\ a.chunks = 0
        BY <2>d, <3>1, <4>2, <4>3, <4>6
      <4>7. CASE ~error /\ o # None
        BY <2>b, <2>c, <2>d, <3>1, <4>2, <4>3, <4>4, <4>7
      <4> QED  BY <4>4, <4>5, <4>6, <4>7
    <3>2. CASE u # t
      <4>1. at[u] = "transfer" /\ holder[image[u]] = u /\ left'[u] = left[u]
        BY <2>a, <2>e, <3>2
      <4>2. archive'[image[u]] = archive[image[u]]
        BY <2>a, <2>e, <3>2, <4>1
      <4> QED  BY <4>1, <4>2 DEF Filling
    <3> QED  BY <3>1, <3>2
  <2>4. Alone'  BY <2>a, <2>e DEF Alone
  <2>5. Opened'  BY <2>a, <2>e DEF Alone, Opened, Held
  <2>6. Owned'  BY <2>a, <2>e DEF Alone, Owned
  <2>7. Unpacked'
    <3>1. CASE crowded
      BY <2>e, <3>1 DEF Unpacked
    <3>2. CASE ~crowded
      <4>1. \A u \in Threads : at'[u] # "unzip"
        BY <2>e, <3>2 DEF Alone
      <4> QED  BY <4>1 DEF Unpacked
    <3> QED  BY <3>1, <3>2
  <2>8. CompleteIsWhole'  BY <2>a, <2>e DEF Alone, Opened, Unpacked, CompleteIsWhole
  <2>9. CanceledByUser'  BY <2>a, <2>e DEF Owned, CanceledByUser
  <2> QED  BY <2>1, <2>2, <2>3, <2>4, <2>5, <2>6, <2>7, <2>8, <2>9
<1>8. ASSUME NEW t \in Threads, Receive(t) PROVE DownloadInv'
  <2>1. DownloadTypeOK'
    <3>1. left' \in [Threads -> 0 .. Size]
      BY <1>8 DEF Receive
    <3>2. archive' \in [Images -> Archives]
      <4>1. CASE holder[image[t]] = t /\ ~archive[image[t]].junk
        <5>1. archive[image[t]].chunks + left[t] = Size
          BY <1>8, <4>1 DEF Receive, Filling
        <5>2. archive[image[t]].chunks + 1 \in 0 .. Size
          BY <1>8, <5>1 DEF Receive, Archives
        <5>3. [archive[image[t]] EXCEPT !.chunks = @ + 1] \in Archives
          BY <5>2 DEF Archives
        <5>4. archive' = [archive EXCEPT ![image[t]] = [archive[image[t]] EXCEPT !.chunks = @ + 1]]
          BY <1>8, <4>1 DEF Receive
        <5> QED  BY <5>3, <5>4
      <4>2. CASE ~(holder[image[t]] = t /\ ~archive[image[t]].junk)
        BY <1>8, <4>2 DEF Receive
      <4> QED  BY <4>1, <4>2
    <3> QED  BY <1>8, <3>1, <3>2 DEF Receive
  <2>2. Held'  BY <1>8 DEF Receive, Held
  <2>3. Filling'  BY <1>8 DEF Receive, Held, Filling, Archives
  <2>4. Alone'  BY <1>8 DEF Receive, Alone
  <2>5. Opened'  BY <1>8 DEF Receive, Alone, Opened, Held
  <2>6. Owned'  BY <1>8 DEF Receive, Alone, Owned
  <2>7. Unpacked'  BY <1>8 DEF Receive, Alone, Opened, Filling, Unpacked, Archives
  <2>8. CompleteIsWhole'  BY <1>8 DEF Receive, Alone, Opened, Unpacked, CompleteIsWhole
  <2>9. CanceledByUser'  BY <1>8 DEF Receive, Owned, CanceledByUser
  <2> QED  BY <2>1, <2>2, <2>3, <2>4, <2>5, <2>6, <2>7, <2>8, <2>9
<1>9. ASSUME NEW t \in Threads, BreakOff(t) PROVE DownloadInv'
  <2>1. DownloadTypeOK'  BY <1>9 DEF BreakOff, Closed, Archives, Absent
  <2>2. Held'  BY <1>9 DEF BreakOff, Closed, Held
  <2>3. Filling'  BY <1>9 DEF BreakOff, Closed, Held, Filling, Archives
  <2>4. Alone'  BY <1>9 DEF BreakOff, Closed, Alone
  <2>5. Opened'  BY <1>9 DEF BreakOff, Closed, Alone, Opened, Held
  <2>6. Owned'  BY <1>9 DEF BreakOff, Closed, Alone, Owned
  <2>7. Unpacked'  BY <1>9 DEF BreakOff, Closed, Alone, Opened, Filling, Unpacked, Archives
  <2>8. CompleteIsWhole'  BY <1>9 DEF BreakOff, Closed, Alone, Opened, Unpacked, CompleteIsWhole
  <2>9. CanceledByUser'  BY <1>9 DEF BreakOff, Closed, Owned, CanceledByUser
  <2> QED  BY <2>1, <2>2, <2>3, <2>4, <2>5, <2>6, <2>7, <2>8, <2>9
<1>10. ASSUME NEW t \in Threads, Received(t) PROVE DownloadInv'
  <2>1. DownloadTypeOK'  BY <1>10 DEF Received, Closed, Archives, Absent
  <2>2. Held'  BY <1>10 DEF Received, Closed, Held
  <2>3. Filling'  BY <1>10 DEF Received, Closed, Held, Filling, Archives
  <2>4. Alone'  BY <1>10 DEF Received, Closed, Alone
  <2>5. Opened'  BY <1>10 DEF Received, Closed, Alone, Opened, Held
  <2>6. Owned'  BY <1>10 DEF Received, Closed, Alone, Owned
  <2>7. Unpacked'
    <3>1. CASE crowded
      BY <1>10, <3>1 DEF Received, Unpacked
    <3>2. CASE ~crowded
      <4>1. holder[image[t]] = t
        BY <1>10, <3>2 DEF Received, Opened
      <4>2. archive[image[t]].junk \/ archive[image[t]].chunks = Size
        BY <1>10, <4>1 DEF Received, Filling, Archives
      <4>3. \A u \in Threads : at'[u] = "unzip" => u = t
        BY <1>10, <3>2 DEF Received, Alone
      <4> QED  BY <1>10, <4>2, <4>3 DEF Received, Unpacked
    <3> QED  BY <3>1, <3>2
  <2>8. CompleteIsWhole'  BY <1>10 DEF Received, Closed, Alone, Opened, Unpacked, CompleteIsWhole
  <2>9. CanceledByUser'  BY <1>10 DEF Received, Closed, Owned, CanceledByUser
  <2> QED  BY <2>1, <2>2, <2>3, <2>4, <2>5, <2>6, <2>7, <2>8, <2>9
<1>11. ASSUME NEW t \in Threads, Back(t) PROVE DownloadInv'
  <2>1. DownloadTypeOK'  BY <1>11 DEF Back, Archives, Absent
  <2>2. Held'  BY <1>11 DEF Back, Held
  <2>3. Filling'  BY <1>11 DEF Back, Held, Filling, Archives
  <2>4. Alone'  BY <1>11 DEF Back, Alone
  <2>5. Opened'  BY <1>11 DEF Back, Alone, Opened, Held
  <2>6. Owned'  BY <1>11 DEF Back, Alone, Owned
  <2>7. Unpacked'  BY <1>11 DEF Back, Alone, Opened, Filling, Unpacked, Archives
  <2>8. CompleteIsWhole'  BY <1>11 DEF Back, Alone, Opened, Unpacked, CompleteIsWhole
  <2>9. CanceledByUser'  BY <1>11 DEF Back, Owned, CanceledByUser
  <2> QED  BY <2>1, <2>2, <2>3, <2>4, <2>5, <2>6, <2>7, <2>8, <2>9
<1>12. ASSUME NEW t \in Threads, Unzip(t) PROVE DownloadInv'
  <2>1. DownloadTypeOK'
    <3>1. Absent \in Archives
      BY DEF Absent, Archives
    <3>2. archive' \in [Images -> Archives] /\ handed' \in [Threads -> Archives]
      BY <1>12, <3>1 DEF Unzip
    <3> QED  BY <1>12, <3>2 DEF Unzip
  <2>2. Held'  BY <1>12 DEF Unzip, Held
  <2>3. Filling'  BY <1>12 DEF Unzip, Held, Filling, Archives
  <2>4. Alone'  BY <1>12 DEF Unzip, Alone
  <2>5. Opened'  BY <1>12 DEF Unzip, Alone, Opened, Held
  <2>6. Owned'  BY <1>12 DEF Unzip, Alone, Owned
  <2>7. Unpacked'  BY <1>12 DEF Unzip, Alone, Opened, Filling, Unpacked, Archives
  <2>8. CompleteIsWhole'  BY <1>12 DEF Unzip, Alone, Opened, Unpacked, CompleteIsWhole
  <2>9. CanceledByUser'  BY <1>12 DEF Unzip, Owned, CanceledByUser
  <2> QED  BY <2>1, <2>2, <2>3, <2>4, <2>5, <2>6, <2>7, <2>8, <2>9
<1>13. ASSUME NEW t \in Threads, Canceled(t) PROVE DownloadInv'
  <2>1. DownloadTypeOK'  BY <1>13 DEF Canceled, Archives, Absent
  <2>2. Held'  BY <1>13 DEF Canceled, Held
  <2>3. Filling'  BY <1>13 DEF Canceled, Held, Filling, Archives
  <2>4. Alone'  BY <1>13 DEF Canceled, Alone
  <2>5. Opened'  BY <1>13 DEF Canceled, Alone, Opened, Held
  <2>6. Owned'  BY <1>13 DEF Canceled, Alone, Owned
  <2>7. Unpacked'  BY <1>13 DEF Canceled, Alone, Opened, Filling, Unpacked, Archives
  <2>8. CompleteIsWhole'  BY <1>13 DEF Canceled, Alone, Opened, Unpacked, CompleteIsWhole
  <2>9. CanceledByUser'  BY <1>13 DEF Canceled, Owned, CanceledByUser
  <2> QED  BY <2>1, <2>2, <2>3, <2>4, <2>5, <2>6, <2>7, <2>8, <2>9
<1>14. ASSUME NEW t \in Threads, End(t) PROVE DownloadInv'
  <2>1. DownloadTypeOK'  BY <1>14 DEF End, Archives, Absent
  <2>2. Held'  BY <1>14 DEF End, Held
  <2>3. Filling'  BY <1>14 DEF End, Held, Filling, Archives
  <2>4. Alone'  BY <1>14 DEF End, Alone
  <2>5. Opened'  BY <1>14 DEF End, Alone, Opened, Held
  <2>6. Owned'  BY <1>14 DEF End, Alone, Owned
  <2>7. Unpacked'  BY <1>14 DEF End, Alone, Opened, Filling, Unpacked, Archives
  <2>8. CompleteIsWhole'  BY <1>14 DEF End, Alone, Opened, Unpacked, CompleteIsWhole
  <2>9. CanceledByUser'  BY <1>14 DEF End, Owned, CanceledByUser
  <2> QED  BY <2>1, <2>2, <2>3, <2>4, <2>5, <2>6, <2>7, <2>8, <2>9
<1>15. ASSUME NEW t \in Threads, Dismiss(t) PROVE DownloadInv'
  <2>1. DownloadTypeOK'  BY <1>15 DEF Dismiss, Archives, Absent
  <2>2. Held'  BY <1>15 DEF Dismiss, Held
  <2>3. Filling'  BY <1>15 DEF Dismiss, Held, Filling, Archives
  <2>4. Alone'  BY <1>15 DEF Dismiss, Alone
  <2>5. Opened'  BY <1>15 DEF Dismiss, Alone, Opened, Held
  <2>6. Owned'  BY <1>15 DEF Dismiss, Alone, Owned
  <2>7. Unpacked'  BY <1>15 DEF Dismiss, Alone, Opened, Filling, Unpacked, Archives
  <2>8. CompleteIsWhole'  BY <1>15 DEF Dismiss, Alone, Opened, Unpacked, CompleteIsWhole
  <2>9. CanceledByUser'  BY <1>15 DEF Dismiss, Owned, CanceledByUser
  <2> QED  BY <2>1, <2>2, <2>3, <2>4, <2>5, <2>6, <2>7, <2>8, <2>9
<1>16. CASE UNCHANGED vars
  BY <1>16 DEF vars, Held, Filling, Alone, Opened, Owned, Unpacked, CompleteIsWhole, CanceledByUser
<1> QED
  BY <1>1, <1>2, <1>3, <1>4, <1>5, <1>6, <1>7, <1>8,
     <1>9, <1>10, <1>11, <1>12, <1>13, <1>14, <1>15, <1>16 DEF Next, TF_DOWN_UNZIP

THEOREM DownloadInductive == Spec => []DownloadInv
<1> QED  BY InitHolds, StepHolds, PTL DEF Spec

\* Types; the handle the page pauses or terminates by is a live thread's (SuspendThread,
\* TerminateThread).
THEOREM DownloadTypeCorrect == Spec => []DownloadTypeOK
<1>1. DownloadInv => DownloadTypeOK  BY DEF DownloadInv
<1> QED  BY <1>1, DownloadInductive, PTL

\* download_unzip reports completion only after it gave 7z an archive that had come in whole,
\* or one that holds foreign data, unless a thread was left behind; what 7z unpacked of it
\* is not looked at.
THEOREM CompleteMeansWhole == Spec => []CompleteIsWhole
<1>1. DownloadInv => CompleteIsWhole  BY DEF DownloadInv
<1> QED  BY <1>1, DownloadInductive, PTL

\* download_unzip ends as cancelled only for the user's click, unless a thread was left
\* behind.
THEOREM CancelledByClick == Spec => []CanceledByUser
<1>1. DownloadInv => CanceledByUser  BY DEF DownloadInv
<1> QED  BY <1>1, DownloadInductive, PTL

-----------------------------------------------------------------------------
(* How far a download still has to go.                                     *)

\* The places a thread passes through in one attempt, in their order.
Rank == [none |-> 8, report |-> 7, bearer |-> 6, transfer |-> 5, back |-> 4, unzip |-> 3,
         complete |-> 2, failed |-> 2, canceled |-> 2, end |-> 1, done |-> 0, killed |-> 0]

\* A later attempt, or a later place in this one, or a chunk less to come.
Advances(t) ==
    \/ attempt'[t] > attempt[t]
    \/ /\ attempt'[t] = attempt[t]
       /\ \/ Rank[at'[t]] < Rank[at[t]]
          \/ at'[t] = at[t] /\ left'[t] < left[t]

Still(t) == at'[t] = at[t] /\ attempt'[t] = attempt[t] /\ left'[t] = left[t]

\* Every step a thread of download_unzip takes brings it nearer to its end, and nothing the
\* page or another thread does sets it back.  Attempts, places and chunks are bounded, so
\* its loop is not run for ever: what may keep EveryDownloadEnds from coming true is only a
\* thread that stands still.
Advance ==
    \A t \in Threads : (TF_DOWN_UNZIP(t) => Advances(t)) /\ (Advances(t) \/ Still(t))
OnlyAdvances == [][Advance]_vars

\* A thread's own steps.
LEMMA StepAdvances ==
    ASSUME DownloadTypeOK, NEW t \in Threads, TF_DOWN_UNZIP(t)
    PROVE  Advances(t) /\ \A u \in Threads \ {t} : Still(u)
<1> USE SizesAssumption DEF DownloadTypeOK, Runs, To, page, files, thread, past, Rank
<1>1. CASE Report(t) \/ NoBearer(t)
  BY <1>1 DEF Report, NoBearer, Advances, Still
<1>2. CASE Receive(t)
  BY <1>2 DEF Receive, Advances, Still
<1>3. CASE BreakOff(t) \/ Received(t)
  BY <1>3 DEF BreakOff, Received, Advances, Still
<1>4. ASSUME NEW error \in BOOLEAN, Open(t, error)
      PROVE  Advances(t) /\ \A u \in Threads \ {t} : Still(u)
  BY <1>4 DEF Open, Advances, Still
<1>5. CASE Back(t)
  BY <1>5 DEF Back, Advances, Still
<1>6. CASE Unzip(t) \/ Canceled(t) \/ End(t) \/ Dismiss(t)
  BY <1>6 DEF Unzip, Canceled, End, Dismiss, Advances, Still
<1> QED
  BY <1>1, <1>2, <1>3, <1>4, <1>5, <1>6 DEF TF_DOWN_UNZIP

\* The page's steps: one starts a thread, one ends it, the others leave all where they are.
LEMMA PageAdvances ==
    ASSUME DownloadTypeOK,
           \/ \E t \in Threads, i \in Images : Start(t, i)
           \/ Cancel \/ OnBnClickedBtnPause \/ onAfterVMStoped,
           NEW t \in Threads
    PROVE  Advances(t) \/ Still(t)
<1> USE DEF DownloadTypeOK, Active, Places, To, files, thread, Rank, Advances, Still
<1>1. CASE \E u \in Threads, i \in Images : Start(u, i)
  BY <1>1 DEF Start
<1>2. CASE Cancel \/ OnBnClickedBtnPause
  BY <1>2 DEF Cancel, OnBnClickedBtnPause
<1>3. CASE onAfterVMStoped
  BY <1>3, SetsAssumption DEF onAfterVMStoped
<1> QED
  BY <1>1, <1>2, <1>3

\* download_unzip goes on only as long as there is something left of it.
THEOREM DownloadsAdvance == Spec => OnlyAdvances
<1>1. DownloadTypeOK /\ [Next]_vars => [Advance]_vars
  <2> SUFFICES ASSUME DownloadTypeOK, Next, NEW t \in Threads
               PROVE  (TF_DOWN_UNZIP(t) => Advances(t)) /\ (Advances(t) \/ Still(t))
    BY DEF Advance
  <2>1. TF_DOWN_UNZIP(t) => Advances(t)
    BY StepAdvances
  <2>2. Advances(t) \/ Still(t)
    BY StepAdvances, PageAdvances DEF Next
  <2> QED
    BY <2>1, <2>2
<1> QED
  BY DownloadTypeCorrect, <1>1, PTL DEF Spec, OnlyAdvances
=============================================================================
