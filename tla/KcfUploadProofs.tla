--------------------------- MODULE KcfUploadProofs ---------------------------
(***************************************************************************)
(* Uploads and the image viewer, for any folders, closures, drops, images  *)
(* and viewers.  Files are stored where they were dropped: the invariant   *)
(* Inv follows a file from the drop to the server, it waits in queues, is  *)
(* read, is sent, and its folder is fixed by then.  No file is left behind *)
(* and the pane at rest is fresh: UInv adds what each closure has to do    *)
(* yet, and that the refresh that is missing is still due.  The viewer     *)
(* shows the current image: VInv says what a viewer that had the page to   *)
(* itself can rely on.                                                     *)
(***************************************************************************)
EXTENDS MCKcfUpload, FiniteSetTheorems, TLAPS

(* Files that wait in the queues q have been dropped. *)
QueuesOK(q, n) ==
  /\ q \in [Insts -> Seq(Files)]
  /\ \A i \in Insts : \A k \in DOMAIN q[i] : q[i][k] <= n

(* Reads and requests, in r, are for the folders of their files. *)
UploadsOK(r, n, target) ==
  /\ r \in [Insts -> SUBSET Upload]
  /\ \A i \in Insts : \A u \in r[i] : u.file <= n /\ u.to = target[u.file]

(* Dropped files have a folder. *)
TargetsOK(n, target) ==
  /\ n \in 0..MaxFiles
  /\ target \in [Files -> Dirs \cup {None}]
  /\ \A f \in Files : f <= n => target[f] \in Dirs

StoredOK(s, n, target) ==
  /\ s \in [Dirs -> SUBSET (Insts \X Files)]
  /\ \A d \in Dirs : \A p \in s[d] : p[2] <= n /\ target[p[2]] = d

PageOK == dir \in Dirs /\ visible \subseteq Dirs /\ inst \in Insts

Inv ==
  /\ PageOK
  /\ TargetsOK(dropped, thisTargetDir)
  /\ QueuesOK(uploadQueue, dropped)
  /\ UploadsOK(reading, dropped, thisTargetDir)
  /\ UploadsOK(sending, dropped, thisTargetDir)
  /\ StoredOK(stored, dropped, thisTargetDir)

-----------------------------------------------------------------------------
(* processUploadQueue takes a file out of a queue and reads it. *)
LEMMA ProcessKeeps ==
  ASSUME NEW I \in SUBSET Insts, NEW q, NEW busy, NEW r, NEW target, NEW n,
         TargetsOK(n, target), QueuesOK(q, n), UploadsOK(r, n, target),
         Process(I, q, busy, r, target)
  PROVE  QueuesOK(uploadQueue', n) /\ UploadsOK(reading', n, target)
<1> DEFINE taking == Taking({i \in I : ~busy[i]}, q)
<1>1. /\ uploadQueue' = [i \in Insts |-> IF i \in taking THEN Tail(q[i]) ELSE q[i]]
      /\ reading' = [i \in Insts |->
           IF i \in taking THEN r[i] \cup {Reader(Head(q[i]), target)} ELSE r[i]]
  BY DEF Process
<1>2. \A i \in taking : i \in Insts /\ q[i] # <<>>
  BY DEF Taking
<1> HIDE DEF taking
<1>3. ASSUME NEW i \in taking
      PROVE  /\ Tail(q[i]) \in Seq(Files)
             /\ \A k \in DOMAIN Tail(q[i]) : Tail(q[i])[k] <= n
             /\ Head(q[i]) \in Files /\ Head(q[i]) <= n
  <2>1. q[i] \in Seq(Files) /\ q[i] # <<>> /\ \A k \in DOMAIN q[i] : q[i][k] <= n
    BY <1>2 DEF QueuesOK
  <2> QED BY <2>1
<1>4. ASSUME NEW i \in taking
      PROVE  LET u == Reader(Head(q[i]), target)
             IN u \in Upload /\ u.file <= n /\ u.to = target[u.file]
  BY <1>3 DEF Reader, Upload, TargetsOK
<1>5. QueuesOK(uploadQueue', n)
  BY <1>1, <1>2, <1>3 DEF QueuesOK
<1>6. ASSUME NEW i \in Insts
      PROVE  /\ reading'[i] \in SUBSET Upload
             /\ \A u \in reading'[i] : u.file <= n /\ u.to = target[u.file]
  BY <1>1, <1>4 DEF UploadsOK
<1>7. reading' = [i \in Insts |-> reading'[i]]
  BY <1>1
<1>8. reading' \in [Insts -> SUBSET Upload]
  BY <1>6, <1>7
<1> QED BY <1>5, <1>6, <1>8 DEF UploadsOK

-----------------------------------------------------------------------------
(* The queues of the closures I after a drop of n files. *)
New(n) == [k \in 1..n |-> dropped + k]
Joined(I, n) ==
  [i \in Insts |-> IF i \in I THEN uploadQueue[i] \o New(n) ELSE uploadQueue[i]]

(* They hold dropped files, and grow by no more than the drop. *)
LEMMA JoinedOK ==
  ASSUME Inv, NEW I \in SUBSET Insts, NEW n \in 1..2, dropped + n <= MaxFiles
  PROVE  /\ QueuesOK(Joined(I, n), dropped + n)
         /\ \A i \in Insts : /\ Len(Joined(I, n)[i]) <= Len(uploadQueue[i]) + n
                             /\ i \in I => Joined(I, n)[i] # <<>>
                             /\ i \notin I => Joined(I, n)[i] = uploadQueue[i]
<1> DEFINE new == New(n)
<1>1. MaxFiles \in Nat /\ dropped \in Nat
  BY UploadAssumption DEF Inv, TargetsOK
<1>2. new \in Seq(Files) /\ Len(new) = n /\ \A k \in DOMAIN new : new[k] <= dropped + n
  BY <1>1 DEF Files, New
<1> HIDE DEF new
<1>3. ASSUME NEW i \in Insts
      PROVE  /\ Joined(I, n)[i] = IF i \in I THEN uploadQueue[i] \o new ELSE uploadQueue[i]
             /\ Joined(I, n)[i] \in Seq(Files)
             /\ \A k \in DOMAIN Joined(I, n)[i] : Joined(I, n)[i][k] <= dropped + n
             /\ Len(Joined(I, n)[i]) <= Len(uploadQueue[i]) + n
             /\ i \in I => Joined(I, n)[i] # <<>>
  <2>1. /\ uploadQueue[i] \in Seq(Files) /\ Len(uploadQueue[i]) \in Nat
        /\ \A k \in DOMAIN uploadQueue[i] : uploadQueue[i][k] <= dropped
    BY DEF Inv, QueuesOK
  <2>2. \A k \in DOMAIN uploadQueue[i] : uploadQueue[i][k] <= dropped + n
    <3>1. \A k \in DOMAIN uploadQueue[i] : uploadQueue[i][k] \in Nat
      BY <2>1, <1>1 DEF Files
    <3> QED BY <2>1, <3>1, <1>1
  <2>3. uploadQueue[i] \o new \in Seq(Files) /\ Len(uploadQueue[i] \o new) = Len(uploadQueue[i]) + n
    BY <2>1, <1>2
  <2>4. ASSUME NEW k \in DOMAIN (uploadQueue[i] \o new)
        PROVE  (uploadQueue[i] \o new)[k] <= dropped + n
    <3>1. CASE k \in DOMAIN uploadQueue[i]
      BY <3>1, <2>1, <2>2, <1>2
    <3>2. CASE k \notin DOMAIN uploadQueue[i]
      <4>1. k - Len(uploadQueue[i]) \in DOMAIN new
        BY <3>2, <2>1, <1>2
      <4>2. (uploadQueue[i] \o new)[k] = new[k - Len(uploadQueue[i])]
        BY <3>2, <2>1, <1>2
      <4> QED BY <4>1, <4>2, <1>2
    <3> QED BY <3>1, <3>2
  <2>5. uploadQueue[i] \o new # <<>>
    BY <2>1, <2>3
  <2>6. Joined(I, n)[i] = IF i \in I THEN uploadQueue[i] \o new ELSE uploadQueue[i]
    BY DEF Joined, new
  <2> QED BY <2>1, <2>2, <2>3, <2>4, <2>5, <2>6
<1>4. Joined(I, n) = [i \in Insts |-> Joined(I, n)[i]]
  BY DEF Joined
<1>5. Joined(I, n) \in [Insts -> Seq(Files)]
  BY <1>3, <1>4
<1> QED BY <1>3, <1>5 DEF QueuesOK

(* A drop, said with them. *)
LEMMA DropIs ==
  ASSUME NEW I \in SUBSET Insts, NEW d \in Dirs, NEW n \in 1..2, Drop(I, d, n)
  PROVE  /\ dropped + n <= MaxFiles /\ dropped' = dropped + n
         /\ thisTargetDir' = [f \in Files |->
                                IF f \in ToSet(New(n)) THEN d ELSE thisTargetDir[f]]
         /\ Process(I, Joined(I, n), uploadInProgress, reading, thisTargetDir')
         /\ UNCHANGED <<pageVars, sending, stored, shown, faded, failed>>
BY DEF Drop, New, Joined

(* A drop gives folders to new files only. *)
LEMMA DropKeeps ==
  ASSUME Inv, NEW I \in SUBSET Insts, NEW d \in Dirs, NEW n \in 1..2, Drop(I, d, n)
  PROVE  Inv'
<1> DEFINE new == New(n)
           target == [f \in Files |-> IF f \in ToSet(new) THEN d ELSE thisTargetDir[f]]
           q == Joined(I, n)
<1>1. /\ dropped + n <= MaxFiles /\ dropped' = dropped + n /\ thisTargetDir' = target
      /\ Process(I, q, uploadInProgress, reading, target)
      /\ UNCHANGED <<pageVars, sending, stored>>
  BY DropIs
<1>2. MaxFiles \in Nat /\ dropped \in Nat
  BY UploadAssumption DEF Inv, TargetsOK
<1>3. \A f \in Files : f \in ToSet(new) <=> dropped < f /\ f <= dropped + n
  BY <1>2 DEF ToSet, Files, New
<1>5. TargetsOK(dropped + n, target)
  BY <1>1, <1>2, <1>3 DEF Inv, TargetsOK, Files
<1>6. \A f \in Files : f <= dropped => target[f] = thisTargetDir[f]
  BY <1>2, <1>3 DEF Files
<1>7. QueuesOK(q, dropped + n)
  BY <1>1, JoinedOK
<1> HIDE DEF target, new, q
<1>8. ASSUME NEW r, UploadsOK(r, dropped, thisTargetDir)
      PROVE  UploadsOK(r, dropped + n, target)
  <2>1. \A i \in Insts : \A u \in r[i] :
          u.file \in Files /\ u.file <= dropped /\ u.to = thisTargetDir[u.file]
    BY <1>8 DEF UploadsOK, Upload
  <2>2. \A i \in Insts : \A u \in r[i] : u.file <= dropped + n /\ u.to = target[u.file]
    BY <2>1, <1>2, <1>6 DEF Files
  <2> QED BY <2>2, <1>8 DEF UploadsOK
<1>9. UploadsOK(reading, dropped + n, target) /\ UploadsOK(sending, dropped + n, target)
  BY <1>8 DEF Inv
<1>10. StoredOK(stored, dropped + n, target)
  <2>1. \A e \in Dirs : \A p \in stored[e] :
          p[2] \in Files /\ p[2] <= dropped /\ thisTargetDir[p[2]] = e
    BY DEF Inv, StoredOK
  <2>2. \A e \in Dirs : \A p \in stored[e] : p[2] <= dropped + n /\ target[p[2]] = e
    BY <2>1, <1>2, <1>6 DEF Files
  <2> QED BY <2>2 DEF Inv, StoredOK
<1>11. QueuesOK(uploadQueue', dropped + n) /\ UploadsOK(reading', dropped + n, target)
  BY <1>1, <1>5, <1>7, <1>9, ProcessKeeps
<1>12. PageOK'
  BY <1>1 DEF Inv, PageOK, pageVars
<1> QED BY <1>1, <1>5, <1>9, <1>10, <1>11, <1>12 DEF Inv

-----------------------------------------------------------------------------
(* An answer or a broken connection: the server has the file of a request  *)
(* in its folder, or has not.                                              *)
LEMMA SentKeeps ==
  ASSUME Inv, NEW i \in Insts, NEW u \in sending[i],
         sending' = [sending EXCEPT ![i] = @ \ {u}],
         stored' \in {stored, [stored EXCEPT ![u.to] = @ \cup {<<i, u.file>>}]}
  PROVE  /\ UploadsOK(sending', dropped, thisTargetDir)
         /\ StoredOK(stored', dropped, thisTargetDir)
<1>1. u \in Upload /\ u.file <= dropped /\ u.to = thisTargetDir[u.file]
  BY DEF Inv, UploadsOK
<1>2. u.file \in Files /\ u.to \in Dirs
  BY <1>1 DEF Upload
<1>3. UploadsOK(sending', dropped, thisTargetDir)
  BY DEF Inv, UploadsOK
<1>4. StoredOK(stored', dropped, thisTargetDir)
  BY <1>1, <1>2 DEF Inv, StoredOK
<1> QED BY <1>3, <1>4

(* Every step keeps the invariant. *)
LEMMA StepKeeps == Inv /\ [Next]_vars => Inv'
<1> SUFFICES ASSUME Inv, [Next]_vars PROVE Inv'
  OBVIOUS
<1>0. MaxInst \in Nat /\ inst \in Insts /\ 1..inst \in SUBSET Insts
  BY UploadAssumption DEF Inv, PageOK, Insts
<1>1. ASSUME NEW n \in 1..2, FilesDrop(n) PROVE Inv'
  BY <1>0, <1>1, DropKeeps DEF FilesDrop, Inv, PageOK
<1>2. ASSUME NEW n \in 1..2, NEW d \in visible, FolderDrop(d, n) PROVE Inv'
  <2>1. {i \in 1..inst : d \in listens[i]} \in SUBSET Insts /\ d \in Dirs
    BY <1>0 DEF Inv, PageOK
  <2> QED BY <1>2, <2>1, DropKeeps DEF FolderDrop
<1>3. ASSUME NEW D \in SUBSET (Dirs \ visible), InitDropUpload(D) PROVE Inv'
  BY <1>0, <1>3 DEF InitDropUpload, Inv, PageOK, dropVars, closureVars, Insts
<1>4. ASSUME NEW d \in Dirs, ChangeDir(d) PROVE Inv'
  BY <1>4 DEF ChangeDir, Inv, PageOK, dropVars, closureVars
<1>5. ASSUME NEW i \in Insts, NEW u, ReaderOnload(i, u) PROVE Inv'
  <2>1. u \in reading[i] /\ u \in Upload /\ u.file <= dropped /\ u.to = thisTargetDir[u.file]
    BY <1>5 DEF ReaderOnload, Inv, UploadsOK
  <2>2. /\ reading' = [reading EXCEPT ![i] = @ \ {u}]
        /\ sending' = [sending EXCEPT ![i] = @ \cup {u}]
        /\ UNCHANGED <<pageVars, dropVars, uploadQueue, stored>>
    BY <1>5 DEF ReaderOnload
  <2>3. UploadsOK(reading', dropped, thisTargetDir) /\ UploadsOK(sending', dropped, thisTargetDir)
    BY <2>1, <2>2 DEF Inv, UploadsOK
  <2> QED BY <2>2, <2>3 DEF Inv, PageOK, pageVars, dropVars
<1>6. ASSUME NEW i \in Insts, NEW u, ReaderOnerror(i, u) PROVE Inv'
  <2>1. /\ Process({i}, uploadQueue, FlagDown(i), [reading EXCEPT ![i] = @ \ {u}], thisTargetDir)
        /\ UNCHANGED <<pageVars, dropVars, sending, stored>>
    BY <1>6 DEF ReaderOnerror
  <2>2. UploadsOK([reading EXCEPT ![i] = @ \ {u}], dropped, thisTargetDir)
    BY DEF Inv, UploadsOK
  <2>3. QueuesOK(uploadQueue', dropped) /\ UploadsOK(reading', dropped, thisTargetDir)
    BY <2>1, <2>2, ProcessKeeps DEF Inv
  <2> QED BY <2>1, <2>3 DEF Inv, PageOK, pageVars, dropVars
<1>7. ASSUME NEW i \in Insts, NEW u, XhrOnload(i, u) PROVE Inv'
  <2>1. /\ Process({i}, uploadQueue, FlagDown(i), reading, thisTargetDir)
        /\ UNCHANGED <<pageVars, dropVars>>
    BY <1>7 DEF XhrOnload
  <2>2. QueuesOK(uploadQueue', dropped) /\ UploadsOK(reading', dropped, thisTargetDir)
    BY <2>1, ProcessKeeps DEF Inv
  <2>3. UploadsOK(sending', dropped, thisTargetDir) /\ StoredOK(stored', dropped, thisTargetDir)
    BY <1>7, SentKeeps DEF XhrOnload
  <2> QED BY <2>1, <2>2, <2>3 DEF Inv, PageOK, pageVars, dropVars
<1>8. ASSUME NEW i \in Insts, NEW u, XhrFails(i, u) PROVE Inv'
  <2>1. UploadsOK(sending', dropped, thisTargetDir) /\ StoredOK(stored', dropped, thisTargetDir)
    BY <1>8, SentKeeps DEF XhrFails
  <2> QED BY <1>8, <2>1 DEF XhrFails, Inv, PageOK, pageVars, dropVars, closureVars
<1>9. ASSUME NEW i \in Insts, Finish(i) PROVE Inv'
  <2>1. QueuesOK(uploadQueue', dropped)
    BY <1>9 DEF Finish, Inv, QueuesOK
  <2> QED BY <1>9, <2>1 DEF Finish, Inv, PageOK, pageVars, dropVars
<1>10. CASE UNCHANGED vars
  BY <1>10 DEF vars, Inv, PageOK, pageVars, dropVars, closureVars
<1>11. ASSUME NEW i \in 1..inst, ReadEnds(i) \/ RequestEnds(i) \/ Finish(i) PROVE Inv'
  BY <1>0, <1>5, <1>6, <1>7, <1>8, <1>9, <1>11 DEF ReadEnds, RequestEnds
<1> QED BY <1>1, <1>2, <1>3, <1>4, <1>10, <1>11 DEF Next

(* A file is stored in the folder it was dropped on, or that was open when *)
(* it was dropped on the pane, wherever the user went meanwhile.           *)
THEOREM StoredWhereDroppedAlways == Spec => []StoredWhereDropped
<1>1. Init => Inv
  BY UploadAssumption DEF Init, Inv, PageOK, TargetsOK, QueuesOK, UploadsOK, StoredOK,
    Insts, Files
<1>2. Inv => StoredWhereDropped
  BY DEF Inv, StoredOK, StoredWhereDropped
<1> QED BY <1>1, <1>2, StepKeeps, PTL DEF Spec

-----------------------------------------------------------------------------
(* A closure whose flag is down and whose queue has files is reading one. *)
Waits ==
  /\ uploadInProgress \in [Insts -> BOOLEAN]
  /\ \A i \in Insts : uploadQueue[i] # <<>> /\ ~uploadInProgress[i] => reading[i] # {}

(* What LossNeedsARead says of one step. *)
Loses(i) == uploadQueue[i] # <<>> /\ uploadQueue'[i] = <<>> /\ reading'[i] = reading[i]
LossOK == \A i \in Insts : Loses(i) => reading[i] # {}

(* The same of the closures J, whose queues are q, flags busy and reads r. *)
WaitIn(J, q, busy, r) == \A i \in J : q[i] # <<>> /\ ~busy[i] => r[i] # {}

(* What processUploadQueue does for closure i.                             *)
Reads(I, q, busy, r, i) ==
  /\ uploadQueue'[i] # q[i] => reading'[i] # {}
  /\ i \in I /\ ~busy[i] /\ uploadQueue'[i] # <<>> => reading'[i] # {}
  /\ i \notin I \/ busy[i] => uploadQueue'[i] = q[i] /\ reading'[i] = r[i]

(* What it takes from a queue is being read then; a free closure takes     *)
(* something, or has nothing left.                                         *)
LEMMA ProcessReads ==
  ASSUME NEW I \in SUBSET Insts, NEW q, NEW busy, NEW r, NEW target,
         Process(I, q, busy, r, target), NEW i \in Insts
  PROVE  Reads(I, q, busy, r, i)
<1> DEFINE taking == Taking({j \in I : ~busy[j]}, q)
<1>1. /\ uploadQueue' = [j \in Insts |-> IF j \in taking THEN Tail(q[j]) ELSE q[j]]
      /\ reading' = [j \in Insts |->
           IF j \in taking THEN r[j] \cup {Reader(Head(q[j]), target)} ELSE r[j]]
  BY DEF Process
<1>2. i \in taking <=> i \in I /\ ~busy[i] /\ q[i] # <<>>
  BY DEF Taking
<1> HIDE DEF taking
<1> QED BY <1>1, <1>2 DEF Reads

(* So files wait for a read, unless the flag is up, in every closure that  *)
(* ran it and in every other as before.                                    *)
LEMMA ProcessWaits ==
  ASSUME NEW I \in SUBSET Insts, NEW q, NEW busy \in [Insts -> BOOLEAN], NEW r, NEW target,
         Process(I, q, busy, r, target),
         WaitIn(Insts \ I, q, busy, r)
  PROVE  Waits'
<1>1. uploadInProgress' = busy
  BY DEF Process
<1>2. ASSUME NEW i \in Insts PROVE uploadQueue'[i] # <<>> /\ ~busy[i] => reading'[i] # {}
  <2>1. Reads(I, q, busy, r, i)
    BY ProcessReads
  <2>2. i \notin I => (q[i] # <<>> /\ ~busy[i] => r[i] # {})
    BY DEF WaitIn
  <2> QED BY <2>1, <2>2, Zenon DEF Reads
<1> QED BY <1>1, <1>2 DEF Waits

(* A drop adds to the queues, and loses nothing. *)
LEMMA DropLoses ==
  ASSUME Inv, Waits, NEW I \in SUBSET Insts, NEW d \in Dirs, NEW n \in 1..2, Drop(I, d, n)
  PROVE  Waits' /\ LossOK
<1> DEFINE q == Joined(I, n)
<1>1. Process(I, q, uploadInProgress, reading, thisTargetDir') /\ dropped + n <= MaxFiles
  BY DropIs
<1>2. ASSUME NEW i \in Insts, uploadQueue[i] # <<>> PROVE q[i] # <<>>
  BY <1>1, <1>2, JoinedOK
<1>3. \A i \in Insts \ I : q[i] = uploadQueue[i]
  BY DEF Joined
<1> HIDE DEF q
<1>4. Waits'
  <2>1. WaitIn(Insts \ I, q, uploadInProgress, reading)
    BY <1>3 DEF Waits, WaitIn
  <2>2. uploadInProgress \in [Insts -> BOOLEAN]
    BY DEF Waits
  <2> QED BY <1>1, <2>1, <2>2, ProcessWaits, Zenon
<1>5. ASSUME NEW i \in Insts, Loses(i) PROVE reading[i] # {}
  <2>1. uploadQueue'[i] # q[i]
    BY <1>2, <1>5 DEF Loses
  <2>2. reading'[i] # {}
    BY <1>1, <2>1, ProcessReads DEF Reads
  <2> QED BY <1>5, <2>2 DEF Loses
<1> QED BY <1>4, <1>5 DEF LossOK

(* An answer, or a file that cannot be read, lets its closure go on. *)
LEMMA AnswerLoses ==
  ASSUME Waits, NEW j \in Insts, NEW r,
         \A i \in Insts \ {j} : r[i] = reading[i],
         Process({j}, uploadQueue, FlagDown(j), r, thisTargetDir)
  PROVE  Waits' /\ LossOK
<1>1. FlagDown(j) \in [Insts -> BOOLEAN]
  BY DEF FlagDown, Waits
<1>2. \A i \in Insts \ {j} : FlagDown(j)[i] = uploadInProgress[i]
  BY DEF FlagDown, Waits
<1>3. WaitIn(Insts \ {j}, uploadQueue, FlagDown(j), r)
  BY <1>2 DEF Waits, WaitIn
<1>4. Waits'
  <2>1. {j} \in SUBSET Insts
    OBVIOUS
  <2> QED BY <1>1, <1>3, <2>1, ProcessWaits, Zenon
<1>5. ASSUME NEW i \in Insts, Loses(i) PROVE reading[i] # {}
  <2>1. uploadQueue'[i] # uploadQueue[i]
    BY <1>5 DEF Loses
  <2>2. reading'[i] # {}
    BY <2>1, ProcessReads DEF Reads
  <2> QED BY <1>5, <2>2 DEF Loses
<1> QED BY <1>4, <1>5 DEF LossOK

(* Every step keeps Waits, and loses files as LossOK says. *)
LEMMA StepLoses == Inv /\ Waits /\ [Next]_vars => Waits' /\ LossOK
<1> SUFFICES ASSUME Inv, Waits, [Next]_vars PROVE Waits' /\ LossOK
  OBVIOUS
<1>0. MaxInst \in Nat /\ inst \in Insts /\ 1..inst \in SUBSET Insts
  BY UploadAssumption DEF Inv, PageOK, Insts
<1>1. ASSUME NEW n \in 1..2, FilesDrop(n) PROVE Waits' /\ LossOK
  BY <1>0, <1>1, DropLoses DEF FilesDrop, Inv, PageOK
<1>2. ASSUME NEW n \in 1..2, NEW d \in visible, FolderDrop(d, n) PROVE Waits' /\ LossOK
  <2>1. {i \in 1..inst : d \in listens[i]} \in SUBSET Insts /\ d \in Dirs
    BY <1>0 DEF Inv, PageOK
  <2> QED BY <1>2, <2>1, DropLoses DEF FolderDrop
<1>3. CASE UNCHANGED closureVars
  BY <1>3 DEF closureVars, Waits, LossOK, Loses
<1>4. ASSUME NEW i \in Insts, NEW u, ReaderOnload(i, u) PROVE Waits' /\ LossOK
  <2>1. /\ reading' = [reading EXCEPT ![i] = @ \ {u}]
        /\ uploadInProgress' = [uploadInProgress EXCEPT ![i] = TRUE]
        /\ uploadQueue' = uploadQueue
    BY <1>4 DEF ReaderOnload
  <2>2. \A j \in Insts \ {i} :
          reading'[j] = reading[j] /\ uploadInProgress'[j] = uploadInProgress[j]
    BY <2>1 DEF Inv, UploadsOK, Waits
  <2>3. uploadInProgress' \in [Insts -> BOOLEAN] /\ uploadInProgress'[i] = TRUE
    BY <2>1 DEF Waits
  <2>4. Waits'
    BY <2>1, <2>2, <2>3 DEF Waits
  <2>5. LossOK
    BY <2>1 DEF LossOK, Loses
  <2> QED BY <2>4, <2>5
<1>5. ASSUME NEW i \in Insts, NEW u, ReaderOnerror(i, u) PROVE Waits' /\ LossOK
  <2> DEFINE r == [reading EXCEPT ![i] = @ \ {u}]
  <2>1. \A j \in Insts \ {i} : r[j] = reading[j]
    BY DEF Inv, UploadsOK
  <2>2. Process({i}, uploadQueue, FlagDown(i), r, thisTargetDir)
    BY <1>5 DEF ReaderOnerror
  <2> HIDE DEF r
  <2> QED BY <2>1, <2>2, AnswerLoses
<1>6. ASSUME NEW i \in Insts, NEW u, XhrOnload(i, u) PROVE Waits' /\ LossOK
  BY <1>6, AnswerLoses DEF XhrOnload
<1>7. ASSUME NEW i \in Insts, Finish(i) PROVE Waits' /\ LossOK
  <2>1. /\ ~uploadInProgress[i] /\ uploadQueue' = [uploadQueue EXCEPT ![i] = <<>>]
        /\ UNCHANGED <<uploadInProgress, reading>>
    BY <1>7 DEF Finish, MayFinish
  <2>2. \A j \in Insts : uploadQueue'[j] = IF j = i THEN <<>> ELSE uploadQueue[j]
    BY <2>1 DEF Inv, QueuesOK
  <2>3. Waits'
    BY <2>1, <2>2 DEF Waits
  <2>4. LossOK
    BY <2>1, <2>2 DEF LossOK, Loses, Waits
  <2> QED BY <2>3, <2>4
<1>8. ASSUME NEW i \in 1..inst, ReadEnds(i) \/ RequestEnds(i) \/ Finish(i)
      PROVE  Waits' /\ LossOK
  <2>1. ASSUME NEW u, XhrFails(i, u) PROVE UNCHANGED closureVars
    BY <2>1 DEF XhrFails
  <2> QED BY <1>0, <1>3, <1>4, <1>5, <1>6, <1>7, <1>8, <2>1 DEF ReadEnds, RequestEnds
<1>9. ASSUME NEW D \in SUBSET (Dirs \ visible), InitDropUpload(D) PROVE UNCHANGED closureVars
  BY <1>9 DEF InitDropUpload
<1>10. ASSUME NEW d \in Dirs, ChangeDir(d) PROVE UNCHANGED closureVars
  BY <1>10 DEF ChangeDir
<1>11. UNCHANGED vars => UNCHANGED closureVars
  BY DEF vars, closureVars
<1> QED BY <1>1, <1>2, <1>3, <1>8, <1>9, <1>10, <1>11 DEF Next

(* Files are lost from a queue only while a file of the closure is read.   *)
THEOREM LossNeedsAReadAlways == Spec => LossNeedsARead
<1>1. Init => Inv /\ Waits
  <2>1. Init => Inv
    BY UploadAssumption DEF Init, Inv, PageOK, TargetsOK, QueuesOK, UploadsOK, StoredOK,
      Insts, Files
  <2>2. Init => Waits
    BY DEF Init, Waits
  <2> QED BY <2>1, <2>2
<1>2. Inv /\ Waits /\ [Next]_vars => Inv' /\ Waits'
  BY StepKeeps, StepLoses
<1>3. Inv /\ Waits /\ [Next]_vars =>
        [\A i \in Insts :
           uploadQueue[i] # <<>> /\ uploadQueue'[i] = <<>> /\ reading'[i] = reading[i]
             => reading[i] # {}]_vars
  BY StepLoses DEF LossOK, Loses
<1> QED BY <1>1, <1>2, <1>3, PTL DEF Spec, LossNeedsARead

-----------------------------------------------------------------------------
(* A file is at one place of its closure at most, and an interval stands   *)
(* for a file that is done: this bounds the intervals that run at once.    *)
Counted(r, s, l, q, n) ==
  /\ IsFiniteSet(r) /\ IsFiniteSet(s) /\ l \in Nat /\ q \in Seq(Files)
  /\ Cardinality(r) + Cardinality(s) + l + Len(q) <= n

CountOK ==
  \A i \in Insts : Counted(reading[i], sending[i], loops[i], uploadQueue[i], dropped)

RestOK ==
  /\ listens \in [Insts -> SUBSET Dirs] /\ asked \in 0..MaxUploads
  /\ currentFile \in [Insts -> Files \cup {0}] /\ loops = [i \in Insts |-> loops[i]]
  /\ shown \subseteq Insts \X Files /\ faded \in BOOLEAN
  /\ failed \in [Insts -> BOOLEAN]

(* The flag is up while a request has no answer. *)
FlagOK == \A i \in Insts : uploadInProgress[i] => sending[i] # {} \/ failed[i]

Pending(i) == loops[i] > 0 \/ reading[i] # {} \/ sending[i] # {}

CurrentOK ==
  \A i \in Insts : currentFile[i] <= dropped /\ (Pending(i) => currentFile[i] > 0)

(* Every file dropped so far went to one folder. *)
OneFolder == \A f, g \in 1..dropped : thisTargetDir[f] = thisTargetDir[g]

Fresh == shown = stored[dir] /\ ~faded
WillRefresh == \E i \in Insts : Pending(i) /\ thisTargetDir[currentFile[i]] = dir
FreshOK == OneFolder /\ (\A i \in Insts : ~failed[i]) => Fresh \/ WillRefresh

UInv == Inv /\ Waits /\ RestOK /\ CountOK /\ FlagOK /\ CurrentOK /\ FreshOK

-----------------------------------------------------------------------------
(* What processUploadQueue does for a closure: nothing, unless it is one   *)
(* of I and free; else it takes a file, or arms the interval.              *)
Same(i, q, r) ==
  /\ uploadQueue'[i] = q[i] /\ reading'[i] = r[i]
  /\ currentFile'[i] = currentFile[i] /\ loops'[i] = loops[i]
Takes(i, q, r, target) ==
  /\ q[i] # <<>> /\ uploadQueue'[i] = Tail(q[i]) /\ currentFile'[i] = Head(q[i])
  /\ reading'[i] = r[i] \cup {Reader(Head(q[i]), target)} /\ loops'[i] = loops[i]
Arms(i, q, r) ==
  /\ q[i] = <<>> /\ uploadQueue'[i] = q[i] /\ reading'[i] = r[i]
  /\ currentFile'[i] = currentFile[i] /\ loops'[i] = loops[i] + 1

(* The closures that are not asked or are busy stay as they are. *)
LEMMA ProcessCases ==
  ASSUME RestOK, NEW I \in SUBSET Insts, NEW q, NEW busy, NEW r, NEW target,
         Process(I, q, busy, r, target), NEW i \in Insts
  PROVE  /\ i \notin I \/ busy[i] => Same(i, q, r)
         /\ i \in I /\ ~busy[i] => Takes(i, q, r, target) \/ Arms(i, q, r)
<1> DEFINE free == {j \in I : ~busy[j]}
           taking == Taking(free, q)
<1>1. /\ uploadQueue' = [j \in Insts |-> IF j \in taking THEN Tail(q[j]) ELSE q[j]]
      /\ currentFile' = [j \in Insts |-> IF j \in taking THEN Head(q[j]) ELSE currentFile[j]]
      /\ reading' = [j \in Insts |->
           IF j \in taking THEN r[j] \cup {Reader(Head(q[j]), target)} ELSE r[j]]
      /\ loops' = [j \in Insts |-> IF j \in free \ taking THEN loops[j] + 1 ELSE loops[j]]
  BY DEF Process, Armed
<1>2. /\ i \in free <=> i \in I /\ ~busy[i]
      /\ i \in taking <=> i \in free /\ q[i] # <<>>
  BY DEF Taking
<1> HIDE DEF free, taking
<1> QED BY <1>1, <1>2 DEF Same, Takes, Arms

(* What it does to the functions as a whole. *)
LEMMA ProcessDomains ==
  ASSUME RestOK, NEW I, NEW q, NEW busy, NEW r, NEW target, Process(I, q, busy, r, target)
  PROVE  /\ loops' = [i \in Insts |-> loops'[i]] /\ currentFile' = [i \in Insts |-> currentFile'[i]]
         /\ uploadInProgress' = busy
BY DEF Process, Armed

(* A taken file moves from the queue to the reads; an interval needs room. *)
LEMMA CountedMoves ==
  ASSUME NEW i \in Insts, NEW q, NEW r, NEW s, NEW target, NEW n \in Nat,
         Counted(r[i], s, loops[i], q[i], n),
         Same(i, q, r) \/ Takes(i, q, r, target)
  PROVE  Counted(reading'[i], s, loops'[i], uploadQueue'[i], n)
<1>1. CASE Same(i, q, r)
  BY <1>1 DEF Same
<1>2. CASE Takes(i, q, r, target)
  <2> DEFINE x == Reader(Head(q[i]), target)
  <2>1. q[i] \in Seq(Files) /\ q[i] # <<>> /\ IsFiniteSet(r[i]) /\ IsFiniteSet(s)
    BY <1>2 DEF Counted, Takes
  <2>2. /\ Tail(q[i]) \in Seq(Files) /\ Len(Tail(q[i])) = Len(q[i]) - 1
        /\ Len(q[i]) \in Nat
    BY <2>1
  <2>3. /\ IsFiniteSet(r[i] \cup {x})
        /\ Cardinality(r[i] \cup {x}) =
             IF x \in r[i] THEN Cardinality(r[i]) ELSE Cardinality(r[i]) + 1
    BY <2>1, FS_AddElement
  <2>4. Cardinality(r[i]) \in Nat /\ Cardinality(s) \in Nat
    BY <2>1, FS_CardinalityType
  <2>5. reading'[i] = r[i] \cup {x} /\ uploadQueue'[i] = Tail(q[i]) /\ loops'[i] = loops[i]
    BY <1>2 DEF Takes
  <2> HIDE DEF x
  <2> QED BY <2>1, <2>2, <2>3, <2>4, <2>5 DEF Counted
<1> QED BY <1>1, <1>2

(* An interval that is armed takes the room of a file that is done. *)
LEMMA CountedArms ==
  ASSUME NEW i \in Insts, NEW q, NEW r, NEW s, NEW n \in Nat,
         Counted(r[i], s, loops[i] + 1, q[i], n), Arms(i, q, r)
  PROVE  Counted(reading'[i], s, loops'[i], uploadQueue'[i], n)
BY DEF Arms, Counted

(* Room for fewer files is room for more. *)
LEMMA CountedLess ==
  ASSUME NEW r, NEW s, NEW l, NEW q, NEW n \in Nat, NEW m \in Nat, Counted(r, s, l, q, n),
         n <= m
  PROVE  Counted(r, s, l, q, m)
<1>1. Cardinality(r) \in Nat /\ Cardinality(s) \in Nat /\ Len(q) \in Nat /\ l \in Nat
  BY FS_CardinalityType DEF Counted
<1> QED BY <1>1 DEF Counted

(* What a closure read or sent is done: there is room for an interval. *)
LEMMA CountedDone ==
  ASSUME NEW r, NEW s, NEW l, NEW q, NEW n \in Nat, Counted(r, s, l, q, n), NEW u
  PROVE  /\ u \in r => Counted(r \ {u}, s, l + 1, q, n) /\ Counted(r \ {u}, s, l, q, n)
         /\ u \in s => Counted(r, s \ {u}, l + 1, q, n) /\ Counted(r, s \ {u}, l, q, n)
         /\ u \in r => Counted(r \ {u}, s \cup {u}, l, q, n)
<1>1. IsFiniteSet(r) /\ IsFiniteSet(s) /\ l \in Nat /\ q \in Seq(Files)
      /\ Cardinality(r) + Cardinality(s) + l + Len(q) <= n
  BY DEF Counted
<1>2. Cardinality(r) \in Nat /\ Cardinality(s) \in Nat /\ Len(q) \in Nat
  BY <1>1, FS_CardinalityType
<1>3. /\ IsFiniteSet(r \ {u})
      /\ Cardinality(r \ {u}) = IF u \in r THEN Cardinality(r) - 1 ELSE Cardinality(r)
  BY <1>1, FS_RemoveElement
<1>4. /\ IsFiniteSet(s \ {u})
      /\ Cardinality(s \ {u}) = IF u \in s THEN Cardinality(s) - 1 ELSE Cardinality(s)
  BY <1>1, FS_RemoveElement
<1>5. /\ IsFiniteSet(s \cup {u})
      /\ Cardinality(s \cup {u}) = IF u \in s THEN Cardinality(s) ELSE Cardinality(s) + 1
  BY <1>1, FS_AddElement
<1> QED BY <1>1, <1>2, <1>3, <1>4, <1>5 DEF Counted

(* A closure's current file is one that was dropped, in a step that reads  *)
(* from the queues q and changes the target of no earlier file.            *)
CurrentIn(i, q, n) ==
  q[i] # <<>> => Head(q[i]) \in Files /\ Head(q[i]) <= n

(* What waits first in a queue was dropped. *)
LEMMA HeadDropped ==
  ASSUME NEW q, NEW n, QueuesOK(q, n), NEW i \in Insts
  PROVE  CurrentIn(i, q, n)
<1>1. q[i] \in Seq(Files) /\ \A k \in DOMAIN q[i] : q[i][k] <= n
  BY DEF QueuesOK
<1>2. q[i] # <<>> => 1 \in DOMAIN q[i] /\ Head(q[i]) = q[i][1] /\ q[i][1] \in Files
  BY <1>1
<1> QED BY <1>1, <1>2 DEF CurrentIn

(* A drop: every closure takes a file, or is busy already. *)
LEMMA DropSettles ==
  ASSUME UInv, NEW I \in SUBSET Insts, NEW d \in Dirs, NEW n \in 1..2, Drop(I, d, n)
  PROVE  RestOK' /\ CountOK' /\ FlagOK' /\ CurrentOK' /\ FreshOK'
<1> DEFINE q == Joined(I, n)
<1>0. Inv /\ Waits /\ RestOK /\ CountOK /\ FlagOK /\ CurrentOK /\ FreshOK
  BY DEF UInv
<1>1. /\ dropped + n <= MaxFiles /\ dropped' = dropped + n
      /\ Process(I, q, uploadInProgress, reading, thisTargetDir')
      /\ UNCHANGED <<dir, listens, sending, stored, shown, faded, failed>>
  BY DropIs DEF pageVars
<1>2. MaxFiles \in Nat /\ dropped \in Nat /\ dropped + n \in Nat
  BY UploadAssumption, <1>0 DEF Inv, TargetsOK
<1>3. QueuesOK(q, dropped + n)
  BY <1>0, <1>1, JoinedOK
<1>4. \A i \in Insts : /\ Len(q[i]) <= Len(uploadQueue[i]) + n
                       /\ i \in I => q[i] # <<>>
                       /\ i \notin I => q[i] = uploadQueue[i]
  BY <1>0, <1>1, JoinedOK
<1>5. /\ loops' = [i \in Insts |-> loops'[i]] /\ currentFile' = [i \in Insts |-> currentFile'[i]]
      /\ uploadInProgress' = uploadInProgress
  BY <1>0, <1>1, ProcessDomains
<1> HIDE DEF q
<1>6. ASSUME NEW i \in Insts
      PROVE  Same(i, q, reading) \/ Takes(i, q, reading, thisTargetDir')
  BY <1>0, <1>1, <1>4, ProcessCases DEF Arms
<1>7. ASSUME NEW i \in Insts PROVE CurrentIn(i, q, dropped + n)
  BY <1>3, HeadDropped
<1>8. ASSUME NEW i \in Insts
      PROVE  /\ currentFile'[i] \in Files \cup {0} /\ currentFile'[i] <= dropped'
             /\ Pending(i)' => currentFile'[i] > 0
             /\ Pending(i) => Pending(i)'
  <2>1. currentFile[i] \in Files \cup {0} /\ currentFile[i] <= dropped
        /\ (Pending(i) => currentFile[i] > 0)
    BY <1>0 DEF RestOK, CurrentOK
  <2>2. \A f \in Files : f \in Nat /\ f > 0
    BY <1>2 DEF Files
  <2>3. CASE Same(i, q, reading)
    BY <1>1, <1>2, <2>1, <2>2, <2>3 DEF Same, Pending
  <2>4. CASE Takes(i, q, reading, thisTargetDir')
    <3>1. currentFile'[i] \in Files /\ currentFile'[i] <= dropped + n
      BY <1>7, <2>4 DEF Takes, CurrentIn
    <3>2. reading'[i] # {}
      BY <2>4 DEF Takes
    <3> QED BY <1>1, <2>2, <3>1, <3>2 DEF Pending
  <2> QED BY <1>6, <2>3, <2>4
<1>9. RestOK'
  <2>1. asked' \in 0..MaxUploads
    <3>1. IsFiniteSet(I)
      <4>1. MaxInst \in Nat
        BY UploadAssumption
      <4>2. IsFiniteSet(Insts)
        BY <4>1, FS_Interval DEF Insts
      <4> QED BY <4>2, FS_Subset
    <3>2. Cardinality(I) \in Nat
      BY <3>1, FS_CardinalityType
    <3>3. asked' = asked + n * Cardinality(I) /\ asked' <= MaxUploads
      BY DEF Drop
    <3>4. asked \in Nat /\ MaxUploads \in Nat
      BY <1>0, UploadAssumption DEF RestOK
    <3>5. n * Cardinality(I) \in Nat
      BY <3>2
    <3> QED BY <3>3, <3>4, <3>5
  <2>2. currentFile' \in [Insts -> Files \cup {0}]
    BY <1>5, <1>8
  <2> QED BY <1>0, <1>1, <1>5, <2>1, <2>2 DEF RestOK
<1>10. CountOK'
  <2>1. ASSUME NEW i \in Insts
        PROVE  Counted(reading[i], sending[i], loops[i], q[i], dropped + n)
    <3>1. Counted(reading[i], sending[i], loops[i], uploadQueue[i], dropped)
      BY <1>0 DEF CountOK
    <3>2. Cardinality(reading[i]) \in Nat /\ Cardinality(sending[i]) \in Nat
      BY <3>1, FS_CardinalityType DEF Counted
    <3>3. q[i] \in Seq(Files) /\ Len(q[i]) \in Nat /\ Len(q[i]) <= Len(uploadQueue[i]) + n
          /\ Len(uploadQueue[i]) \in Nat
      BY <1>3, <1>4, <3>1 DEF QueuesOK, Counted
    <3>4. /\ IsFiniteSet(reading[i]) /\ IsFiniteSet(sending[i]) /\ loops[i] \in Nat
          /\ Cardinality(reading[i]) + Cardinality(sending[i]) + loops[i]
               + Len(uploadQueue[i]) <= dropped
      BY <3>1 DEF Counted
    <3>5. Cardinality(reading[i]) + Cardinality(sending[i]) + loops[i] + Len(q[i])
            <= dropped + n
      BY <1>2, <3>2, <3>3, <3>4
    <3> QED BY <3>3, <3>4, <3>5 DEF Counted
  <2>2. ASSUME NEW i \in Insts
        PROVE  Counted(reading'[i], sending[i], loops'[i], uploadQueue'[i], dropped + n)
    BY <1>2, <1>6, <2>1, CountedMoves
  <2> QED BY <1>1, <2>2 DEF CountOK
<1>11. FlagOK'
  BY <1>0, <1>1, <1>5 DEF FlagOK
<1>12. CurrentOK'
  BY <1>8 DEF CurrentOK
<1>13. FreshOK'
  <2> SUFFICES ASSUME OneFolder', \A i \in Insts : ~failed'[i] PROVE Fresh' \/ WillRefresh'
    BY DEF FreshOK
  <2>1. \A f \in 1..dropped : f \in Files /\ thisTargetDir'[f] = thisTargetDir[f]
    <3>1. \A f \in ToSet(New(n)) : f > dropped
      BY <1>2 DEF ToSet, New
    <3>2. \A f \in 1..dropped : f \in Files /\ f \notin ToSet(New(n))
      BY <1>1, <1>2, <3>1 DEF Files
    <3>3. thisTargetDir' = [f \in Files |->
                              IF f \in ToSet(New(n)) THEN d ELSE thisTargetDir[f]]
      BY DropIs
    <3> QED BY <3>2, <3>3
  <2>2. \A f \in 1..dropped : f \in 1..dropped'
    BY <1>1, <1>2
  <2>3. OneFolder
    BY <2>1, <2>2 DEF OneFolder
  <2>4. CASE Fresh
    BY <1>1, <2>4 DEF Fresh
  <2>5. CASE WillRefresh
    <3>1. PICK i \in Insts : Pending(i) /\ thisTargetDir[currentFile[i]] = dir
      BY <2>5 DEF WillRefresh
    <3>2. currentFile[i] \in 1..dropped
      BY <1>0, <1>2, <3>1 DEF CurrentOK, RestOK, Files
    <3>3. Pending(i)' /\ currentFile'[i] \in 1..dropped'
      BY <1>1, <1>2, <1>8, <3>1 DEF Files
    <3>4. thisTargetDir'[currentFile'[i]] = thisTargetDir'[currentFile[i]]
      BY <2>2, <3>2, <3>3 DEF OneFolder
    <3> QED BY <1>1, <2>1, <3>1, <3>2, <3>3, <3>4 DEF WillRefresh
  <2>6. \A i \in Insts : ~failed[i]
    BY <1>1
  <2> QED BY <1>0, <2>3, <2>4, <2>5, <2>6 DEF FreshOK
<1> QED BY <1>9, <1>10, <1>11, <1>12, <1>13

-----------------------------------------------------------------------------
(* A closure i goes on when a file could not be read or an answer came: it *)
(* reads the next file or arms the interval, and has work to do in both    *)
(* cases.                                                                  *)
GoesOn(i, r) ==
  /\ \A j \in Insts \ {i} : r[j] = reading[j] /\ sending'[j] = sending[j]
  /\ Counted(r[i], sending'[i], loops[i], uploadQueue[i], dropped)
  /\ Counted(r[i], sending'[i], loops[i] + 1, uploadQueue[i], dropped)
  /\ Pending(i)
  /\ Process({i}, uploadQueue, FlagDown(i), r, thisTargetDir)
  /\ UNCHANGED <<listens, asked, dropped, thisTargetDir, failed, shown, dir>>

(* What it keeps, and that no closure stops having work to do. *)
LEMMA GoesOnSettles ==
  ASSUME UInv, NEW i \in Insts, NEW r, GoesOn(i, r), faded' \in BOOLEAN
  PROVE  /\ RestOK' /\ CountOK' /\ FlagOK' /\ CurrentOK'
         /\ Pending(i)' /\ \A j \in Insts : Pending(j) => Pending(j)'
<1>0. Inv /\ Waits /\ RestOK /\ CountOK /\ FlagOK /\ CurrentOK
  BY DEF UInv
<1>1. /\ Process({i}, uploadQueue, FlagDown(i), r, thisTargetDir)
      /\ UNCHANGED <<listens, asked, dropped, thisTargetDir, failed, shown, dir>>
  BY DEF GoesOn
<1>2. MaxFiles \in Nat /\ dropped \in Nat
  BY UploadAssumption, <1>0 DEF Inv, TargetsOK
<1>3. /\ loops' = [j \in Insts |-> loops'[j]] /\ currentFile' = [j \in Insts |-> currentFile'[j]]
      /\ uploadInProgress' = FlagDown(i)
  BY <1>0, <1>1, ProcessDomains
<1>4. \A j \in Insts : FlagDown(i)[j] = IF j = i THEN FALSE ELSE uploadInProgress[j]
  BY <1>0 DEF FlagDown, Waits
<1>5. Takes(i, uploadQueue, r, thisTargetDir) \/ Arms(i, uploadQueue, r)
  <2>1. ~ FlagDown(i)[i]
    BY <1>4
  <2> QED BY <1>0, <1>1, <2>1, ProcessCases
<1>6. ASSUME NEW j \in Insts, j # i PROVE Same(j, uploadQueue, r)
  <2>1. j \notin {i} /\ {i} \in SUBSET Insts
    BY <1>6
  <2> QED BY <1>0, <1>1, <2>1, ProcessCases
<1>7. ASSUME NEW j \in Insts, j # i
      PROVE  /\ reading'[j] = reading[j] /\ sending'[j] = sending[j]
             /\ loops'[j] = loops[j] /\ currentFile'[j] = currentFile[j]
             /\ uploadQueue'[j] = uploadQueue[j]
  BY <1>6, <1>7 DEF Same, GoesOn
<1>8. QueuesOK(uploadQueue, dropped)
  BY <1>0 DEF Inv
<1>9. CurrentIn(i, uploadQueue, dropped)
  BY <1>8, HeadDropped
<1>10. Counted(r[i], sending'[i], loops[i], uploadQueue[i], dropped)
       /\ Counted(r[i], sending'[i], loops[i] + 1, uploadQueue[i], dropped)
  BY DEF GoesOn
<1>11. Pending(i)'
  <2>1. loops[i] \in Nat
    BY <1>10 DEF Counted
  <2>2. reading'[i] # {} \/ loops'[i] = loops[i] + 1
    BY <1>5 DEF Takes, Arms
  <2> QED BY <2>1, <2>2 DEF Pending
<1>12. \A j \in Insts : Pending(j) => Pending(j)'
  BY <1>7, <1>11 DEF Pending
<1>13. /\ currentFile'[i] \in Files /\ currentFile'[i] <= dropped /\ currentFile'[i] > 0
  <2>1. currentFile[i] \in Files /\ currentFile[i] <= dropped
    BY <1>0, <1>2 DEF GoesOn, CurrentOK, RestOK, Files
  <2>2. currentFile'[i] \in Files /\ currentFile'[i] <= dropped
    BY <1>5, <1>9, <2>1 DEF Takes, Arms, CurrentIn
  <2> QED BY <1>2, <2>2 DEF Files
<1>14. ASSUME NEW j \in Insts
       PROVE  /\ currentFile'[j] \in Files \cup {0} /\ currentFile'[j] <= dropped
              /\ Pending(j)' => currentFile'[j] > 0
  <2>1. CASE j = i
    BY <1>13, <2>1
  <2>2. CASE j # i
    BY <1>0, <1>7, <2>2 DEF Pending, RestOK, CurrentOK
  <2> QED BY <2>1, <2>2
<1>15. RestOK'
  <2>1. currentFile' \in [Insts -> Files \cup {0}]
    BY <1>3, <1>14
  <2> QED BY <1>0, <1>1, <1>3, <2>1 DEF RestOK
<1>16. CountOK'
  <2>1. Counted(reading'[i], sending'[i], loops'[i], uploadQueue'[i], dropped)
    BY <1>2, <1>5, <1>10, CountedMoves, CountedArms
  <2>2. ASSUME NEW j \in Insts, j # i
        PROVE  Counted(reading'[j], sending'[j], loops'[j], uploadQueue'[j], dropped)
    BY <1>0, <1>7, <2>2 DEF CountOK
  <2> QED BY <1>1, <2>1, <2>2 DEF CountOK
<1>17. FlagOK'
  BY <1>0, <1>1, <1>3, <1>4, <1>7 DEF FlagOK
<1>18. CurrentOK'
  BY <1>1, <1>14 DEF CurrentOK
<1> QED BY <1>11, <1>12, <1>15, <1>16, <1>17, <1>18

(* The refresh that is due stays due while a closure goes on; its answer   *)
(* makes one due when a file of the open folder was stored.                *)
LEMMA GoesOnStaysFresh ==
  ASSUME UInv, NEW i \in Insts, NEW r, GoesOn(i, r), faded' \in BOOLEAN,
         \/ stored'[dir] = stored[dir] /\ faded' = faded
         \/ \E f \in 1..dropped : thisTargetDir[f] = dir
  PROVE  FreshOK'
<1> SUFFICES ASSUME OneFolder, \A j \in Insts : ~failed[j] PROVE Fresh' \/ WillRefresh'
  BY DEF FreshOK, GoesOn, OneFolder
<1>1. /\ CurrentOK' /\ RestOK' /\ Pending(i)'
      /\ \A j \in Insts : Pending(j) => Pending(j)'
  BY GoesOnSettles
<1>2. UNCHANGED <<dropped, thisTargetDir, shown, dir>>
  BY DEF GoesOn
<1>3. dropped \in Nat /\ MaxFiles \in Nat
  BY UploadAssumption DEF UInv, Inv, TargetsOK
<1>4. ASSUME NEW j \in Insts, Pending(j)' PROVE currentFile'[j] \in 1..dropped
  BY <1>1, <1>2, <1>3, <1>4 DEF CurrentOK, RestOK, Files
<1>5. ASSUME NEW f \in 1..dropped, thisTargetDir[f] = dir PROVE WillRefresh'
  <2>1. thisTargetDir[currentFile'[i]] = dir
    BY <1>1, <1>4, <1>5 DEF OneFolder
  <2> QED BY <1>1, <1>2, <2>1 DEF WillRefresh
<1>6. CASE stored'[dir] = stored[dir] /\ faded' = faded
  <2>1. Fresh \/ WillRefresh
    BY DEF UInv, FreshOK
  <2>2. Fresh => Fresh'
    BY <1>2, <1>6 DEF Fresh
  <2>3. ASSUME WillRefresh PROVE WillRefresh'
    <3>1. PICK j \in Insts : Pending(j) /\ thisTargetDir[currentFile[j]] = dir
      BY <2>3 DEF WillRefresh
    <3>2. currentFile[j] \in 1..dropped
      BY <1>3, <3>1 DEF UInv, CurrentOK, RestOK, Files
    <3> QED BY <1>5, <3>1, <3>2
  <2> QED BY <2>1, <2>2, <2>3
<1> QED BY <1>5, <1>6

(* A file that cannot be read. *)
LEMMA ReaderOnerrorSettles ==
  ASSUME UInv, NEW i \in Insts, NEW u, ReaderOnerror(i, u)
  PROVE  RestOK' /\ CountOK' /\ FlagOK' /\ CurrentOK' /\ FreshOK'
<1> DEFINE r == [reading EXCEPT ![i] = @ \ {u}]
<1>1. /\ u \in reading[i]
      /\ Process({i}, uploadQueue, FlagDown(i), r, thisTargetDir)
      /\ UNCHANGED <<pageVars, dropVars, sending, stored, shown, faded, failed>>
  BY DEF ReaderOnerror
<1>2. \A j \in Insts : r[j] = IF j = i THEN reading[i] \ {u} ELSE reading[j]
  BY DEF UInv, Inv, UploadsOK
<1>3. Counted(reading[i], sending[i], loops[i], uploadQueue[i], dropped) /\ dropped \in Nat
  BY UploadAssumption DEF UInv, CountOK, Inv, TargetsOK
<1> HIDE DEF r
<1>4. Counted(reading[i] \ {u}, sending[i], loops[i], uploadQueue[i], dropped)
      /\ Counted(reading[i] \ {u}, sending[i], loops[i] + 1, uploadQueue[i], dropped)
  BY <1>1, <1>3, CountedDone
<1>5. GoesOn(i, r)
  BY <1>1, <1>2, <1>4 DEF GoesOn, Pending, pageVars, dropVars
<1>6. faded' = faded /\ faded' \in BOOLEAN /\ stored'[dir] = stored[dir]
  BY <1>1 DEF UInv, RestOK
<1> QED BY <1>5, <1>6, GoesOnSettles, GoesOnStaysFresh

(* An answer: the refresh becomes due if the folder is the open one. *)
LEMMA XhrOnloadSettles ==
  ASSUME UInv, NEW i \in Insts, NEW u, XhrOnload(i, u)
  PROVE  RestOK' /\ CountOK' /\ FlagOK' /\ CurrentOK' /\ FreshOK'
<1>1. /\ u \in sending[i]
      /\ sending' = [sending EXCEPT ![i] = @ \ {u}]
      /\ stored' \in {stored, [stored EXCEPT ![u.to] = @ \cup {<<i, u.file>>}]}
      /\ Process({i}, uploadQueue, FlagDown(i), reading, thisTargetDir)
      /\ UNCHANGED <<pageVars, dropVars, shown, failed>>
  BY DEF XhrOnload
<1>2. \A j \in Insts : sending'[j] = IF j = i THEN sending[i] \ {u} ELSE sending[j]
  BY <1>1 DEF UInv, Inv, UploadsOK
<1>3. Counted(reading[i], sending[i], loops[i], uploadQueue[i], dropped) /\ dropped \in Nat
  BY UploadAssumption DEF UInv, CountOK, Inv, TargetsOK
<1>4. Counted(reading[i], sending[i] \ {u}, loops[i], uploadQueue[i], dropped)
      /\ Counted(reading[i], sending[i] \ {u}, loops[i] + 1, uploadQueue[i], dropped)
  BY <1>1, <1>3, CountedDone
<1>5. GoesOn(i, reading)
  BY <1>1, <1>2, <1>4 DEF GoesOn, Pending, pageVars, dropVars
<1>6. u.file \in 1..dropped /\ u.to = thisTargetDir[u.file] /\ u.to \in Dirs
  BY <1>1, <1>3 DEF UInv, Inv, UploadsOK, Upload, Files
<1>7. faded \in BOOLEAN /\ faded' = (faded \/ dir = u.to)
  BY DEF UInv, RestOK, XhrOnload
<1>8. faded' \in BOOLEAN
  BY <1>7, Zenon
<1>9. CASE dir = u.to
  BY <1>5, <1>6, <1>8, <1>9, GoesOnSettles, GoesOnStaysFresh
<1>10. CASE dir # u.to
  <2>1. stored'[dir] = stored[dir]
    BY <1>1, <1>6, <1>10 DEF UInv, Inv, StoredOK, PageOK
  <2>2. faded' = faded
    BY <1>7, <1>10
  <2> QED BY <1>5, <1>8, <2>1, <2>2, GoesOnSettles, GoesOnStaysFresh
<1> QED BY <1>9, <1>10

(* A file moves from the reads to the requests. *)
LEMMA ReaderOnloadSettles ==
  ASSUME UInv, NEW i \in Insts, NEW u, ReaderOnload(i, u)
  PROVE  RestOK' /\ CountOK' /\ FlagOK' /\ CurrentOK' /\ FreshOK'
<1>1. /\ u \in reading[i]
      /\ reading' = [reading EXCEPT ![i] = @ \ {u}]
      /\ uploadInProgress' = [uploadInProgress EXCEPT ![i] = TRUE]
      /\ sending' = [sending EXCEPT ![i] = @ \cup {u}]
      /\ UNCHANGED <<dir, listens, thisTargetDir, dropped, asked, uploadQueue, currentFile,
                     loops, stored, shown, faded, failed>>
  BY DEF ReaderOnload, pageVars, dropVars
<1>2. RestOK /\ CountOK /\ FlagOK /\ CurrentOK /\ FreshOK
  BY DEF UInv
<1>3. ASSUME NEW j \in Insts
      PROVE  /\ reading'[j] = IF j = i THEN reading[i] \ {u} ELSE reading[j]
             /\ sending'[j] = IF j = i THEN sending[i] \cup {u} ELSE sending[j]
             /\ j # i => uploadInProgress'[j] = uploadInProgress[j]
  BY <1>1 DEF UInv, Inv, UploadsOK, Waits
<1>4. RestOK'
  BY <1>1, <1>2 DEF RestOK
<1>5. CountOK'
  <2>1. ASSUME NEW j \in Insts
        PROVE  Counted(reading'[j], sending'[j], loops[j], uploadQueue[j], dropped)
    <3>1. Counted(reading[j], sending[j], loops[j], uploadQueue[j], dropped)
          /\ dropped \in Nat
      BY <1>2, UploadAssumption DEF CountOK, UInv, Inv, TargetsOK
    <3>2. CASE j = i
      <4>1. Counted(reading[i], sending[i], loops[i], uploadQueue[i], dropped)
        BY <3>1, <3>2
      <4>2. Counted(reading[i] \ {u}, sending[i] \cup {u}, loops[i], uploadQueue[i], dropped)
        BY <1>1, <3>1, <4>1, CountedDone
      <4> QED BY <1>3, <3>2, <4>2
    <3>3. CASE j # i
      BY <1>3, <3>1, <3>3
    <3> QED BY <3>2, <3>3
  <2> QED BY <1>1, <2>1 DEF CountOK
<1>6. FlagOK'
  <2>1. ASSUME NEW j \in Insts, uploadInProgress'[j] PROVE sending'[j] # {} \/ failed[j]
    <3>1. CASE j = i
      BY <1>3, <3>1
    <3>2. CASE j # i
      BY <1>2, <1>3, <2>1, <3>2 DEF FlagOK
    <3> QED BY <3>1, <3>2
  <2> QED BY <1>1, <2>1 DEF FlagOK
<1>7. \A j \in Insts : (Pending(j) => Pending(j)') /\ (Pending(j)' => Pending(j))
  <2>1. reading[i] # {} /\ sending'[i] # {}
    <3>1. u \in reading[i] /\ sending'[i] = sending[i] \cup {u}
      BY <1>1, <1>3
    <3>2. u \in sending'[i]
      BY <3>1
    <3> QED BY <3>1, <3>2
  <2>2. ASSUME NEW j \in Insts, j # i
        PROVE  (Pending(j) => Pending(j)') /\ (Pending(j)' => Pending(j))
    BY <1>1, <1>3, <2>2 DEF Pending
  <2> QED BY <2>1, <2>2 DEF Pending
<1>8. CurrentOK'
  BY <1>1, <1>2, <1>7 DEF CurrentOK
<1>9. FreshOK'
  <2>1. (OneFolder' => OneFolder) /\ (Fresh => Fresh') /\ (WillRefresh => WillRefresh')
    BY <1>1, <1>7 DEF OneFolder, Fresh, WillRefresh
  <2> QED BY <1>1, <1>2, <2>1 DEF FreshOK
<1> QED BY <1>4, <1>5, <1>6, <1>8, <1>9

(* A request breaks: the history knows, and nothing else is promised. *)
LEMMA XhrFailsSettles ==
  ASSUME UInv, NEW i \in Insts, NEW u, XhrFails(i, u)
  PROVE  RestOK' /\ CountOK' /\ FlagOK' /\ CurrentOK' /\ FreshOK'
<1>1. /\ u \in sending[i]
      /\ sending' = [sending EXCEPT ![i] = @ \ {u}]
      /\ failed' = [failed EXCEPT ![i] = TRUE]
      /\ UNCHANGED <<dir, listens, thisTargetDir, dropped, asked, uploadQueue,
                     uploadInProgress, currentFile, reading, loops, shown, faded>>
  BY DEF XhrFails, pageVars, dropVars, closureVars
<1>2. RestOK /\ CountOK /\ FlagOK /\ CurrentOK
  BY DEF UInv
<1>3. ASSUME NEW j \in Insts
      PROVE  /\ sending'[j] = IF j = i THEN sending[i] \ {u} ELSE sending[j]
             /\ failed'[j] = (j = i \/ failed[j])
  BY <1>1, <1>2 DEF UInv, Inv, UploadsOK, RestOK
<1>4. RestOK'
  BY <1>1, <1>2 DEF RestOK
<1>5. CountOK'
  <2>1. ASSUME NEW j \in Insts
        PROVE  Counted(reading[j], sending'[j], loops[j], uploadQueue[j], dropped)
    <3>1. Counted(reading[j], sending[j], loops[j], uploadQueue[j], dropped)
          /\ dropped \in Nat
      BY <1>2, UploadAssumption DEF CountOK, UInv, Inv, TargetsOK
    <3>2. CASE j = i
      <4>1. Counted(reading[i], sending[i], loops[i], uploadQueue[i], dropped)
        BY <3>1, <3>2
      <4>2. Counted(reading[i], sending[i] \ {u}, loops[i], uploadQueue[i], dropped)
        BY <1>1, <3>1, <4>1, CountedDone
      <4> QED BY <1>3, <3>2, <4>2
    <3>3. CASE j # i
      BY <1>3, <3>1, <3>3
    <3> QED BY <3>2, <3>3
  <2> QED BY <1>1, <2>1 DEF CountOK
<1>6. FlagOK'
  BY <1>1, <1>2, <1>3 DEF FlagOK
<1>7. CurrentOK'
  BY <1>1, <1>2, <1>3 DEF CurrentOK, Pending
<1>8. FreshOK'
  BY <1>3 DEF FreshOK
<1> QED BY <1>4, <1>5, <1>6, <1>7, <1>8

(* The tick refreshes the pane, if the last file went to its folder. *)
LEMMA FinishSettles ==
  ASSUME UInv, NEW i \in Insts, Finish(i)
  PROVE  RestOK' /\ CountOK' /\ FlagOK' /\ CurrentOK' /\ FreshOK'
<1>1. /\ loops[i] > 0
      /\ uploadQueue' = [uploadQueue EXCEPT ![i] = <<>>]
      /\ loops' = [loops EXCEPT ![i] = @ - 1]
      /\ \/ shown' = stored[dir] /\ faded' = FALSE
         \/ thisTargetDir[currentFile[i]] # dir /\ UNCHANGED <<shown, faded>>
      /\ UNCHANGED <<dir, listens, thisTargetDir, dropped, asked, uploadInProgress,
                     currentFile, reading, sending, stored, failed>>
  BY DEF Finish, MayFinish, pageVars, dropVars
<1>2. RestOK /\ CountOK /\ FlagOK /\ CurrentOK /\ FreshOK /\ Inv
  BY DEF UInv
<1>3. ASSUME NEW j \in Insts
      PROVE  /\ loops'[j] = IF j = i THEN loops[i] - 1 ELSE loops[j]
             /\ uploadQueue'[j] = IF j = i THEN <<>> ELSE uploadQueue[j]
  BY <1>1, <1>2 DEF RestOK, Inv, QueuesOK
<1>4. \A j \in Insts : loops[j] \in Nat
  BY <1>2 DEF CountOK, Counted
<1>5. RestOK'
  <2>1. stored[dir] \subseteq Insts \X Files
    BY <1>2 DEF Inv, StoredOK, PageOK
  <2>2. faded' \in BOOLEAN
    <3>1. faded' = FALSE \/ faded' = faded
      BY <1>1, Zenon
    <3> QED BY <1>2, <3>1 DEF RestOK
  <2> QED BY <1>1, <1>2, <2>1, <2>2 DEF RestOK
<1>6. CountOK'
  <2>1. ASSUME NEW j \in Insts
        PROVE  Counted(reading[j], sending[j], loops'[j], uploadQueue'[j], dropped)
    <3>1. Counted(reading[j], sending[j], loops[j], uploadQueue[j], dropped)
      BY <1>2 DEF CountOK
    <3>2. CASE j = i
      <4>1. /\ IsFiniteSet(reading[j]) /\ IsFiniteSet(sending[j])
            /\ uploadQueue[j] \in Seq(Files)
            /\ Cardinality(reading[j]) + Cardinality(sending[j]) + loops[j]
                 + Len(uploadQueue[j]) <= dropped
        BY <3>1 DEF Counted
      <4>2. /\ Cardinality(reading[j]) \in Nat /\ Cardinality(sending[j]) \in Nat
            /\ Len(uploadQueue[j]) \in Nat /\ dropped \in Nat
        BY <1>2, <4>1, FS_CardinalityType, UploadAssumption DEF Inv, TargetsOK
      <4>3. loops'[j] \in Nat /\ loops'[j] <= loops[j]
            /\ uploadQueue'[j] \in Seq(Files) /\ Len(uploadQueue'[j]) = 0
        <5>1. loops'[j] = loops[j] - 1 /\ loops[j] > 0 /\ uploadQueue'[j] = <<>>
          BY <1>1, <1>3, <3>2
        <5>2. loops[j] \in Nat
          BY <1>4
        <5>3. <<>> \in Seq(Files) /\ Len(<<>>) = 0
          OBVIOUS
        <5> QED BY <5>1, <5>2, <5>3
      <4>4. Cardinality(reading[j]) + Cardinality(sending[j]) + loops'[j]
              + Len(uploadQueue'[j]) <= dropped
        BY <1>4, <4>1, <4>2, <4>3
      <4> QED BY <4>1, <4>3, <4>4 DEF Counted
    <3>3. CASE j # i
      BY <1>3, <3>1, <3>3
    <3> QED BY <3>2, <3>3
  <2> QED BY <1>1, <2>1 DEF CountOK
<1>7. FlagOK'
  BY <1>1, <1>2 DEF FlagOK
<1>8. \A j \in Insts : (Pending(j)' => Pending(j)) /\ (j # i => Pending(j)' = Pending(j))
  BY <1>1, <1>3, <1>4 DEF Pending
<1>9. CurrentOK'
  BY <1>1, <1>2, <1>8 DEF CurrentOK
<1>10. FreshOK'
  <2>1. CASE shown' = stored[dir] /\ faded' = FALSE
    BY <1>1, <2>1 DEF FreshOK, Fresh
  <2>2. CASE thisTargetDir[currentFile[i]] # dir /\ UNCHANGED <<shown, faded>>
    <3>1. Fresh => Fresh'
      BY <1>1, <2>2 DEF Fresh
    <3>2. WillRefresh => WillRefresh'
      BY <1>1, <1>8, <2>2 DEF WillRefresh
    <3>3. OneFolder' => OneFolder
      BY <1>1 DEF OneFolder
    <3> QED BY <1>1, <1>2, <3>1, <3>2, <3>3 DEF FreshOK
  <2> QED BY <1>1, <2>1, <2>2
<1> QED BY <1>5, <1>6, <1>7, <1>9, <1>10

(* Steps of the page alone; opening a folder shows it fresh. *)
LEMMA PageSettles ==
  ASSUME UInv, UNCHANGED <<dropVars, closureVars, sending, stored, failed>>,
         listens' \in [Insts -> SUBSET Dirs],
         \/ UNCHANGED <<dir, shown, faded>>
         \/ dir' \in Dirs /\ shown' = stored[dir'] /\ faded' = FALSE
  PROVE  RestOK' /\ CountOK' /\ FlagOK' /\ CurrentOK' /\ FreshOK'
<1>1. UNCHANGED <<thisTargetDir, dropped, asked, uploadQueue, uploadInProgress, currentFile,
                  reading, loops, sending, stored, failed>>
  BY DEF dropVars, closureVars
<1>2. RestOK /\ CountOK /\ FlagOK /\ CurrentOK /\ FreshOK
  BY DEF UInv
<1>3. CountOK' /\ FlagOK' /\ CurrentOK'
  BY <1>1, <1>2 DEF CountOK, FlagOK, CurrentOK, Pending
<1>4. CASE UNCHANGED <<dir, shown, faded>>
  <2>1. RestOK'
    BY <1>1, <1>2, <1>4 DEF RestOK
  <2>2. (OneFolder' => OneFolder) /\ (Fresh => Fresh') /\ (WillRefresh => WillRefresh')
    BY <1>1, <1>4 DEF OneFolder, Fresh, WillRefresh, Pending
  <2> QED BY <1>1, <1>2, <1>3, <2>1, <2>2 DEF FreshOK
<1>5. CASE dir' \in Dirs /\ shown' = stored[dir'] /\ faded' = FALSE
  <2>1. shown' \subseteq Insts \X Files
    BY <1>5 DEF UInv, Inv, StoredOK
  <2>2. faded' \in BOOLEAN
    <3>1. faded' = FALSE
      BY <1>5
    <3> QED BY <3>1, Zenon
  <2>3. RestOK'
    BY <1>1, <1>2, <2>1, <2>2 DEF RestOK
  <2>4. Fresh'
    BY <1>1, <1>5 DEF Fresh
  <2> QED BY <1>3, <2>3, <2>4 DEF FreshOK
<1> QED BY <1>4, <1>5

(* Every step keeps the invariant. *)
LEMMA StepSettles == UInv /\ [Next]_vars => UInv'
<1> SUFFICES ASSUME UInv, [Next]_vars PROVE UInv'
  OBVIOUS
<1> DEFINE Settles == RestOK /\ CountOK /\ FlagOK /\ CurrentOK /\ FreshOK
<1>0. Inv /\ Waits /\ RestOK /\ Inv' /\ Waits'
  BY StepKeeps, StepLoses DEF UInv
<1>1. MaxInst \in Nat /\ inst \in Insts /\ 1..inst \in SUBSET Insts
  BY UploadAssumption, <1>0 DEF Inv, PageOK, Insts
<1>2. ASSUME NEW n \in 1..2, FilesDrop(n) PROVE Settles'
  BY <1>0, <1>1, <1>2, DropSettles DEF FilesDrop, Inv, PageOK
<1>3. ASSUME NEW n \in 1..2, NEW d \in visible, FolderDrop(d, n) PROVE Settles'
  <2>1. {i \in 1..inst : d \in listens[i]} \in SUBSET Insts /\ d \in Dirs
    BY <1>0, <1>1 DEF Inv, PageOK
  <2> QED BY <1>3, <2>1, DropSettles DEF FolderDrop
<1>4. ASSUME NEW D \in SUBSET (Dirs \ visible), InitDropUpload(D) PROVE Settles'
  <2>1. listens' \in [Insts -> SUBSET Dirs]
    BY <1>0, <1>4 DEF InitDropUpload, Inv, PageOK, RestOK
  <2> QED BY <1>4, <2>1, PageSettles DEF InitDropUpload
<1>5. ASSUME NEW d \in Dirs, ChangeDir(d) PROVE Settles'
  <2>1. listens' \in [Insts -> SUBSET Dirs]
    BY <1>0, <1>5 DEF ChangeDir, RestOK
  <2> QED BY <1>5, <2>1, PageSettles DEF ChangeDir
<1>6. ASSUME NEW i \in 1..inst, ReadEnds(i) \/ RequestEnds(i) \/ Finish(i) PROVE Settles'
  <2>1. i \in Insts
    BY <1>1
  <2> QED BY <1>6, <2>1, ReaderOnloadSettles, ReaderOnerrorSettles, XhrOnloadSettles,
             XhrFailsSettles, FinishSettles DEF ReadEnds, RequestEnds
<1>7. ASSUME UNCHANGED vars PROVE Settles'
  <2>1. UNCHANGED <<dropVars, closureVars, sending, stored, failed>>
        /\ UNCHANGED <<dir, shown, faded>> /\ listens' = listens
    BY <1>7 DEF vars, dropVars, closureVars
  <2>2. listens' \in [Insts -> SUBSET Dirs]
    BY <1>0, <2>1 DEF RestOK
  <2> QED BY <2>1, <2>2, PageSettles
<1>8. Settles'
  BY <1>2, <1>3, <1>4, <1>5, <1>6, <1>7 DEF Next
<1> QED BY <1>0, <1>8 DEF UInv

(* The page as it loads. *)
LEMMA UploadStarts == Init => UInv
<1> SUFFICES ASSUME Init PROVE UInv
  OBVIOUS
<1>0. MaxFiles \in Nat \ {0} /\ MaxInst \in Nat \ {0} /\ MaxUploads \in Nat \ {0}
      /\ Root \in Dirs
  BY UploadAssumption
<1>1. Inv
  BY <1>0 DEF Init, Inv, PageOK, TargetsOK, QueuesOK, UploadsOK, StoredOK, Insts, Files
<1>2. Waits /\ FlagOK
  BY DEF Init, Waits, FlagOK
<1>3. RestOK
  <2>1. faded \in BOOLEAN /\ failed \in [Insts -> BOOLEAN]
    BY Zenon DEF Init
  <2>2. listens \in [Insts -> SUBSET Dirs]
    BY <1>0 DEF Init
  <2> QED BY <1>0, <2>1, <2>2 DEF Init, RestOK
<1>4. CountOK
  BY FS_EmptySet DEF Init, CountOK, Counted
<1>5. CurrentOK
  BY DEF Init, CurrentOK, Pending
<1>6. FreshOK
  BY <1>0 DEF Init, FreshOK, Fresh
<1> QED BY <1>1, <1>2, <1>3, <1>4, <1>5, <1>6 DEF UInv

-----------------------------------------------------------------------------
(* At most one target means that any two files have the same.              *)
LEMMA OneTarget ==
  ASSUME Inv, Cardinality({thisTargetDir[f] : f \in 1..dropped}) <= 1
  PROVE  OneFolder
<1> DEFINE T == {thisTargetDir[f] : f \in 1..dropped}
           t == [f \in 1..dropped |-> thisTargetDir[f]]
<1>1. dropped \in Nat
  BY UploadAssumption DEF Inv, TargetsOK
<1>2. t \in Surjection(1..dropped, T)
  BY DEF Surjection
<1>3. IsFiniteSet(1..dropped)
  BY <1>1, FS_Interval
<1>4. IsFiniteSet(T)
  BY <1>2, <1>3, FS_Surjection
<1>5. ASSUME NEW a \in T, NEW b \in T, a # b PROVE FALSE
  <2>1. IsFiniteSet({a}) /\ Cardinality({a}) = 1
    BY FS_Singleton
  <2>2. Cardinality({a} \cup {b}) = 2
    BY <1>5, <2>1, FS_AddElement
  <2>3. Cardinality({a} \cup {b}) <= Cardinality(T)
    BY <1>4, FS_Subset
  <2>4. Cardinality(T) \in Nat
    BY <1>4, FS_CardinalityType
  <2> QED BY <2>2, <2>3, <2>4
<1> QED BY <1>5 DEF OneFolder

(* The invariant says what Settled says. *)
LEMMA SettledHolds == UInv => Settled
<1> SUFFICES ASSUME UInv PROVE Settled
  OBVIOUS
<1>0. Inv /\ Waits /\ RestOK /\ CountOK /\ FlagOK /\ FreshOK
  BY DEF UInv
<1>1. UploadTypeOK
  <2>1. ASSUME NEW i \in Insts PROVE loops[i] \in 0..MaxFiles
    <3>1. Counted(reading[i], sending[i], loops[i], uploadQueue[i], dropped)
      BY <1>0 DEF CountOK
    <3>2. /\ Cardinality(reading[i]) \in Nat /\ Cardinality(sending[i]) \in Nat
          /\ Len(uploadQueue[i]) \in Nat /\ loops[i] \in Nat
      BY <3>1, FS_CardinalityType DEF Counted
    <3>3. dropped \in 0..MaxFiles /\ MaxFiles \in Nat
      BY <1>0, UploadAssumption DEF Inv, TargetsOK
    <3>4. Cardinality(reading[i]) + Cardinality(sending[i]) + loops[i]
            + Len(uploadQueue[i]) <= dropped
      BY <3>1 DEF Counted
    <3> QED BY <3>2, <3>3, <3>4
  <2>2. loops \in [Insts -> 0..MaxFiles]
    <3>1. loops = [i \in Insts |-> loops[i]]
      BY <1>0 DEF RestOK
    <3> QED BY <2>1, <3>1
  <2> QED BY <1>0, <2>2 DEF Inv, PageOK, TargetsOK, QueuesOK, UploadsOK, StoredOK, Waits,
             RestOK, UploadTypeOK
<1>2. NoStrandedFile
  BY <1>0 DEF NoStrandedFile, Waits, FlagOK
<1>3. FreshAtRest
  BY <1>0, OneTarget
     DEF FreshAtRest, Quiet, FreshOK, Fresh, WillRefresh, Pending
<1> QED BY <1>1, <1>2, <1>3 DEF Settled

(* No file is left behind in a queue, and the pane at rest shows what the  *)
(* server keeps, for any folders, closures and drops.                      *)
THEOREM SettledAlways == MCSpec => []Settled
<1>1. MCInit => UInv
  BY UploadStarts DEF MCInit
<1>2. [MCNext]_<<vars, viewerVars, part>> => [Next]_vars
  BY DEF MCNext
<1> QED BY <1>1, <1>2, StepSettles, SettledHolds, PTL DEF MCSpec

-----------------------------------------------------------------------------
(* A viewer at work: its dialog is open, or it loads an image. *)
Active(v) == dlg[v] = "open" \/ \E f \in Listed : <<v, f>> \in loads

(* A viewer at work that had the page to itself still has it. *)
HasThePage(v) ==
  /\ \A l \in loads : l = <<v, images[currImg]>>
  /\ keys \in {0, v}
  /\ loads # {} => lock
  /\ \A w \in Viewer!Viewers : dlg[w] = "open" => w = v
  /\ dlg[v] = "open" /\ loads = {} => shownImg[v] = images[currImg]
  /\ dlg[v] = "open" => ssImage[2] = shownImg[v]

Alone == \A v \in Viewer!Viewers : v \notin astray /\ Active(v) => HasThePage(v)

ClosedOK == \A l \in loads : dlg[l[1]] = "closed" => l[1] \in astray

(* The row that "Select" will look for is one of the pane's, so far. *)
RowOK == ssImage[1] <= generation

VInv ==
  /\ Viewer!ViewerTypeOK /\ Viewer!LockHasLoad /\ Viewer!KeysOfOpenViewer
  /\ Alone /\ ClosedOK /\ RowOK

-----------------------------------------------------------------------------
(* What ViewerAssumption says of the images. *)
LEMMA ViewerConstants ==
  /\ 0 \notin Viewer!Viewers /\ 0 \notin Listed
  /\ \A i \in DOMAIN images : images[i] \in Listed
  /\ 1 \in DOMAIN images /\ Len(images) \in DOMAIN images
  /\ DOMAIN images = 1..Len(images) /\ Len(images) \in Nat
<1>1. images \in Seq(Listed) /\ images # <<>> /\ MaxViews \in Nat
  BY ViewerAssumption
<1>2. Len(images) \in Nat /\ Len(images) > 0 /\ DOMAIN images = 1..Len(images)
  BY <1>1
<1> QED BY <1>1, <1>2, ViewerAssumption DEF Viewer!Viewers

(* "Next" and "Previous" stay in the list. *)
LEMMA NeighboursAreImages ==
  Viewer!ViewerTypeOK => Viewer!NextFunc \in DOMAIN images /\ Viewer!PrevFunc \in DOMAIN images
BY ViewerConstants DEF Viewer!ViewerTypeOK, Viewer!NextFunc, Viewer!PrevFunc

(* A load is of a viewer and a listed file. *)
LEMMA ShotsAreImages ==
  \A l \in Viewer!Shots : /\ l = <<l[1], l[2]>> /\ l[1] \in Viewer!Viewers
                          /\ l[2] \in Listed
BY ViewerConstants DEF Viewer!Shots

(* What a viewer that shows or loads image i of the list does. *)
LEMMA ShowsTyped ==
  ASSUME Viewer!ViewerTypeOK, NEW v \in Viewer!Viewers, NEW i \in DOMAIN images,
         Viewer!ShowImage(v, images[i])
  PROVE  /\ dlg' \in [Viewer!Viewers -> {"none", "open", "closed"}]
         /\ shownImg' \in [Viewer!Viewers -> Listed \cup {0}]
         /\ lock' \in BOOLEAN /\ (lock' => loads' # {})
         /\ loads' \subseteq Viewer!Shots /\ cached' \subseteq Viewer!Shots
         /\ ssImage' \in (1..Viewer!MaxGeneration) \X (Listed \cup {0})
         /\ ssImage' = ssImage \/ ssImage'[1] = generation
<1>1. images[i] \in Listed /\ <<v, images[i]>> \in Viewer!Shots
  BY ViewerConstants DEF Viewer!Shots
<1>2. CASE <<v, images[i]>> \in cached
  <2>1. Viewer!Loaded(v, images[i], loads, cached)
    BY <1>2 DEF Viewer!ShowImage
  <2> QED BY <1>1, <2>1 DEF Viewer!Loaded, Viewer!ViewerTypeOK, Viewer!Shown, Viewer!Row
<1>3. CASE <<v, images[i]>> \notin cached
  BY <1>1, <1>3 DEF Viewer!ShowImage, Viewer!ViewerTypeOK
<1> QED BY <1>2, <1>3

(* A new viewer has the page to itself, or all at work are astray. *)
LEMMA ViewImageKeeps ==
  ASSUME VInv, NEW v \in Viewer!Viewers, NEW f \in Listed, Viewer!ViewImage(v, f)
  PROVE  VInv'
<1>0. Viewer!ViewerTypeOK /\ Viewer!LockHasLoad
  BY DEF VInv
<1>1. PICK i \in DOMAIN images : images[i] = f /\ currImg' = i
  BY DEF Viewer!ViewImage, Viewer!IndexOf
<1>2. /\ \A w \in Viewer!Viewers : dlg[w] # "open"
      /\ v \notin Viewer!Started /\ keys' = 0
      /\ Viewer!ShowImage(v, f)
      /\ UNCHANGED <<generation, timer, selected>>
  BY DEF Viewer!ViewImage, Viewer!Open, Viewer!rowVars
<1>3. astray' = astray \cup IF loads # {} THEN Viewer!Started \cup {v} ELSE {}
  BY DEF Viewer!ViewImage
<1>4. dlg[v] = "none" /\ Viewer!Started \subseteq Viewer!Viewers
  BY <1>0, <1>2 DEF Viewer!Started, Viewer!ViewerTypeOK
<1>5. Viewer!ViewerTypeOK' /\ Viewer!LockHasLoad'
  BY <1>0, <1>1, <1>2, <1>3, <1>4, ShowsTyped DEF Viewer!ViewerTypeOK, Viewer!LockHasLoad
<1>6. Viewer!KeysOfOpenViewer'
  BY <1>2 DEF Viewer!KeysOfOpenViewer
<1>7. \/ /\ loads' = loads \cup {<<v, f>>} /\ lock' = TRUE
         /\ UNCHANGED <<dlg, shownImg>>
      \/ /\ loads' = loads /\ lock' = FALSE /\ ssImage' = <<generation, f>>
         /\ dlg' = [dlg EXCEPT ![v] = "open"] /\ shownImg' = [shownImg EXCEPT ![v] = f]
  BY <1>2, <1>4 DEF Viewer!ShowImage, Viewer!Loaded, Viewer!Shown, Viewer!Row
<1>8. \A w \in Viewer!Viewers : dlg'[w] = "open" => w = v
  BY <1>0, <1>2, <1>7 DEF Viewer!ViewerTypeOK
<1>9. \A l \in loads' : l \in loads \/ l = <<v, f>>
  BY <1>7
<1>10. ASSUME NEW w \in Viewer!Viewers, w \notin astray', Active(w)' PROVE HasThePage(w)'
  <2>1. \A x \in Viewer!Viewers, g \in Listed : <<x, g>> \in loads => x \in Viewer!Started
    BY DEF Viewer!Started
  <2>2. loads = {}
    <3>1. SUFFICES ASSUME loads # {} PROVE FALSE
      OBVIOUS
    <3>2. w \notin Viewer!Started /\ w # v
      BY <1>3, <1>10, <3>1
    <3>3. \E g \in Listed : <<w, g>> \in loads'
      BY <1>8, <1>10, <3>2 DEF Active
    <3> QED BY <1>9, <2>1, <3>2, <3>3
  <2>3. w = v
    BY <1>8, <1>9, <1>10, <2>2 DEF Active
  <2>4. shownImg \in [Viewer!Viewers -> Listed \cup {0}]
    BY <1>0 DEF Viewer!ViewerTypeOK
  <2>5. \A l \in loads' : l = <<v, images[currImg']>>
    BY <1>1, <1>9, <2>2
  <2>6. loads' # {} => lock'
    BY <1>7, <2>2
  <2>7. loads' = {} => shownImg'[v] = images[currImg']
    BY <1>1, <1>7, <2>4
  <2>8. dlg'[v] = "open" => ssImage'[2] = shownImg'[v]
    BY <1>4, <1>7, <2>4
  <2> QED BY <1>2, <1>8, <2>3, <2>5, <2>6, <2>7, <2>8 DEF HasThePage
<1>11. ClosedOK'
  <2>1. \A w \in Viewer!Viewers : dlg'[w] = "closed" => dlg[w] = "closed"
    BY <1>0, <1>7 DEF Viewer!ViewerTypeOK
  <2>2. dlg'[v] # "closed"
    BY <1>0, <1>4, <1>7 DEF Viewer!ViewerTypeOK
  <2>3. \A l \in loads : l[1] \in Viewer!Viewers
    BY <1>0, ShotsAreImages DEF Viewer!ViewerTypeOK
  <2> QED BY <1>3, <1>9, <2>1, <2>2, <2>3 DEF ClosedOK, VInv
<1>12. RowOK'
  BY <1>0, <1>1, <1>2, ShowsTyped DEF VInv, RowOK, Viewer!ViewerTypeOK
<1> QED BY <1>5, <1>6, <1>10, <1>11, <1>12 DEF VInv, Alone

(* An image loads or fails: a viewer that is alone was waiting for it. *)
LEMMA AnswerKeeps ==
  ASSUME VInv, NEW v \in Viewer!Viewers, NEW f \in Listed,
         Viewer!ImageLoaded(v, f) \/ Viewer!ImageFails(v, f)
  PROVE  VInv'
<1>0. Viewer!ViewerTypeOK /\ <<v, f>> \in loads
  BY DEF VInv, Viewer!ImageLoaded, Viewer!ImageFails
<1>1. loads' = loads \ {<<v, f>>} /\ lock' = FALSE /\ UNCHANGED currImg
  BY DEF Viewer!ImageLoaded, Viewer!ImageFails, Viewer!Loaded, Viewer!Unlocked
<1>2. ASSUME NEW w \in Viewer!Viewers, w \notin astray, w # v PROVE ~ Active(w)
  <2>1. <<v, f>> # <<w, images[currImg]>>
    BY <1>2
  <2> QED BY <1>0, <1>2, <2>1 DEF VInv, Alone, HasThePage
<1>3. CASE Viewer!ImageLoaded(v, f)
  <2>1. /\ cached' = cached \cup {<<v, f>>} /\ keys' = v
        /\ dlg' = [dlg EXCEPT ![v] = Viewer!Shown(@)]
        /\ shownImg' = [shownImg EXCEPT ![v] = f]
        /\ ssImage' = <<generation, f>>
        /\ UNCHANGED <<generation, timer, selected, astray>>
    BY <1>3 DEF Viewer!ImageLoaded, Viewer!Loaded, Viewer!Row, Viewer!rowVars
  <2>2. /\ dlg' \in [Viewer!Viewers -> {"none", "open", "closed"}]
        /\ \A w \in Viewer!Viewers : w # v => dlg'[w] = dlg[w]
        /\ dlg'[v] = IF dlg[v] = "closed" THEN "closed" ELSE "open"
    BY <1>0, <2>1 DEF Viewer!ViewerTypeOK, Viewer!Shown
  <2>3. Viewer!ViewerTypeOK'
    BY <1>0, <1>1, <2>1, <2>2 DEF Viewer!ViewerTypeOK
  <2>4. Viewer!KeysOfOpenViewer'
    BY <1>0, <2>1, <2>2 DEF Viewer!KeysOfOpenViewer, Viewer!Open, VInv, ClosedOK
  <2>5. ASSUME NEW w \in Viewer!Viewers, w \notin astray', Active(w)' PROVE HasThePage(w)'
    <3>1. w = v
      BY <1>1, <1>2, <2>1, <2>2, <2>5 DEF Active
    <3>2. HasThePage(v)
      BY <1>0, <2>1, <2>5, <3>1 DEF Active, VInv, Alone
    <3>3. loads' = {} /\ f = images[currImg]
      BY <1>0, <1>1, <3>2 DEF HasThePage
    <3>4. shownImg'[v] = f
      BY <1>0, <2>1 DEF Viewer!ViewerTypeOK
    <3>5. \A x \in Viewer!Viewers : dlg'[x] = "open" => x = v
      BY <2>2, <3>2 DEF HasThePage
    <3>6. ssImage'[2] = shownImg'[v]
      BY <2>1, <3>4
    <3> QED BY <1>1, <2>1, <3>1, <3>3, <3>4, <3>5, <3>6 DEF HasThePage
  <2>6. ClosedOK'
    <3>1. \A l \in loads : l[1] \in Viewer!Viewers
      BY <1>0, ShotsAreImages DEF Viewer!ViewerTypeOK
    <3> QED BY <1>1, <2>1, <2>2, <3>1 DEF ClosedOK, VInv
  <2>7. RowOK'
    BY <1>0, <2>1 DEF RowOK, Viewer!ViewerTypeOK
  <2> QED BY <1>1, <2>3, <2>4, <2>5, <2>6, <2>7 DEF VInv, Alone, Viewer!LockHasLoad
<1>4. CASE Viewer!ImageFails(v, f)
  <2>1. /\ keys' = 0 /\ timer' = TRUE /\ astray' = astray \cup {v}
        /\ UNCHANGED <<dlg, shownImg, cached, ssImage, generation, selected>>
    BY <1>4 DEF Viewer!ImageFails
  <2>2. Viewer!ViewerTypeOK'
    BY <1>0, <1>1, <2>1 DEF Viewer!ViewerTypeOK
  <2>3. ASSUME NEW w \in Viewer!Viewers, w \notin astray', Active(w)' PROVE FALSE
    BY <1>1, <1>2, <2>1, <2>3 DEF Active
  <2>4. ClosedOK'
    BY <1>1, <2>1 DEF ClosedOK, VInv
  <2> QED BY <1>1, <2>1, <2>2, <2>3, <2>4
          DEF VInv, Alone, Viewer!LockHasLoad, Viewer!KeysOfOpenViewer, RowOK
<1> QED BY <1>3, <1>4

(* A step to a neighbour, by a click in the dialog or by an arrow key. *)
LEMMA GoToKeeps ==
  ASSUME VInv, NEW v \in Viewer!Viewers, NEW i \in DOMAIN images, Viewer!GoTo(v, i),
         \/ dlg[v] = "open" /\ keys' = 0
         \/ keys = v /\ keys' = keys,
         UNCHANGED <<generation, timer, selected, astray>>
  PROVE  VInv'
<1>0. Viewer!ViewerTypeOK /\ Viewer!LockHasLoad /\ 0 \notin Viewer!Viewers
  BY ViewerConstants DEF VInv
<1>1. dlg[v] = "open" \/ v \in astray
  BY <1>0 DEF VInv, Viewer!KeysOfOpenViewer, Viewer!Open
<1>2. keys' \in {0, v} /\ (keys' = 0 \/ keys' = keys) /\ keys' \in Viewer!Viewers \cup {0}
  OBVIOUS
<1>3. ASSUME NEW w \in Viewer!Viewers, w \notin astray, Active(w)
      PROVE  w = v /\ dlg[v] = "open" /\ HasThePage(v)
  <2>1. HasThePage(w)
    BY <1>3 DEF VInv, Alone
  <2> QED BY <1>0, <1>1, <1>3, <2>1 DEF HasThePage
<1>4. CASE lock
  <2>1. UNCHANGED <<currImg, lock, loads, cached, dlg, shownImg, ssImage>>
    BY <1>4 DEF Viewer!GoTo, Viewer!MayGo
  <2>2. Viewer!ViewerTypeOK' /\ Viewer!LockHasLoad'
    BY <1>0, <1>2, <2>1 DEF Viewer!ViewerTypeOK, Viewer!LockHasLoad
  <2>3. Viewer!KeysOfOpenViewer'
    BY <1>2, <2>1 DEF VInv, Viewer!KeysOfOpenViewer, Viewer!Open
  <2>4. Alone'
    <3>1. ASSUME NEW w \in Viewer!Viewers, w \notin astray', Active(w)'
          PROVE  HasThePage(w)'
      <4>1. w = v /\ HasThePage(v)
        BY <1>3, <2>1, <3>1 DEF Active
      <4> QED BY <1>2, <2>1, <4>1 DEF HasThePage
    <3> QED BY <3>1 DEF Alone
  <2>5. ClosedOK' /\ RowOK'
    BY <2>1 DEF VInv, ClosedOK, RowOK
  <2> QED BY <2>2, <2>3, <2>4, <2>5 DEF VInv
<1>5. CASE ~ lock
  <2>1. currImg' = i /\ Viewer!ShowImage(v, images[i])
    BY <1>5 DEF Viewer!GoTo, Viewer!MayGo, Viewer!ImageAt
  <2>2. Viewer!ViewerTypeOK' /\ Viewer!LockHasLoad'
    BY <1>0, <1>2, <2>1, ShowsTyped DEF Viewer!ViewerTypeOK, Viewer!LockHasLoad
  <2>3. \/ /\ loads' = loads \cup {<<v, images[i]>>} /\ lock' = TRUE
           /\ UNCHANGED <<dlg, shownImg, ssImage>>
        \/ /\ loads' = loads /\ lock' = FALSE /\ ssImage' = <<generation, images[i]>>
           /\ dlg' = [dlg EXCEPT ![v] = Viewer!Shown(@)]
           /\ shownImg' = [shownImg EXCEPT ![v] = images[i]]
    BY <2>1 DEF Viewer!ShowImage, Viewer!Loaded, Viewer!Row
  <2>4. /\ \A w \in Viewer!Viewers : w # v => dlg'[w] = dlg[w]
        /\ dlg[v] = "open" => dlg'[v] = "open"
        /\ dlg'[v] = "closed" => dlg[v] = "closed"
    BY <1>0, <2>3 DEF Viewer!ViewerTypeOK, Viewer!Shown
  <2>5. Viewer!KeysOfOpenViewer'
    BY <1>1, <1>2, <2>4 DEF Viewer!KeysOfOpenViewer, Viewer!Open
  <2>6. \A l \in loads' : l \in loads \/ l = <<v, images[i]>>
    BY <2>3
  <2>7. Alone'
    <3>1. ASSUME NEW w \in Viewer!Viewers, w \notin astray', Active(w)'
          PROVE  HasThePage(w)'
      <4>1. w = v \/ Active(w)
        BY <2>4, <2>6, <3>1 DEF Active
      <4>2. dlg[v] = "open"
        BY <1>1, <1>3, <3>1, <4>1
      <4>3. w = v /\ HasThePage(v)
        BY <1>3, <3>1, <4>1, <4>2 DEF Active
      <4>4. loads = {}
        BY <1>5, <4>3 DEF HasThePage
      <4>5. \A x \in Viewer!Viewers : dlg'[x] = "open" => x = v
        BY <2>4, <4>3 DEF HasThePage
      <4>6. loads' # {} => lock'
        BY <2>3, <4>4
      <4>7. loads' = {} => shownImg'[v] = images[i]
        BY <1>0, <2>3 DEF Viewer!ViewerTypeOK
      <4>8. ssImage'[2] = shownImg'[v]
        BY <1>0, <2>3, <4>2, <4>3 DEF Viewer!ViewerTypeOK, HasThePage
      <4> QED BY <1>2, <2>1, <2>6, <4>3, <4>4, <4>5, <4>6, <4>7, <4>8 DEF HasThePage
    <3> QED BY <3>1 DEF Alone
  <2>8. ClosedOK'
    <3>1. \A l \in loads : l[1] \in Viewer!Viewers
      BY <1>0, ShotsAreImages DEF Viewer!ViewerTypeOK
    <3> QED BY <1>1, <2>4, <2>6, <3>1 DEF VInv, ClosedOK
  <2>9. RowOK'
    BY <1>0, <2>1, ShowsTyped DEF VInv, RowOK, Viewer!ViewerTypeOK
  <2> QED BY <2>2, <2>5, <2>7, <2>8, <2>9 DEF VInv
<1> QED BY <1>4, <1>5

(* Closing a viewer, with or without a selection. *)
LEMMA GoneKeeps ==
  ASSUME VInv, NEW v \in Viewer!Viewers, Viewer!Top(v), Viewer!Gone(v),
         selected' \in Listed \cup {0}
  PROVE  VInv'
<1>0. Viewer!ViewerTypeOK /\ Viewer!LockHasLoad
  BY DEF VInv
<1>1. /\ dlg' = [dlg EXCEPT ![v] = "closed"] /\ keys' = 0
      /\ astray' = astray \cup IF \E f \in Listed : <<v, f>> \in loads THEN {v} ELSE {}
      /\ UNCHANGED <<shownImg, currImg, lock, loads, cached, ssImage, generation, timer>>
  BY DEF Viewer!Gone, Viewer!KeysAfterClose
<1>2. Viewer!ViewerTypeOK' /\ Viewer!LockHasLoad'
  BY <1>0, <1>1 DEF Viewer!ViewerTypeOK, Viewer!LockHasLoad
<1>3. \A w \in Viewer!Viewers : dlg'[w] = IF w = v THEN "closed" ELSE dlg[w]
  BY <1>0, <1>1 DEF Viewer!ViewerTypeOK
<1>4. ASSUME NEW w \in Viewer!Viewers, w \notin astray', Active(w)' PROVE HasThePage(w)'
  <2>1. w # v
    BY <1>1, <1>3, <1>4 DEF Active
  <2>2. HasThePage(w)
    BY <1>1, <1>3, <1>4, <2>1 DEF VInv, Alone, Active
  <2>3. dlg[v] = "open"
    BY DEF Viewer!Top, Viewer!Open
  <2> QED BY <2>1, <2>2, <2>3 DEF HasThePage
<1>5. ClosedOK'
  <2>1. \A l \in loads : l = <<l[1], l[2]>> /\ l[1] \in Viewer!Viewers /\ l[2] \in Listed
    BY <1>0, ShotsAreImages DEF Viewer!ViewerTypeOK
  <2> QED BY <1>1, <1>3, <2>1 DEF VInv, ClosedOK
<1> QED BY <1>1, <1>2, <1>4, <1>5 DEF VInv, Alone, Viewer!KeysOfOpenViewer, RowOK

(* Every step keeps the invariant. *)
LEMMA ViewerStepKeeps == VInv /\ [Viewer!Next]_viewerVars => VInv'
<1> SUFFICES ASSUME VInv, [Viewer!Next]_viewerVars PROVE VInv'
  OBVIOUS
<1>0. Viewer!ViewerTypeOK
  BY DEF VInv
<1>1. CASE Viewer!Answered
  BY <1>1, AnswerKeeps DEF Viewer!Answered
<1>2. CASE UNCHANGED <<dlg, shownImg, currImg, lock, loads, cached, ssImage, astray>>
           /\ keys' \in {0, keys}
           /\ generation' \in generation..Viewer!MaxGeneration /\ timer' \in BOOLEAN
           /\ selected' \in Listed \cup {0}
  <2>1. Viewer!ViewerTypeOK' /\ Viewer!LockHasLoad' /\ ClosedOK'
    BY <1>2 DEF VInv, Viewer!ViewerTypeOK, Viewer!LockHasLoad, ClosedOK, Viewer!MaxGeneration
  <2>2. Viewer!KeysOfOpenViewer'
    BY <1>2 DEF VInv, Viewer!KeysOfOpenViewer, Viewer!Open
  <2>3. Alone'
    <3>1. ASSUME NEW w \in Viewer!Viewers, w \notin astray', Active(w)'
          PROVE  HasThePage(w)'
      <4>1. HasThePage(w)
        BY <1>2, <3>1 DEF VInv, Alone, Active
      <4> QED BY <1>2, <4>1 DEF HasThePage
    <3> QED BY <3>1 DEF Alone
  <2>4. RowOK'
    BY <1>0, <1>2 DEF VInv, RowOK, Viewer!ViewerTypeOK, Viewer!MaxGeneration
  <2> QED BY <2>1, <2>2, <2>3, <2>4 DEF VInv
<1>3. CASE Viewer!FilesShown \/ Viewer!Refreshed
  <2>1. generation \in 1..Viewer!MaxGeneration /\ Viewer!MaxGeneration = 2
    BY <1>0 DEF Viewer!ViewerTypeOK, Viewer!MaxGeneration
  <2>2. generation' \in generation..Viewer!MaxGeneration /\ keys' \in {0, keys}
    BY <1>3, <2>1 DEF Viewer!FilesShown, Viewer!Refreshed
  <2>3. timer' \in BOOLEAN /\ selected' \in Listed \cup {0}
    <3>1. timer' = FALSE \/ timer' = TRUE
      BY <1>3, Zenon DEF Viewer!FilesShown, Viewer!Refreshed
    <3> QED BY <1>0, <1>3, <3>1 DEF Viewer!FilesShown, Viewer!Refreshed, Viewer!ViewerTypeOK
  <2>4. UNCHANGED <<dlg, shownImg, currImg, lock, loads, cached, ssImage, astray>>
    BY <1>3 DEF Viewer!FilesShown, Viewer!Refreshed
  <2> QED BY <1>2, <2>2, <2>3, <2>4
<1>4. ASSUME NEW v \in Viewer!Viewers, NEW f \in Listed, Viewer!ViewImage(v, f) PROVE VInv'
  BY <1>4, ViewImageKeeps
<1>5. ASSUME NEW v \in Viewer!Viewers, NEW i \in DOMAIN images,
             Viewer!ClickGo(v, i) \/ Viewer!PressArrow(v, i)
      PROVE  VInv'
  <2>1. Viewer!GoTo(v, i) /\ UNCHANGED <<generation, timer, selected, astray>>
    BY <1>5 DEF Viewer!ClickGo, Viewer!PressArrow, Viewer!rowVars
  <2>2. \/ dlg[v] = "open" /\ keys' = 0
        \/ keys = v /\ keys' = keys
    BY <1>5 DEF Viewer!ClickGo, Viewer!PressArrow, Viewer!Top, Viewer!Open
  <2> QED BY <2>1, <2>2, GoToKeeps
<1>6. ASSUME NEW v \in Viewer!Viewers, Viewer!Close(v) \/ Viewer!Select(v) PROVE VInv'
  BY <1>0, <1>6, GoneKeeps DEF Viewer!Close, Viewer!Select, Viewer!ViewerTypeOK
<1>7. CASE UNCHANGED viewerVars
  BY <1>0, <1>2, <1>7 DEF viewerVars, Viewer!ViewerTypeOK, Viewer!MaxGeneration
<1> QED BY <1>0, <1>1, <1>3, <1>4, <1>5, <1>6, <1>7, NeighboursAreImages DEF Viewer!Next

(* The page as it loads. *)
LEMMA ViewerStarts == Viewer!Init => VInv
<1> SUFFICES ASSUME Viewer!Init PROVE VInv
  OBVIOUS
<1>1. Viewer!ViewerTypeOK
  <2>1. lock \in BOOLEAN /\ timer \in BOOLEAN
    BY Zenon DEF Viewer!Init
  <2> QED BY <2>1, ViewerConstants DEF Viewer!Init, Viewer!ViewerTypeOK, Viewer!MaxGeneration
<1>2. Viewer!LockHasLoad /\ ClosedOK /\ Viewer!KeysOfOpenViewer /\ RowOK
  BY DEF Viewer!Init, Viewer!LockHasLoad, ClosedOK, Viewer!KeysOfOpenViewer, RowOK
<1>3. \A v \in Viewer!Viewers : ~ Active(v)
  BY DEF Viewer!Init, Active
<1> QED BY <1>1, <1>2, <1>3 DEF VInv, Alone

(* The image, the lock and the arrow keys belong to the viewer that is     *)
(* open, for any images, viewers and order in which they load.             *)
THEOREM ViewerAgreesAlways == MCSpec => []ViewerAgrees
<1>1. MCInit => VInv
  BY ViewerStarts DEF MCInit
<1>2. [MCNext]_<<vars, viewerVars, part>> => [Viewer!Next]_viewerVars
  BY DEF MCNext
<1>3. VInv => ViewerAgrees
  <2>1. VInv => Viewer!ShownIsCurrent
    BY DEF VInv, Alone, Active, HasThePage, Viewer!ShownIsCurrent, Viewer!Open
  <2> QED BY <2>1 DEF VInv, ViewerAgrees
<1> QED BY <1>1, <1>2, <1>3, ViewerStepKeeps, PTL DEF MCSpec

(* "Select" selects the image the viewer shows, unless the pane's rows     *)
(* were replaced or another viewer was at work beside it.                  *)
THEOREM SelectsShownAlways == MCSpec => Viewer!SelectsShown
<1>1. MCInit => VInv
  BY ViewerStarts DEF MCInit
<1>2. [MCNext]_<<vars, viewerVars, part>> => [Viewer!Next]_viewerVars
  BY DEF MCNext
<1> DEFINE Selects == \A v \in Viewer!Viewers :
             Viewer!Select(v) /\ v \notin astray /\ loads = {} /\ generation = 1 =>
               selected' = shownImg[v]
<1>3. VInv => Selects
  <2> SUFFICES ASSUME VInv, NEW v \in Viewer!Viewers, Viewer!Select(v), v \notin astray,
                      generation = 1
               PROVE  selected' = shownImg[v]
    OBVIOUS
  <2>1. dlg[v] = "open"
    BY DEF Viewer!Select, Viewer!Top, Viewer!Open
  <2>2. ssImage[2] = shownImg[v]
    BY <2>1 DEF VInv, Alone, Active, HasThePage
  <2>3. ssImage[1] = generation
    BY DEF VInv, RowOK, Viewer!ViewerTypeOK, Viewer!MaxGeneration
  <2> QED BY <2>2, <2>3 DEF Viewer!Select
<1> QED BY <1>1, <1>2, <1>3, ViewerStepKeeps, PTL DEF MCSpec, Viewer!SelectsShown
=============================================================================
