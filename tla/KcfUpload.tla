----------------------------- MODULE KcfUpload -----------------------------
(***************************************************************************)
(* Uploading by drag and drop in the KCFinder file browser.  Every call of *)
(* initDropUpload makes a closure with a queue of its own and adds its     *)
(* handlers to the files pane and to the folders that exist by then; the   *)
(* removeEventListener calls before that name functions just created and   *)
(* remove nothing, so a drop on the pane is served by every closure made   *)
(* so far.  A closure reads a file (FileReader), posts it (XMLHttpRequest) *)
(* and, when its queue is empty, starts an interval that refreshes the     *)
(* pane.  Reads, requests and intervals of the closures interleave with    *)
(* each other and with the user, who drops files and changes folders.      *)
(***************************************************************************)
EXTENDS Naturals, Sequences, FiniteSets, SequencesExt

CONSTANTS
  Dirs,       \* folders of the tree, all writable
  Root,       \* the folder open when the page loads; the others are below it
  MaxFiles,   \* bound: files dropped in one behaviour
  MaxInst,    \* bound: calls of initDropUpload in one behaviour
  MaxUploads  \* bound: uploads asked for (a drop that two closures hear is two)

ASSUME UploadAssumption ==
  Root \in Dirs /\ {MaxFiles, MaxInst, MaxUploads} \subseteq Nat \ {0}

Files == 1..MaxFiles
Insts == 1..MaxInst
None == "none"
Upload == [file : Files, to : Dirs]

VARIABLES
  dir,           \* _.dir
  visible,       \* folders whose node is in the tree
  inst,          \* number of closures
  listens,       \* folders whose node has the drop handler of a closure
  thisTargetDir, \* of every dropped file; None before the drop
  dropped,       \* number of files dropped so far
  asked,         \* number of uploads asked for so far
  uploadQueue, uploadInProgress, currentFile,   \* of every closure
  reading,       \* files a closure's readers are busy with
  sending,       \* requests of a closure without an answer yet
  loops,         \* intervals of a closure that still run
  stored,        \* what the server keeps: <<closure, file>> per folder
  shown,         \* what the files pane lists
  faded,         \* fadeFiles greyed the pane
  failed         \* (history) closures one of whose requests got no answer

vars == <<dir, visible, inst, listens, thisTargetDir, dropped, asked,
          uploadQueue, uploadInProgress, currentFile, reading, sending, loops, stored,
          shown, faded, failed>>
pageVars == <<dir, visible, inst, listens>>
dropVars == <<thisTargetDir, dropped, asked>>
closureVars == <<uploadQueue, uploadInProgress, currentFile, reading, loops>>

UploadTypeOK ==
  /\ dir \in Dirs /\ visible \subseteq Dirs /\ inst \in Insts
  /\ listens \in [Insts -> SUBSET Dirs]
  /\ thisTargetDir \in [Files -> Dirs \cup {None}] 
  /\ dropped \in 0..MaxFiles /\ asked \in 0..MaxUploads
  /\ uploadQueue \in [Insts -> Seq(Files)]
  /\ uploadInProgress \in [Insts -> BOOLEAN]
  /\ currentFile \in [Insts -> Files \cup {0}]
  /\ reading \in [Insts -> SUBSET Upload] /\ loops \in [Insts -> 0..MaxFiles]
  /\ sending \in [Insts -> SUBSET Upload]
  /\ stored \in [Dirs -> SUBSET (Insts \X Files)]
  /\ shown \subseteq Insts \X Files /\ faded \in BOOLEAN
  /\ failed \in [Insts -> BOOLEAN]

Init ==
  /\ dir = Root /\ visible = {Root} /\ inst = 1
  /\ listens = [i \in Insts |-> IF i = 1 THEN {Root} ELSE {}]
  /\ thisTargetDir = [f \in Files |-> None] /\ dropped = 0 /\ asked = 0
  /\ uploadQueue = [i \in Insts |-> <<>>]
  /\ uploadInProgress = [i \in Insts |-> FALSE]
  /\ currentFile = [i \in Insts |-> 0]
  /\ reading = [i \in Insts |-> {}] /\ sending = [i \in Insts |-> {}]
  /\ loops = [i \in Insts |-> 0]
  /\ stored = [d \in Dirs |-> {}] /\ shown = {} /\ faded = FALSE
  /\ failed = [i \in Insts |-> FALSE]

-----------------------------------------------------------------------------
(* A reader made for file f: the folder goes with the file. *)
ReaderMutant(f, target) == [file |-> f, to |-> dir]
Reader(f, target) == [file |-> f, to |-> target[f]]

(* The intervals when the closures I found nothing to do. *)
ArmedMutant(I) == loops
Armed(I) == [i \in Insts |-> IF i \in I THEN loops[i] + 1 ELSE loops[i]]

(* The closures among I that are free and have a file to read. *)
Taking(I, q) == {i \in I : q[i] # <<>>}

FlagDown(i) == [uploadInProgress EXCEPT ![i] = FALSE]

(* processUploadQueue of the closures I, whose queues are q, whose flags   *)
(* are busy and whose readers are at work on r: a busy closure returns, an *)
(* empty queue starts the interval, else the first file is read.           *)
Process(I, q, busy, r, target) ==
  LET free == {i \in I : ~busy[i]}
      taking == Taking(free, q)
  IN /\ uploadInProgress' = busy
     /\ uploadQueue' = [i \in Insts |-> IF i \in taking THEN Tail(q[i]) ELSE q[i]]
     /\ currentFile' = [i \in Insts |->
                          IF i \in taking THEN Head(q[i]) ELSE currentFile[i]]
     /\ reading' = [i \in Insts |->
          IF i \in taking THEN r[i] \cup {Reader(Head(q[i]), target)} ELSE r[i]]
     /\ loops' = Armed(free \ taking)

(* A drop of n files that the closures I hear, for the folder d. *)
Drop(I, d, n) ==
  LET new == [k \in 1..n |-> dropped + k]
      target == [f \in Files |-> IF f \in ToSet(new) THEN d ELSE thisTargetDir[f]]
  IN /\ dropped + n <= MaxFiles /\ I # {}
     /\ asked + n * Cardinality(I) <= MaxUploads
     /\ dropped' = dropped + n
     /\ asked' = asked + n * Cardinality(I)
     /\ thisTargetDir' = target
     /\ Process(I,
                [i \in Insts |-> IF i \in I THEN uploadQueue[i] \o new
                                            ELSE uploadQueue[i]],
                uploadInProgress, reading, target)
     /\ UNCHANGED <<pageVars, sending, stored, shown, faded, failed>>

FilesDrop(n) == Drop(1..inst, dir, n)
FolderDrop(d, n) == Drop({i \in 1..inst : d \in listens[i]}, d, n)

(* A new closure, after new folder nodes (an expanded or a new folder) or  *)
(* the same ones (a renamed folder).                                       *)
InitDropUpload(D) ==
  /\ inst < MaxInst
  /\ visible' = visible \cup D
  /\ inst' = inst + 1
  /\ listens' = [listens EXCEPT ![inst + 1] = visible \cup D]
  /\ UNCHANGED <<dir, dropVars, closureVars, sending, stored,
                 shown, faded, failed>>

(* The user opens a folder: its files are requested and shown. *)
ChangeDir(d) ==
  /\ d \in visible /\ d # dir
  /\ dir' = d /\ shown' = stored[d] /\ faded' = FALSE
  /\ UNCHANGED <<visible, inst, listens, dropVars, closureVars,
                 sending, stored, failed>>

-----------------------------------------------------------------------------
ReaderOnload(i, u) ==
  /\ u \in reading[i]
  /\ reading' = [reading EXCEPT ![i] = @ \ {u}]
  /\ uploadInProgress' = [uploadInProgress EXCEPT ![i] = TRUE]
  /\ sending' = [sending EXCEPT ![i] = @ \cup {u}]
  /\ UNCHANGED <<pageVars, dropVars, uploadQueue, currentFile,
                 loops, stored, shown, faded, failed>>

ReaderOnerror(i, u) ==
  /\ u \in reading[i]
  /\ Process({i}, uploadQueue, FlagDown(i),
             [reading EXCEPT ![i] = @ \ {u}], thisTargetDir)
  /\ UNCHANGED <<pageVars, dropVars, sending, stored, shown,
                 faded, failed>>

(* The answer arrives, whether the server stored the file or refused it. *)
XhrOnload(i, u) ==
  /\ u \in sending[i]
  /\ sending' = [sending EXCEPT ![i] = @ \ {u}]
  /\ stored' \in {stored, [stored EXCEPT ![u.to] = @ \cup {<<i, u.file>>}]}
  /\ faded' = (faded \/ dir = u.to)
  /\ Process({i}, uploadQueue, FlagDown(i), reading, thisTargetDir)
  /\ UNCHANGED <<pageVars, dropVars, shown, failed>>

(* The connection breaks, before the server has the file or after: the     *)
(* code has no handler for it.                                             *)
XhrFails(i, u) ==
  /\ u \in sending[i]
  /\ sending' = [sending EXCEPT ![i] = @ \ {u}]
  /\ stored' \in {stored, [stored EXCEPT ![u.to] = @ \cup {<<i, u.file>>}]}
  /\ failed' = [failed EXCEPT ![i] = TRUE]
  /\ UNCHANGED <<pageVars, dropVars, closureVars, shown, faded>>

(* A tick that goes past the return at its start. *)
MayFinishBusyMutant(i) == loops[i] > 0
MayFinishHereMutant(i) ==
  loops[i] > 0 /\ ~uploadInProgress[i] /\ thisTargetDir[currentFile[i]] = dir
MayFinish(i) == loops[i] > 0 /\ ~uploadInProgress[i]

(* The tick stops the interval, forgets the queue and refreshes the pane   *)
(* when the file read last went to the folder that is open.                *)
Finish(i) ==
  /\ MayFinish(i)
  /\ uploadQueue' = [uploadQueue EXCEPT ![i] = <<>>]
  /\ loops' = [loops EXCEPT ![i] = @ - 1]
  /\ IF thisTargetDir[currentFile[i]] = dir
     THEN shown' = stored[dir] /\ faded' = FALSE
     ELSE UNCHANGED <<shown, faded>>
  /\ UNCHANGED <<pageVars, dropVars, uploadInProgress,
                 currentFile, reading, sending, stored, failed>>

ReadEnds(i) == \E u \in reading[i] : ReaderOnload(i, u) \/ ReaderOnerror(i, u)
RequestEnds(i) == \E u \in sending[i] : XhrOnload(i, u) \/ XhrFails(i, u)

Next ==
  \/ \E n \in 1..2 : FilesDrop(n) \/ \E d \in visible : FolderDrop(d, n)
  \/ \E D \in SUBSET (Dirs \ visible) : InitDropUpload(D)
  \/ \E d \in Dirs : ChangeDir(d)
  \/ \E i \in 1..inst :
       \/ ReadEnds(i)
       \/ RequestEnds(i)
       \/ Finish(i)

(* The browser ends every read, every request and runs every interval. *)
Fairness ==
  \A i \in Insts : /\ WF_vars(ReadEnds(i)) /\ WF_vars(RequestEnds(i))
                   /\ WF_vars(Finish(i))

Spec == Init /\ [][Next]_vars /\ Fairness

-----------------------------------------------------------------------------
(* A file is stored in the folder it was dropped on (or that was open when *)
(* it was dropped on the pane), wherever the user went meanwhile.          *)
StoredWhereDropped ==
  \A d \in Dirs : \A p \in stored[d] : thisTargetDir[p[2]] = d

(* Queued files wait for something that will come back for them: a read, a *)
(* request, or a request that broke (the queue then stays for ever).       *)
NoStrandedFile ==
  \A i \in Insts : uploadQueue[i] # <<>> =>
    reading[i] # {} \/ sending[i] # {} \/ failed[i]

(* The interval empties the queue, and files still in it are lost.  That   *)
(* happens only while a file of the closure is being read (the flag is not *)
(* set before the read ends), never while all its work is on its way.      *)
LossNeedsARead ==
  [][\A i \in Insts :
       uploadQueue[i] # <<>> /\ uploadQueue'[i] = <<>> /\ reading'[i] = reading[i]
         => reading[i] # {}]_vars

Quiet == \A i \in Insts : reading[i] = {} /\ sending[i] = {} /\ loops[i] = 0

(* At rest the pane lists what its folder holds, as long as no request     *)
(* broke and every file dropped so far went to one folder (the refresh     *)
(* looks at the target of the last file only).                             *)
FreshAtRest ==
  Quiet /\ (\A i \in Insts : ~failed[i])
        /\ Cardinality({thisTargetDir[f] : f \in 1..dropped}) <= 1
    => shown = stored[dir] /\ ~faded

(* A closure none of whose requests breaks comes to rest with an empty     *)
(* queue and no interval left.                                             *)
ComesToRest ==
  \A i \in Insts :
    <>[](failed[i] \/ (uploadQueue[i] = <<>> /\ reading[i] = {} /\
                       sending[i] = {} /\ loops[i] = 0))
=============================================================================
