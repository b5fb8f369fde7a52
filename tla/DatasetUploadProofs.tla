------------------------ MODULE DatasetUploadProofs ------------------------
(* Proofs about DatasetUpload for any requests, files, data sets and bounds. *)
EXTENDS DatasetUpload, TLAPS

Attaching == step \in {"attach", "import", "contract", "commit"}
\* The copy is about to become the task.
Importing == step \in {"import", "contract", "commit", "revise"}
Reported(h) == \A d \in h : report[d] # NoUpload
NoneOf(q, h) == \A d \in h : report[d].request # q
Recorded == Requests \ forgotten

\* A document lists its data set, and confirms a contract of it or one that was
\* taken for it; so do revisions.
Fits(c, d) == c.dataset \in {d} \cup adopted
Sound(d) ==
    /\ d.revision # NoRevision => Fits(d.revision.contract, d.revision.dataset)
    /\ d.confirmed # NoContract => Fits(d.confirmed, d.dataset) /\ d.dataset # NoDataset
    /\ d.dataset # NoDataset => d.dataset \in d.history
    /\ d.status = "running" => d.dataset # NoDataset
    /\ Reported(d.history)
DocsOK ==
    /\ Sound(task) /\ Sound(copy) /\ Sound(seen)
    /\ seen # NoView => seen.status = "running"

\* The contract file is there when a document has a data set.
FileOK ==
    contract = NoContract =>
        /\ task.dataset = NoDataset /\ seen.dataset = NoDataset
        /\ step # "contract" => copy.dataset = NoDataset

\* A view brings back at most what the task has, an import keeps all of it.
GrowthOK ==
    /\ seen.history \subseteq task.history
    /\ Importing => task.history \subseteq copy.history

\* The request being imported, and its receipt.
RequestOK ==
    /\ step = "begin" => upload \in Uploads /\ Request \in Requests
    /\ step \notin {"idle", "begin", "revise"} =>
          /\ upload \in Uploads
          /\ Request \in Requests =>
                /\ receipt[Request].status = "processing"
                /\ receipt[Request].payload = upload.payload
    /\ step = "complete" => Request \in Requests

\* What the import has written so far is the upload.
ImportOK ==
    /\ step \in {"contract", "commit"} =>
          copy.dataset # NoDataset /\ copy.status = "data_ready" /\ report[copy.dataset] = upload
    /\ step = "view" =>
          /\ task.dataset # NoDataset
          /\ ~overwritten => task.status = "data_ready" /\ report[task.dataset] = upload
    /\ step = "complete" =>
          /\ copy.dataset # NoDataset
          /\ ~overwritten => /\ task.status = "data_ready"
                             /\ copy.dataset \in task.history
                             /\ report[copy.dataset] = upload

\* No data set of a request is in the task, nor in the document about to
\* become the task, unless a receipt tells of it; a receipt of an import that
\* was interrupted remembers a history without it.
Once(h) ==
    \A d, e \in h :
        /\ report[d].request = report[e].request
        /\ report[d].request \notin {NoRequest} \cup forgotten
        => d = e
Untold(h) == \A q \in Recorded : receipt[q].status = "none" => NoneOf(q, h)
OnceOK ==
    /\ Once(task.history)
    /\ Untold(task.history)
    /\ Importing => Once(copy.history) /\ Untold(copy.history)
    /\ \A q \in Recorded : receipt[q].status = "processing" =>
          Reported(receipt[q].before) /\ NoneOf(q, receipt[q].before)
    /\ Request \in Recorded =>
          /\ Attaching => NoneOf(Request, task.history)
          /\ step = "import" => NoneOf(Request, copy.history)

IInv ==
    /\ TypeOK /\ DocsOK /\ FileOK /\ GrowthOK /\ RequestOK /\ ImportOK /\ OnceOK
    /\ ReceiptIsTrue /\ StartsOnItsData

-----------------------------------------------------------------------------
(* Types.                                                                    *)

\* What an operation makes of a document is a document.
LEMMA TaskTypes ==
    ASSUME NEW d \in Tasks
    PROVE  /\ \A c \in Contracts : [d EXCEPT !.confirmed = c, !.status = "ready"] \in Tasks
           /\ [d EXCEPT !.status = "running", !.current = TRUE] \in Tasks
           /\ [d EXCEPT !.confirmed = NoContract, !.status = "data_ready"] \in Tasks
           /\ [d EXCEPT !.status = "data_ready", !.current = FALSE] \in Tasks
           /\ [d EXCEPT !.stale = FALSE] \in Tasks
           /\ \A r \in Revisions : /\ [d EXCEPT !.revision = r] \in Tasks
                                   /\ [d EXCEPT !.revision = r, !.confirmed = NoContract] \in Tasks
  BY DEF Tasks, DatasetIds

\* An operation that rewrites the contract file does so for a task with data,
\* and makes of its document one that follows the new file.
Rewrites(x) == UpdateContract(x) \/ UpdateSpec(x) \/ AttachAsset(x)
LEMMA Rewriting ==
    ASSUME TypeOK, FileOK, NEW x \in Texts, Rewrites(x)
    PROVE  /\ step = "idle" /\ step' = "revise" /\ task.dataset # NoDataset
           /\ UNCHANGED <<task, report, receipt, upload, seen, run, restarts, forgotten,
                          overwritten>>
           /\ contract' \in Contracts /\ contract'.dataset = contract.dataset
           /\ adopted' = adopted \cup ({contract.dataset} \ {task.dataset})
           /\ copy' \in Tasks
           /\ copy'.revision = [contract |-> contract', dataset |-> task.dataset]
           /\ copy'.confirmed = NoContract
           /\ copy'.dataset = task.dataset /\ copy'.history = task.history
           /\ copy'.status = "running" => task.status = "running"
<1>t. task \in Tasks /\ contract \in Contracts \cup {NoContract}
  BY DEF TypeOK
<1> DEFINE Follows(d) ==
        /\ d.dataset = task.dataset /\ d.history = task.history
        /\ d.status = "running" => task.status = "running"
<1>1. \E d \in Tasks : Rewrite(d, x) /\ Follows(d)
  <2>1. /\ Reopened \in Tasks /\ [Reopened EXCEPT !.stale = FALSE] \in Tasks
        /\ Follows(Reopened) /\ Follows([Reopened EXCEPT !.stale = FALSE]) /\ Follows(task)
    BY <1>t DEF Reopened, Tasks
  <2> HIDE DEF Follows
  <2>2. CASE UpdateContract(x)
    BY <2>1, <2>2 DEF UpdateContract
  <2>3. CASE UpdateSpec(x)
    BY <2>1, <2>3 DEF UpdateSpec
  <2>4. CASE AttachAsset(x)
    BY <1>t, <2>1, <2>4 DEF AttachAsset
  <2> QED BY <2>2, <2>3, <2>4 DEF Rewrites
<1>2. contract \in Contracts /\ task.dataset # NoDataset /\ contract' = [contract EXCEPT !.text = x]
  BY <1>1, <1>t DEF Rewrite, FileOK
<1>3. contract' \in Contracts /\ contract'.dataset = contract.dataset
  BY <1>2 DEF Contracts
<1> DEFINE r == [contract |-> contract', dataset |-> task.dataset]
<1>4. r \in Revisions
  BY <1>3, <1>t DEF Revisions, Tasks
<1>5. \E d \in Tasks : copy' = [d EXCEPT !.revision = r, !.confirmed = NoContract] /\ Follows(d)
  BY <1>1 DEF Rewrite
<1> HIDE DEF r
<1>6. copy' \in Tasks
  BY <1>4, <1>5, TaskTypes
<1>7. /\ copy'.revision = r /\ copy'.confirmed = NoContract
      /\ copy'.dataset = task.dataset /\ copy'.history = task.history
      /\ copy'.status = "running" => task.status = "running"
  BY <1>5 DEF Tasks
<1>8. /\ step = "idle" /\ step' = "revise"
      /\ UNCHANGED <<task, report, receipt, upload, seen, run, restarts, forgotten, overwritten>>
      /\ adopted' = adopted \cup ({contract.dataset} \ {task.dataset})
  BY <1>1 DEF Rewrite, Free
<1> QED BY <1>2, <1>3, <1>6, <1>7, <1>8 DEF r

\* And what a view shows.
LEMMA ShownType == ASSUME NEW d \in Tasks PROVE Shown(d) \in Tasks
  BY DEF Tasks, Shown

\* And what it makes of a receipt is a receipt.
ReceiptMaps == [Requests -> Receipts \cup {NoReceipt}]
LEMMA ReceiptTypes ==
    ASSUME receipt \in ReceiptMaps, NEW q \in Requests
    PROVE  /\ [receipt EXCEPT ![q] = NoReceipt] \in ReceiptMaps
           /\ Unmarked \in ReceiptMaps
           /\ \A x \in DatasetIds : receipt[q] # NoReceipt =>
                 [receipt EXCEPT ![q].status = "completed", ![q].dataset = x] \in ReceiptMaps
           /\ \A p \in Payloads, h \in SUBSET Datasets :
                 [receipt EXCEPT ![q] = [status |-> "processing", payload |-> p,
                                         before |-> h, dataset |-> NoDataset]] \in ReceiptMaps
<1> USE DEF ReceiptMaps
<1>1. /\ [receipt EXCEPT ![q] = NoReceipt] \in ReceiptMaps
      /\ Unmarked \in ReceiptMaps
  BY DEF Unmarked
<1>2. ASSUME NEW x \in DatasetIds, receipt[q] # NoReceipt
      PROVE  [receipt EXCEPT ![q].status = "completed", ![q].dataset = x] \in ReceiptMaps
  <2> DEFINE c == [receipt[q] EXCEPT !.status = "completed", !.dataset = x]
  <2>1. receipt[q] \in Receipts
    BY <1>2
  <2>2. c \in Receipts
    BY <2>1 DEF Receipts
  <2>3. [receipt EXCEPT ![q].status = "completed", ![q].dataset = x] = [receipt EXCEPT ![q] = c]
    OBVIOUS
  <2> HIDE DEF c
  <2> QED BY <2>2, <2>3
<1>3. ASSUME NEW p \in Payloads, NEW h \in SUBSET Datasets
      PROVE  [status |-> "processing", payload |-> p, before |-> h, dataset |-> NoDataset]
                 \in Receipts
  BY DEF Receipts, DatasetIds
<1> QED BY <1>1, <1>2, <1>3

\* It holds at the start.
LEMMA InitStep == Init => IInv
<1> SUFFICES ASSUME Init PROVE IInv
  OBVIOUS
<1>1. TypeOK
  <2>1. NewTask \in Tasks /\ NoDataset \in DatasetIds /\ "none" \in {"none", "active", "ended"}
    BY DEF NewTask, Tasks, DatasetIds
  <2>2. [status |-> "none", contract |-> NoContract, dataset |-> NoDataset] \in Runs
    BY <2>1 DEF Runs
  <2>3. restarts \in 0 .. MaxRestarts
    BY DatasetUploadAssumption DEF Init
  <2> QED
    BY <2>1, <2>2, <2>3 DEF Init, TypeOK, Steps
<1>2. ReceiptIsTrue /\ StartsOnItsData
  BY DEF Init, ReceiptIsTrue, StartsOnItsData, NoReceipt
<1>3. DocsOK /\ FileOK /\ GrowthOK /\ RequestOK /\ ImportOK
  BY DEF Init, DocsOK, FileOK, GrowthOK, RequestOK, ImportOK, Sound, Reported, Importing, NewTask,
       NoView
<1>4. OnceOK
  BY DEF Init, OnceOK, Once, Untold, NoneOf, Recorded, Attaching, Importing, NewTask, NoReceipt
<1> QED BY <1>1, <1>2, <1>3, <1>4 DEF IInv

\* Types are kept by every step: one step per variable.
LEMMA TypeStep == ASSUME TypeOK, RequestOK, DocsOK, FileOK, ImportOK, Next PROVE TypeOK'
<1> USE DEF TypeOK, Next, files, import, histories
<1>1. step' \in Steps
  BY DEF Discard, Recover, Begin, BeginPlain, Outdated, ReadTask, Import, WriteContract,
       Commit, ViewImported, FailImport, Complete, ConfirmContract, StartRun,
       RevokeConfirmation, EndRun, View, ReadView, WriteView, LeaveView, Crash, Steps,
       UpdateContract, UpdateSpec, AttachAsset, Rewrite, Reopened, WriteRevised, FailRevise,
       UpdateSpecAway, Returns
<1>2. upload' \in Uploads \cup {NoUpload}
  BY DEF Discard, Recover, Begin, BeginPlain, Outdated, ReadTask, Import, WriteContract,
       Commit, ViewImported, FailImport, Complete, ConfirmContract, StartRun,
       RevokeConfirmation, EndRun, View, ReadView, WriteView, LeaveView, Crash,
       UpdateContract, UpdateSpec, AttachAsset, Rewrite, Reopened, WriteRevised, FailRevise,
       UpdateSpecAway, Returns
<1>3. report' \in [Datasets -> Uploads \cup {NoUpload}]
  BY DEF Discard, Recover, Begin, BeginPlain, Outdated, ReadTask, Import, WriteContract,
       Commit, ViewImported, FailImport, Complete, ConfirmContract, StartRun,
       RevokeConfirmation, EndRun, View, ReadView, WriteView, LeaveView, Crash,
       UpdateContract, UpdateSpec, AttachAsset, Rewrite, Reopened, WriteRevised, FailRevise,
       UpdateSpecAway, Returns
<1>4. overwritten' \in BOOLEAN
  BY DEF Discard, Recover, Begin, BeginPlain, Outdated, ReadTask, Import, WriteContract,
       Commit, ViewImported, FailImport, Complete, ConfirmContract, StartRun,
       RevokeConfirmation, EndRun, View, ReadView, WriteView, LeaveView, Crash,
       UpdateContract, UpdateSpec, AttachAsset, Rewrite, Reopened, WriteRevised, FailRevise,
       UpdateSpecAway, Returns
<1>5. restarts' \in 0 .. MaxRestarts
  <2>1. CASE Crash
    BY <2>1, DatasetUploadAssumption DEF Crash
  <2>2. CASE ~Crash
    BY <2>2 DEF Discard, Recover, Begin, BeginPlain, Outdated, ReadTask, Import,
         WriteContract, Commit, ViewImported, FailImport, Complete, ConfirmContract, StartRun,
         RevokeConfirmation, EndRun, View, ReadView, WriteView, LeaveView, Crash,
         UpdateContract, UpdateSpec, AttachAsset, Rewrite, Reopened, WriteRevised, FailRevise,
         UpdateSpecAway, Returns
  <2> QED BY <2>1, <2>2
<1>6. forgotten' \subseteq Requests \cup {NoRequest}
  BY DEF Discard, Recover, Begin, BeginPlain, Outdated, ReadTask, Import, WriteContract,
       Commit, ViewImported, FailImport, Complete, ConfirmContract, StartRun,
       RevokeConfirmation, EndRun, View, ReadView, WriteView, LeaveView, Crash, Request,
       RequestOK, Uploads, UpdateContract, UpdateSpec, AttachAsset, Rewrite, Reopened,
       WriteRevised, FailRevise, UpdateSpecAway, Returns
<1>7. contract' \in Contracts \cup {NoContract}
  <2>1. ASSUME NEW x \in Texts, Rewrites(x) PROVE contract' \in Contracts
    BY <2>1, Rewriting
  <2>2. ASSUME NEW x \in Texts, WriteContract(x) PROVE contract' \in Contracts
    BY <2>2 DEF WriteContract, Contracts, ImportOK, Tasks, DatasetIds
  <2>3. ASSUME NEW d \in Datasets, Import(d) PROVE contract' \in Contracts \cup {NoContract}
    <3>1. copy.dataset # NoDataset => contract \in Contracts
      BY <2>3 DEF Import, FileOK
    <3>2. ASSUME NEW x \in Texts, contract \in Contracts
          PROVE  [contract EXCEPT !.text = x] \in Contracts
      BY <3>2 DEF Contracts
    <3>3. \/ contract' = contract
          \/ copy.dataset # NoDataset /\ \E x \in Texts : contract' = [contract EXCEPT !.text = x]
      BY <2>3 DEF Import
    <3> HIDE DEF Next
    <3> QED BY <3>1, <3>2, <3>3
  <2>4. CASE /\ \A x \in Texts : ~Rewrites(x) /\ ~WriteContract(x)
             /\ \A d \in Datasets : ~Import(d)
    BY <2>4 DEF Rewrites, Discard, Recover, Begin, BeginPlain, Outdated, ReadTask, Commit,
         ViewImported, FailImport, Complete, ConfirmContract, StartRun, RevokeConfirmation,
         EndRun, View, ReadView, WriteView, LeaveView, Crash, WriteRevised, FailRevise,
         UpdateSpecAway, Returns
  <2> QED BY <2>1, <2>2, <2>3, <2>4
<1>8. task' \in Tasks
  <2>1. CASE StartRun \/ ConfirmContract \/ RevokeConfirmation
    <3>1. CASE StartRun
      BY <3>1, TaskTypes DEF StartRun
    <3>2. CASE ConfirmContract
      BY <3>2, TaskTypes DEF ConfirmContract, FileOK
    <3>3. CASE RevokeConfirmation
      BY <3>3, TaskTypes DEF RevokeConfirmation
    <3> QED BY <2>1, <3>1, <3>2, <3>3
  <2>2. CASE Commit \/ WriteRevised
    BY <2>2 DEF Commit, WriteRevised
  <2>3. CASE View \/ WriteView
    <3>1. RunEnded(seen) => seen \in Tasks
      BY DEF RunEnded, NoView, NewTask
    <3> QED BY <2>3, <3>1, ShownType DEF View, WriteView
  <2>4. CASE UpdateSpecAway
    <3>1. \E d \in DatasetIds, b \in BOOLEAN :
             task' = [Reopened EXCEPT !.dataset = d, !.confirmed = NoContract, !.stale = b]
      BY <2>4 DEF UpdateSpecAway, Tasks, DatasetIds
    <3> HIDE DEF Next
    <3>2. Reopened \in Tasks
      BY TaskTypes DEF Reopened
    <3> HIDE DEF TypeOK
    <3> QED BY <3>1, <3>2 DEF Tasks, DatasetIds
  <2>5. ASSUME NEW x \in Texts, Rewrites(x) \/ WriteContract(x) PROVE task' \in Tasks
    BY <2>5, Rewriting DEF WriteContract
  <2>6. CASE \/ \E u \in Uploads : Discard(u) \/ Recover(u) \/ Begin(u) \/ BeginPlain(u)
             \/ Outdated \/ ReadTask \/ (\E d \in Datasets : Import(d)) \/ ViewImported
             \/ FailImport \/ Complete \/ EndRun \/ ReadView \/ LeaveView \/ Crash \/ FailRevise
    BY <2>6 DEF Discard, Recover, Begin, BeginPlain, Outdated, ReadTask, Import, ViewImported,
         FailImport, Complete, EndRun, ReadView, LeaveView, Crash, FailRevise
  <2> QED BY <2>1, <2>2, <2>3, <2>4, <2>5, <2>6 DEF Rewrites
<1>9. copy' \in Tasks
  <2>1. ASSUME NEW d \in Datasets, Import(d) PROVE copy' \in Tasks
    <3> DEFINE h == copy.history \cup {d}
    <3>1. \E b \in BOOLEAN :
             copy' = [copy EXCEPT !.history = h, !.dataset = d, !.stale = b,
                                  !.confirmed = NoContract, !.current = FALSE,
                                  !.status = "data_ready"]
      BY <2>1 DEF Import
    <3>2. copy \in Tasks /\ h \in SUBSET Datasets
      BY DEF Tasks
    <3> HIDE DEF TypeOK, Next, h
    <3> QED BY <3>1, <3>2 DEF Tasks, DatasetIds
  <2>2. ASSUME NEW x \in Texts, Rewrites(x) PROVE copy' \in Tasks
    BY <2>2, Rewriting
  <2>3. ASSUME NEW x \in Texts, WriteContract(x) PROVE copy' \in Tasks
    <3>1. [contract |-> contract', dataset |-> copy.dataset] \in Revisions
      BY <2>3 DEF WriteContract, Contracts, Revisions, ImportOK, Tasks, DatasetIds
    <3> QED BY <2>3, <3>1, TaskTypes DEF WriteContract
  <2>4. NewTask \in Tasks
    BY DEF NewTask, Tasks, DatasetIds
  <2>5. CASE /\ \A x \in Texts : ~Rewrites(x) /\ ~WriteContract(x)
             /\ \A d \in Datasets : ~Import(d)
    BY <2>4, <2>5 DEF Rewrites, Discard, Recover, Begin, BeginPlain, Outdated, ReadTask, Commit,
         ViewImported, FailImport, Complete, ConfirmContract, StartRun, RevokeConfirmation,
         EndRun, View, ReadView, WriteView, LeaveView, Crash, WriteRevised, FailRevise,
         UpdateSpecAway, Returns
  <2> QED BY <2>1, <2>2, <2>3, <2>5
<1>10. seen' \in Tasks \cup {NoView}
  BY DEF Discard, Recover, Begin, BeginPlain, Outdated, ReadTask, Import, WriteContract,
       Commit, ViewImported, FailImport, Complete, ConfirmContract, StartRun,
       RevokeConfirmation, EndRun, View, ReadView, WriteView, LeaveView, Crash,
       UpdateContract, UpdateSpec, AttachAsset, Rewrite, Reopened, WriteRevised, FailRevise,
       UpdateSpecAway, Returns
<1>11. run' \in Runs
  <2>1. CASE StartRun
    BY <2>1 DEF StartRun, Runs, Tasks
  <2>2. CASE EndRun \/ Crash
    BY <2>2 DEF EndRun, Crash, Runs
  <2>3. CASE ~(StartRun \/ EndRun \/ Crash)
    BY <2>3 DEF Discard, Recover, Begin, BeginPlain, Outdated, ReadTask, Import,
         WriteContract, Commit, ViewImported, FailImport, Complete, ConfirmContract, StartRun,
         RevokeConfirmation, EndRun, View, ReadView, WriteView, LeaveView, Crash,
         UpdateContract, UpdateSpec, AttachAsset, Rewrite, Reopened, WriteRevised, FailRevise,
         UpdateSpecAway, Returns
  <2> QED BY <2>1, <2>2, <2>3
<1>12. receipt' \in ReceiptMaps
  <2> USE DEF ReceiptMaps
  <2>1. ASSUME NEW u \in Uploads, Discard(u) \/ Recover(u) \/ Begin(u)
        PROVE  receipt' \in ReceiptMaps
    <3>1. u.payload \in Payloads /\ task.history \in SUBSET Datasets /\ task.dataset \in DatasetIds
      BY DEF Uploads, Tasks
    <3>2. receipt[u.request].status = "processing" => receipt[u.request] # NoReceipt
      BY DEF NoReceipt
    <3> HIDE DEF ReceiptMaps
    <3>3. receipt \in ReceiptMaps
      BY DEF ReceiptMaps
    <3>4. CASE Discard(u)
      BY <3>3, <3>4, ReceiptTypes DEF Discard
    <3>5. CASE Recover(u)
      BY <3>1, <3>2, <3>3, <3>5, ReceiptTypes DEF Recover, Interrupted
    <3>6. CASE Begin(u)
      BY <3>1, <3>3, <3>6, ReceiptTypes DEF Begin
    <3> QED BY <2>1, <3>4, <3>5, <3>6
  <2>2. Unmarked \in ReceiptMaps
    BY DEF Unmarked
  <2>3. CASE Complete
    <3>1. copy.dataset \in DatasetIds
      BY DEF Tasks
    <3>2. receipt[Request] # NoReceipt /\ Request \in Requests
      BY <2>3 DEF Complete, RequestOK, NoReceipt
    <3> HIDE DEF ReceiptMaps
    <3>3. receipt \in ReceiptMaps
      BY DEF ReceiptMaps
    <3> QED BY <2>2, <2>3, <3>1, <3>2, <3>3, ReceiptTypes DEF Complete
  <2>4. CASE FailImport
    BY <2>2, <2>4 DEF FailImport
  <2>5. CASE /\ ~(Complete \/ FailImport)
             /\ \A u \in Uploads : ~(Discard(u) \/ Recover(u) \/ Begin(u))
    BY <2>5 DEF Discard, Recover, Begin, BeginPlain, Outdated, ReadTask, Import,
         WriteContract, Commit, ViewImported, FailImport, Complete, ConfirmContract, StartRun,
         RevokeConfirmation, EndRun, View, ReadView, WriteView, LeaveView, Crash,
         UpdateContract, UpdateSpec, AttachAsset, Rewrite, Reopened, WriteRevised, FailRevise,
         UpdateSpecAway, Returns
  <2> QED BY <2>1, <2>3, <2>4, <2>5
<1>13. adopted' \subseteq Datasets
  <2>1. ASSUME NEW x \in Texts, Rewrites(x) PROVE adopted' \subseteq Datasets
    BY <2>1, Rewriting DEF Contracts
  <2>2. CASE \A x \in Texts : ~Rewrites(x)
    BY <2>2 DEF Rewrites, Discard, Recover, Begin, BeginPlain, Outdated, ReadTask, Import,
         WriteContract, Commit, ViewImported, FailImport, Complete, ConfirmContract, StartRun,
         RevokeConfirmation, EndRun, View, ReadView, WriteView, LeaveView, Crash, WriteRevised,
         FailRevise, UpdateSpecAway, Returns
  <2> QED BY <2>1, <2>2
<1> QED
  BY <1>1, <1>2, <1>3, <1>4, <1>5, <1>6, <1>7, <1>8, <1>9, <1>10, <1>11, <1>12, <1>13
  DEF ReceiptMaps

-----------------------------------------------------------------------------
(* The parts of the invariant, one by one.                                   *)

\* Reports are written once, for a data set no document lists yet.
LEMMA ReportsStay ==
    ASSUME IInv, Next
    PROVE  \A d \in Datasets : report[d] # NoUpload => report'[d] = report[d]
<1>1. CASE \E d \in Datasets : Import(d)
  BY <1>1 DEF Import, IInv, TypeOK
<1>2. CASE ~\E d \in Datasets : Import(d)
  BY <1>2 DEF IInv, Next, files, import, histories, Discard, Recover, Begin, BeginPlain,
       Outdated, ReadTask, Import, WriteContract, Commit, ViewImported, FailImport, Complete,
       ConfirmContract, StartRun, RevokeConfirmation, EndRun, View, ReadView, WriteView,
       LeaveView, Crash, UpdateContract, UpdateSpec, AttachAsset, Rewrite, Reopened,
       WriteRevised, FailRevise, UpdateSpecAway, Returns
<1> QED BY <1>1, <1>2

\* Documents stay sound: they are made by Import, StartRun and confirmation, and
\* copied otherwise.
LEMMA DocsStep == ASSUME IInv, Next PROVE DocsOK'
<1> USE DEF IInv, files, import, histories
<1>1. \A d \in Tasks \cup {NoView} : Sound(d) => Sound(d)'
  <2>1. \A d \in Tasks \cup {NoView} : d.history \subseteq Datasets
    BY DEF Tasks, NoView, NewTask
  <2>2. adopted \subseteq adopted'
    <3>1. ASSUME NEW x \in Texts, Rewrites(x) PROVE adopted \subseteq adopted'
      BY <3>1, Rewriting
    <3>2. CASE \A x \in Texts : ~Rewrites(x)
      BY <3>2 DEF Next, Rewrites, Discard, Recover, Begin, BeginPlain, Outdated, ReadTask,
           Import, WriteContract, Commit, ViewImported, FailImport, Complete, ConfirmContract,
           StartRun, RevokeConfirmation, EndRun, View, ReadView, WriteView, LeaveView, Crash,
           WriteRevised, FailRevise, UpdateSpecAway, Returns
    <3> QED BY <3>1, <3>2
  <2> QED BY <2>1, <2>2, ReportsStay DEF Sound, Fits, Reported
<1>2. task \in Tasks /\ copy \in Tasks /\ seen \in Tasks \cup {NoView}
  BY DEF TypeOK
<1>3. Sound(task)' /\ Sound(copy)' /\ Sound(seen)'
  <2>1. ASSUME NEW d \in Datasets, Import(d) PROVE Sound(copy)'
    <3>1. upload \in Uploads /\ report'[d] = upload /\ upload # NoUpload
      BY <2>1, DatasetUploadAssumption DEF Import, RequestOK, TypeOK
    <3>2. PICK b \in BOOLEAN :
             copy' = [copy EXCEPT !.history = @ \cup {d}, !.dataset = d, !.stale = b,
                                  !.confirmed = NoContract, !.current = FALSE,
                                  !.status = "data_ready"]
      BY <2>1 DEF Import
    <3>3. /\ copy'.history = copy.history \cup {d} /\ copy'.dataset = d
          /\ copy'.revision = copy.revision /\ copy'.status = "data_ready"
          /\ copy'.confirmed = NoContract
      BY <1>2, <3>2 DEF Tasks
    <3>4. \A x \in copy.history : report'[x] # NoUpload
      BY <1>1, <1>2 DEF DocsOK, Sound, Reported
    <3>5. adopted' = adopted
      BY <2>1 DEF Import
    <3> QED BY <3>1, <3>3, <3>4, <3>5 DEF DocsOK, Sound, Fits, Reported
  <2>2. ASSUME NEW d \in Datasets, Import(d) PROVE Sound(task)' /\ Sound(seen)'
    <3>1. UNCHANGED <<task, seen>>
      BY <2>2 DEF Import
    <3>2. Sound(task) /\ Sound(seen)
      BY DEF DocsOK
    <3>3. ASSUME Sound(task)', Sound(seen)' PROVE Sound(task)' /\ Sound(seen)'
      BY <3>3
    <3> QED BY <1>1, <1>2, <3>1, <3>2 DEF Sound, Fits, Reported
  <2>3. CASE StartRun \/ ConfirmContract \/ RevokeConfirmation
    <3>1. UNCHANGED <<copy, seen, report, adopted>>
      BY <2>3 DEF StartRun, ConfirmContract, RevokeConfirmation
    <3>2. /\ task'.revision = task.revision /\ task'.dataset = task.dataset
          /\ task'.history = task.history
      BY <1>2, <2>3 DEF StartRun, ConfirmContract, RevokeConfirmation, Tasks
    <3>3. CASE StartRun
      <4>1. task'.confirmed = task.confirmed /\ task.confirmed # NoContract
        BY <1>2, <3>3 DEF StartRun, Confirmed, Tasks
      <4> QED BY <3>1, <3>2, <4>1 DEF DocsOK, Sound, Fits, Reported
    <3>4. CASE ConfirmContract
      <4>1. /\ task'.confirmed = contract /\ task'.status = "ready" /\ task.dataset # NoDataset
            /\ task.revision = [contract |-> contract, dataset |-> task.dataset]
        BY <1>2, <3>4 DEF ConfirmContract, Tasks
      <4>2. Fits(contract, task.dataset)
        <5>1. task.revision # NoRevision
          BY <4>1 DEF NoRevision
        <5> QED BY <4>1, <5>1 DEF DocsOK, Sound
      <4> QED BY <3>1, <3>2, <4>1, <4>2 DEF DocsOK, Sound, Fits, Reported
    <3>5. CASE RevokeConfirmation
      <4>1. task'.confirmed = NoContract /\ task'.status = "data_ready"
        BY <1>2, <3>5 DEF RevokeConfirmation, Tasks
      <4> QED BY <3>1, <3>2, <4>1 DEF DocsOK, Sound, Fits, Reported
    <3> QED BY <2>3, <3>3, <3>4, <3>5
  <2>4. CASE View \/ WriteView
    <3>1. ASSUME NEW d \in Tasks PROVE Sound(d) => Sound(Shown(d))
      BY <3>1 DEF Sound, Fits, Reported, Shown, RunEnded, Tasks
    <3>2. /\ UNCHANGED <<copy, report, adopted>>
          /\ seen' \in {seen, NoView}
          /\ task' \in {Shown(task), Shown(seen)}
      BY <2>4 DEF View, WriteView
    <3>3. Sound(NoView) /\ Shown(NoView) = NoView
      BY DEF Sound, Reported, NoView, NewTask, Shown, RunEnded
    <3>4. Sound(task') /\ Sound(seen')
      BY <1>2, <3>1, <3>2, <3>3 DEF DocsOK
    <3> QED BY <3>2, <3>4 DEF DocsOK, Sound, Fits, Reported
  <2>5. CASE \/ \E u \in Uploads : Discard(u) \/ Recover(u) \/ Begin(u) \/ BeginPlain(u)
             \/ Outdated \/ ReadTask \/ Commit \/ ViewImported \/ FailImport
             \/ Complete \/ EndRun \/ ReadView \/ LeaveView \/ Crash \/ WriteRevised
             \/ FailRevise
    <3>1. UNCHANGED <<report, adopted>> /\ task' \in {task, copy}
      BY <2>5 DEF Discard, Recover, Begin, BeginPlain, Outdated, ReadTask,
           Commit, ViewImported, FailImport, Complete, EndRun, ReadView, LeaveView, Crash,
           WriteRevised, FailRevise, Returns
    <3>4. copy' \in {copy, task, NewTask} /\ seen' \in {seen, task, NoView}
      BY <2>5 DEF Discard, Recover, Begin, BeginPlain, Outdated, ReadTask,
           Commit, ViewImported, FailImport, Complete, EndRun, ReadView, LeaveView, Crash,
           WriteRevised, FailRevise, Returns
    <3>2. Sound(NoView) /\ Sound(NewTask)
      BY DEF Sound, Reported, NoView, NewTask
    <3>3. Sound(task') /\ Sound(copy') /\ Sound(seen')
      BY <3>1, <3>2, <3>4 DEF DocsOK
    <3> QED BY <3>1, <3>3 DEF Sound, Fits, Reported
  <2>6. ASSUME NEW x \in Texts, Rewrites(x) PROVE Sound(task)' /\ Sound(copy)' /\ Sound(seen)'
    <3>1. /\ UNCHANGED <<task, report, seen>>
          /\ contract'.dataset = contract.dataset
          /\ adopted' = adopted \cup ({contract.dataset} \ {task.dataset})
          /\ copy'.revision = [contract |-> contract', dataset |-> task.dataset]
          /\ copy'.confirmed = NoContract
          /\ copy'.dataset = task.dataset /\ copy'.history = task.history
          /\ copy'.status = "running" => task.status = "running"
      BY <2>6, Rewriting
    <3> QED BY <3>1 DEF DocsOK, Sound, Fits, Reported
  <2>7. ASSUME NEW x \in Texts, WriteContract(x)
        PROVE  Sound(task)' /\ Sound(copy)' /\ Sound(seen)'
    <3>1. /\ UNCHANGED <<task, report, seen, adopted>>
          /\ contract'.dataset = copy.dataset
      BY <2>7 DEF WriteContract
    <3>2. /\ copy'.revision = [contract |-> contract', dataset |-> copy.dataset]
          /\ copy'.confirmed = copy.confirmed /\ copy'.dataset = copy.dataset
          /\ copy'.history = copy.history /\ copy'.status = copy.status
      BY <1>2, <2>7 DEF WriteContract, Tasks
    <3> QED BY <3>1, <3>2 DEF DocsOK, Sound, Fits, Reported
  <2>8. CASE UpdateSpecAway
    <3>1. UNCHANGED <<copy, seen, report, adopted>>
      BY <2>8 DEF UpdateSpecAway
    <3>2. /\ task'.revision = task.revision /\ task'.dataset \in {task.dataset, NoDataset}
          /\ task'.history = task.history /\ task'.confirmed = NoContract
          /\ task'.status = "data_ready"
      BY <1>2, <2>8 DEF UpdateSpecAway, Reopened, Tasks
    <3> QED BY <3>1, <3>2 DEF DocsOK, Sound, Fits, Reported
  <2> QED BY <2>1, <2>2, <2>3, <2>4, <2>5, <2>6, <2>7, <2>8 DEF Next, Rewrites
<1>4. (seen # NoView => seen.status = "running")'
  BY DEF Next, DocsOK, Discard, Recover, Begin, BeginPlain, Outdated, ReadTask, Import,
       WriteContract, Commit, ViewImported, FailImport, Complete, ConfirmContract, StartRun,
       RevokeConfirmation, EndRun, View, ReadView, WriteView, LeaveView, Crash,
       UpdateContract, UpdateSpec, AttachAsset, Rewrite, Reopened, WriteRevised, FailRevise,
       UpdateSpecAway, Returns
<1> QED BY <1>3, <1>4 DEF DocsOK

\* The contract file stays, and is written before the document of its data.
LEMMA FileStep == ASSUME IInv, Next PROVE FileOK'
<1> USE DEF IInv, files, import, histories
<1>t. task \in Tasks /\ copy \in Tasks /\ seen \in Tasks \cup {NoView}
  BY DEF TypeOK
<1>1. ASSUME NEW x \in Texts, Rewrites(x) PROVE FileOK'
  <2>1. contract' # NoContract
    BY <1>1, Rewriting, DatasetUploadAssumption DEF NoContract, Contracts
  <2> QED BY <2>1 DEF FileOK
<1>2. ASSUME NEW x \in Texts, WriteContract(x) PROVE FileOK'
  <2>1. contract'.dataset # NoDataset
    BY <1>2 DEF WriteContract, ImportOK
  <2> QED BY <2>1 DEF FileOK, NoContract
<1>3. ASSUME NEW d \in Datasets, Import(d) PROVE FileOK'
  <2>1. UNCHANGED <<task, seen>> /\ step' = "contract"
    BY <1>3 DEF Import
  <2>2. contract \in Contracts \cup {NoContract}
    BY DEF TypeOK
  <2>3. contract' = NoContract => contract = NoContract
    <3>1. CASE copy.dataset = NoDataset
      BY <1>3, <3>1 DEF Import
    <3>2. CASE copy.dataset # NoDataset
      <4>1. contract \in Contracts
        BY <1>3, <2>2, <3>2 DEF Import, FileOK
      <4>2. contract'.dataset = contract.dataset
        BY <1>3, <4>1 DEF Import, Contracts
      <4> QED BY <4>1, <4>2, DatasetUploadAssumption DEF Contracts, NoContract
    <3> QED BY <3>1, <3>2
  <2> QED BY <2>1, <2>3 DEF FileOK
<1>4. CASE \/ StartRun \/ ConfirmContract \/ RevokeConfirmation \/ View \/ UpdateSpecAway
           \/ ReadTask \/ Commit \/ ViewImported \/ WriteRevised \/ ReadView
  <2>1. /\ contract' = contract
        /\ task'.dataset \in {task.dataset, NoDataset, copy.dataset}
        /\ step # "contract"
        /\ copy' \in {copy, task, NewTask} /\ seen' \in {seen, task}
    BY <1>4, <1>t DEF StartRun, ConfirmContract, RevokeConfirmation, View, UpdateSpecAway,
         Reopened, ReadTask, Commit, ViewImported, WriteRevised, ReadView, Returns, Shown, Tasks,
         Free
  <2>2. NewTask.dataset = NoDataset
    BY DEF NewTask
  <2> QED BY <2>1, <2>2 DEF FileOK
<1>5. CASE WriteView
  <2>1. /\ UNCHANGED <<contract, copy, step>>
        /\ task'.dataset = seen.dataset /\ seen'.dataset = NoDataset
    BY <1>5, <1>t DEF WriteView, Shown, RunEnded, Tasks, NoView, NewTask
  <2> QED BY <2>1 DEF FileOK
<1>6. CASE \/ \E u \in Uploads : Discard(u) \/ Recover(u) \/ Begin(u) \/ BeginPlain(u)
           \/ Outdated \/ FailImport \/ Complete \/ EndRun \/ LeaveView \/ Crash \/ FailRevise
  <2>1. /\ UNCHANGED <<contract, task>>
        /\ step' # "contract" => copy' = NewTask \/ (copy' = copy /\ step # "contract")
        /\ step' = "contract" => step = "contract" /\ copy' = copy
        /\ seen' \in {seen, NoView}
    BY <1>6 DEF Discard, Recover, Begin, BeginPlain, Outdated, FailImport, Complete, EndRun,
         LeaveView, Crash, FailRevise, Returns, Free
  <2>2. NewTask.dataset = NoDataset /\ NoView.dataset = NoDataset
    BY DEF NewTask, NoView
  <2> QED BY <2>1, <2>2 DEF FileOK
<1> QED BY <1>1, <1>2, <1>3, <1>4, <1>5, <1>6 DEF Next, Rewrites

\* Only a view takes something away, and it knows no more than the task.
LEMMA GrowthStep == ASSUME IInv, Next PROVE GrowthOK'
<1> USE DEF IInv, TypeOK, GrowthOK, Importing, Next, files, import, histories, Shown, Tasks
<1>1. ASSUME NEW d \in Datasets, Import(d) PROVE GrowthOK'
  <2>1. copy'.history = copy.history \cup {d} /\ UNCHANGED <<task, seen>> /\ step = "import"
    BY <1>1 DEF Import
  <2> QED BY <2>1
<1>2. CASE StartRun \/ ConfirmContract \/ RevokeConfirmation \/ View \/ UpdateSpecAway
  BY <1>2 DEF StartRun, ConfirmContract, RevokeConfirmation, View, Free, UpdateSpecAway,
       Reopened
<1>3. CASE WriteView \/ Commit \/ WriteRevised
  BY <1>3 DEF WriteView, Commit, WriteRevised, Returns, RunEnded, NoView, NewTask
<1>4. ASSUME NEW x \in Texts, Rewrites(x) PROVE GrowthOK'
  <2>1. UNCHANGED <<task, seen>> /\ copy'.history = task.history
    BY <1>4, Rewriting
  <2> QED BY <2>1
<1>5. ASSUME NEW x \in Texts, WriteContract(x) PROVE GrowthOK'
  <2>1. UNCHANGED <<task, seen>> /\ copy'.history = copy.history /\ step = "contract"
    BY <1>5 DEF WriteContract
  <2> QED BY <2>1
<1>6. CASE \/ \E u \in Uploads : Discard(u) \/ Recover(u) \/ Begin(u) \/ BeginPlain(u)
           \/ Outdated \/ ReadTask \/ ViewImported \/ FailImport \/ Complete \/ EndRun
           \/ ReadView \/ LeaveView \/ Crash \/ FailRevise
  <2>1. /\ task' = task /\ seen' \in {seen, task, NoView}
        /\ Importing' => (copy' = copy /\ Importing) \/ copy' = task
    BY <1>6 DEF Free, Discard, Recover, Begin, BeginPlain, Outdated, ReadTask, ViewImported,
         FailImport, Complete, EndRun, ReadView, LeaveView, Crash, FailRevise, Returns
  <2>2. NoView.history = {}
    BY DEF NoView, NewTask
  <2> QED BY <2>1, <2>2
<1> QED BY <1>1, <1>2, <1>3, <1>4, <1>5, <1>6 DEF Rewrites

\* The receipt of the request being imported waits for it.
LEMMA RequestStep == ASSUME IInv, Next PROVE RequestOK'
<1> USE DEF IInv, TypeOK, RequestOK, Request, Next, files, import, histories
<1>1. ASSUME NEW u \in Uploads, Begin(u) PROVE RequestOK'
  BY <1>1 DEF Begin
<1>2. ASSUME NEW u \in Uploads, Discard(u) \/ Recover(u) \/ BeginPlain(u) PROVE RequestOK'
  BY <1>2, DatasetUploadAssumption DEF Discard, Recover, BeginPlain, Free
<1>3. CASE FailImport \/ Complete \/ Crash \/ Outdated \/ WriteRevised \/ FailRevise
  BY <1>3 DEF FailImport, Complete, Crash, Outdated, WriteRevised, FailRevise, Returns
<1>4. CASE ViewImported
  BY <1>4 DEF ViewImported, Returns, Uploads
<1>5. CASE ConfirmContract \/ StartRun \/ RevokeConfirmation \/ EndRun \/ View \/ ReadView
           \/ WriteView \/ LeaveView \/ UpdateSpecAway
  <2>1. UNCHANGED <<receipt, upload, step>>
    BY <1>5 DEF ConfirmContract, StartRun, RevokeConfirmation, EndRun, View, ReadView,
           WriteView, LeaveView, UpdateSpecAway
  <2> QED BY <2>1
<1>6. CASE \/ ReadTask \/ (\E d \in Datasets : Import(d)) \/ Commit
           \/ \E x \in Texts : WriteContract(x)
  <2>1. /\ UNCHANGED <<receipt, upload>>
        /\ step \notin {"idle", "begin", "revise"} /\ step' \notin {"begin", "complete"}
    BY <1>6 DEF ReadTask, Import, WriteContract, Commit
  <2> QED BY <2>1
<1>7. ASSUME NEW x \in Texts, Rewrites(x) PROVE RequestOK'
  <2>1. step' = "revise"
    BY <1>7, Rewriting
  <2> QED BY <2>1
<1> QED BY <1>1, <1>2, <1>3, <1>4, <1>5, <1>6, <1>7 DEF Rewrites

\* The import goes on with its own data set, unless a view wrote over it.
LEMMA ImportStep == ASSUME IInv, Next PROVE ImportOK'
<1> USE DEF IInv, TypeOK, ImportOK, files, import, histories
<1>1. CASE \/ \E u \in Uploads : Discard(u) \/ Recover(u) \/ Begin(u) \/ BeginPlain(u)
           \/ Outdated \/ ReadTask \/ FailImport \/ Complete \/ Crash
           \/ ConfirmContract \/ StartRun \/ RevokeConfirmation \/ View
           \/ UpdateSpecAway \/ WriteRevised \/ FailRevise \/ \E x \in Texts : Rewrites(x)
  <2>1. step' \notin {"contract", "commit", "view", "complete"}
    BY <1>1 DEF Discard, Recover, Begin, BeginPlain, Outdated, ReadTask, FailImport, Complete,
         Crash, ConfirmContract, StartRun, RevokeConfirmation, View, Free, UpdateSpecAway,
         WriteRevised, FailRevise, Returns, Rewrites, UpdateContract, UpdateSpec, AttachAsset,
         Rewrite
  <2> QED BY <2>1
<1>2. ASSUME NEW d \in Datasets, Import(d) PROVE ImportOK'
  <2>1. copy'.dataset = d /\ copy'.status = "data_ready"
    BY <1>2 DEF Import, Tasks
  <2>2. step' = "contract" /\ report'[d] = upload /\ upload' = upload /\ d # NoDataset
    BY <1>2, DatasetUploadAssumption DEF Import
  <2> QED BY <2>1, <2>2
<1>3. ASSUME NEW x \in Texts, WriteContract(x) PROVE ImportOK'
  <2>1. /\ copy'.dataset = copy.dataset /\ copy'.status = copy.status
        /\ UNCHANGED <<report, upload>> /\ step = "contract" /\ step' = "commit"
    BY <1>3 DEF WriteContract, Tasks
  <2> QED BY <2>1
<1>7. CASE Commit
  BY <1>7 DEF Commit
<1>4. CASE ViewImported
  <2>1. /\ UNCHANGED <<task, report, overwritten>> /\ step = "view"
        /\ step' = "idle" \/ (step' = "complete" /\ copy' = task /\ upload' = upload)
    BY <1>4 DEF ViewImported, Returns
  <2>2. task.dataset # NoDataset => task.dataset \in task.history
    BY DEF DocsOK, Sound
  <2> HIDE DEF TypeOK
  <2> QED BY <2>1, <2>2
<1>5. CASE EndRun \/ ReadView \/ LeaveView
  <2>1. UNCHANGED <<step, upload, copy, report, task, overwritten>>
    BY <1>5 DEF EndRun, ReadView, LeaveView
  <2> QED BY <2>1
<1>6. CASE WriteView
  <2>1. /\ UNCHANGED <<step, upload, copy, report>>
        /\ task' = Shown(seen) /\ RunEnded(seen)
        /\ overwritten' = (overwritten \/ task \notin {seen, Shown(seen)})
    BY <1>6 DEF WriteView
  <2>2. /\ seen \in Tasks /\ seen.status = "running" /\ seen.dataset # NoDataset
        /\ Shown(seen).status = "ended" /\ Shown(seen).dataset = seen.dataset
    BY <2>1 DEF RunEnded, NoView, NewTask, Shown, Tasks, DocsOK, Sound
  <2>3. step \in {"view", "complete"} => overwritten'
    BY <2>1, <2>2
  <2> HIDE DEF TypeOK
  <2>4. step' = "view" => task'.dataset # NoDataset
    BY <2>1, <2>2
  <2> QED BY <2>1, <2>3, <2>4
<1> QED BY <1>1, <1>2, <1>3, <1>4, <1>5, <1>6, <1>7 DEF Next, Rewrites

\* Only StartRun starts a Run, from a confirmed contract.
LEMMA StartStep == ASSUME IInv, Next PROVE StartsOnItsData'
<1> USE DEF IInv, TypeOK, StartsOnItsData, files, import, histories
<1>1. CASE StartRun
  <2>1. run' = [status |-> "active", contract |-> contract, dataset |-> task.dataset]
    BY <1>1 DEF StartRun
  <2>2. contract.dataset \in {task.dataset} \cup adopted /\ adopted' = adopted
    BY <1>1 DEF StartRun, Confirmed, DocsOK, Sound, Fits
  <2> QED BY <2>1, <2>2
<1>2. CASE EndRun \/ Crash
  BY <1>2 DEF EndRun, Crash, Runs
<1>4. ASSUME NEW x \in Texts, Rewrites(x) PROVE StartsOnItsData'
  <2>1. UNCHANGED run /\ adopted \subseteq adopted'
    BY <1>4, Rewriting
  <2> QED BY <2>1
<1>3. CASE \/ \E u \in Uploads : Discard(u) \/ Recover(u) \/ Begin(u) \/ BeginPlain(u)
           \/ Outdated \/ ReadTask \/ (\E d \in Datasets : Import(d))
           \/ (\E x \in Texts : WriteContract(x))
           \/ Commit \/ ViewImported \/ FailImport \/ Complete \/ ConfirmContract
           \/ RevokeConfirmation \/ View \/ ReadView \/ WriteView \/ LeaveView
           \/ WriteRevised \/ FailRevise \/ UpdateSpecAway
  <2>1. UNCHANGED <<run, adopted>>
    BY <1>3 DEF Discard, Recover, Begin, BeginPlain, Outdated, ReadTask, Import, WriteContract,
         Commit, ViewImported, FailImport, Complete, ConfirmContract, RevokeConfirmation, View,
         ReadView, WriteView, LeaveView, WriteRevised, FailRevise, UpdateSpecAway
  <2> QED BY <2>1
<1> QED BY <1>1, <1>2, <1>3, <1>4 DEF Next, Rewrites

\* Who touches neither receipts nor reports adds nothing to the task.
LEMMA OnceQuiet ==
    ASSUME OnceOK, UNCHANGED <<report, receipt, forgotten>>,
           task'.history \subseteq task.history,
           Importing' => Importing /\ copy'.history = copy.history,
           Request' \in Recorded /\ Attaching' => Attaching /\ Request' = Request,
           step' = "import" => step = "import"
    PROVE  OnceOK'
<1> USE DEF OnceOK
<1>1. Recorded' = Recorded /\ (\A h, q : NoneOf(q, h)' <=> NoneOf(q, h))
  BY DEF Recorded, NoneOf
<1>2. Once(task.history)' /\ (Importing => Once(copy.history))'
  BY DEF Once
<1>3. Untold(task.history)' /\ (Importing => Untold(copy.history))'
  BY DEF Untold, NoneOf, Recorded
<1>4. (\A q \in Recorded : receipt[q].status = "processing" =>
          Reported(receipt[q].before) /\ NoneOf(q, receipt[q].before))'
  BY DEF Recorded, NoneOf, Reported
<1>5. (Request \in Recorded =>
          /\ Attaching => NoneOf(Request, task.history)
          /\ step = "import" => NoneOf(Request, copy.history))'
  BY DEF Recorded, NoneOf, Attaching, Importing
<1> QED BY <1>2, <1>3, <1>4, <1>5

\* A request without receipt is not in the task, so it may start over.
LEMMA OnceStep == ASSUME IInv, Next PROVE OnceOK'
<1> USE DEF IInv, files, import, histories
<1>t. /\ task \in Tasks /\ copy \in Tasks /\ seen \in Tasks \cup {NoView}
      /\ receipt \in [Requests -> Receipts \cup {NoReceipt}]
      /\ report \in [Datasets -> Uploads \cup {NoUpload}]
  BY DEF TypeOK
<1>1. CASE ConfirmContract \/ StartRun \/ RevokeConfirmation \/ View \/ UpdateSpecAway
  <2>1. UNCHANGED <<report, receipt, forgotten, step, upload, copy>>
    BY <1>1 DEF ConfirmContract, StartRun, RevokeConfirmation, View, UpdateSpecAway
  <2>2. task'.history = task.history
    BY <1>1, <1>t DEF ConfirmContract, StartRun, RevokeConfirmation, View, UpdateSpecAway,
         Reopened, Shown, Tasks
  <2> QED BY <2>1, <2>2, OnceQuiet DEF Importing, Attaching, Request
<1>2. CASE EndRun \/ ReadView \/ LeaveView
  <2>1. UNCHANGED <<report, receipt, forgotten, step, upload, copy, task>>
    BY <1>2 DEF EndRun, ReadView, LeaveView
  <2> QED BY <2>1, OnceQuiet DEF Importing, Attaching, Request
<1>3. CASE WriteView
  <2>1. UNCHANGED <<report, receipt, forgotten, step, upload, copy>>
    BY <1>3 DEF WriteView
  <2>2. task'.history = seen.history
    BY <1>3, <1>t DEF WriteView, RunEnded, NoView, NewTask, Shown, Tasks
  <2> QED BY <2>1, <2>2, OnceQuiet DEF Importing, Attaching, Request, GrowthOK
<1>4. CASE Outdated \/ Crash \/ ViewImported \/ FailRevise
  <2>1. /\ UNCHANGED <<report, receipt, forgotten, task>>
        /\ step' \in {"idle", "complete"}
    BY <1>4 DEF Outdated, Crash, ViewImported, FailRevise, Returns
  <2> QED BY <2>1, OnceQuiet DEF Attaching, Importing
<1>14. ASSUME NEW x \in Texts, WriteContract(x) PROVE OnceOK'
  <2>1. /\ UNCHANGED <<report, receipt, forgotten, upload, task>>
        /\ step = "contract" /\ step' = "commit"
        /\ copy'.history = copy.history
    BY <1>14, <1>t DEF WriteContract, Tasks
  <2> QED BY <2>1, OnceQuiet DEF Request, Attaching, Importing
<1>15. ASSUME NEW x \in Texts, Rewrites(x) PROVE OnceOK'
  <2>1. /\ UNCHANGED <<report, receipt, forgotten, upload, task>>
        /\ step' = "revise" /\ copy'.history = task.history
    BY <1>15, Rewriting
  <2> QED
    BY <2>1 DEF OnceOK, Once, Untold, NoneOf, Recorded, Reported, Importing, Attaching
<1>16. CASE WriteRevised
  <2>1. /\ step = "revise" /\ step' = "idle" /\ task' = copy
        /\ UNCHANGED <<report, receipt, forgotten>>
    BY <1>16 DEF WriteRevised, Returns
  <2> QED
    BY <2>1 DEF OnceOK, Once, Untold, NoneOf, Recorded, Reported, Importing, Attaching
<1>5. ASSUME NEW u \in Uploads, BeginPlain(u) PROVE OnceOK'
  <2>1. /\ UNCHANGED <<report, receipt, forgotten, task>>
        /\ step' = "attach" /\ Request' = NoRequest
    BY <1>5 DEF BeginPlain, Request
  <2>2. Request' \notin Recorded
    BY <2>1, DatasetUploadAssumption DEF Recorded
  <2> QED BY <2>1, <2>2, OnceQuiet DEF Importing, Attaching
<1>6. ASSUME NEW u \in Uploads, Discard(u) PROVE OnceOK'
  <2> DEFINE q == u.request
  <2>1. /\ q \in Requests /\ receipt[q].status = "processing"
        /\ task.history \subseteq receipt[q].before
        /\ receipt' = [receipt EXCEPT ![q] = NoReceipt]
        /\ step' = "begin" /\ UNCHANGED <<report, forgotten, task, copy>>
    BY <1>6 DEF Discard, Interrupted, Added
  <2>2. \A x \in Requests : receipt'[x] = IF x = q THEN NoReceipt ELSE receipt[x]
    BY <1>t, <2>1
  <2>3. q \in Recorded => NoneOf(q, task.history)
    BY <2>1 DEF OnceOK, NoneOf
  <2> HIDE DEF q
  <2> QED
    BY <2>1, <2>2, <2>3
    DEF OnceOK, Once, Untold, NoneOf, Recorded, Reported, Importing, Attaching, NoReceipt
<1>7. ASSUME NEW u \in Uploads, Recover(u) PROVE OnceOK'
  <2> DEFINE q == u.request
  <2>1. /\ q \in Requests /\ UNCHANGED <<report, forgotten, task, copy, step, upload>>
        /\ receipt' = [receipt EXCEPT ![q].status = "completed", ![q].dataset = task.dataset]
        /\ receipt[q] \in Receipts
    BY <1>7, <1>t DEF Recover, Interrupted, NoReceipt
  <2>2. \A x \in Requests : receipt'[x].status = (IF x = q THEN "completed" ELSE receipt[x].status)
    BY <1>t, <2>1 DEF Receipts
  <2>3. \A x \in Requests : x # q => receipt'[x] = receipt[x]
    BY <1>t, <2>1
  <2> HIDE DEF q
  <2>4. Recorded' = Recorded /\ \A h, x : NoneOf(x, h)' <=> NoneOf(x, h)
    BY <2>1 DEF Recorded, NoneOf
  <2>5. \A x \in Recorded : receipt'[x].status \in {"none", "processing"} => receipt'[x] = receipt[x]
    BY <2>2, <2>3 DEF Recorded
  <2>6. \A h : Untold(h) => Untold(h)'
    BY <2>4, <2>5 DEF Untold
  <2>7. /\ \A h : Once(h)' <=> Once(h)
        /\ Importing' = Importing /\ Attaching' = Attaching /\ Request' = Request
    BY <2>1 DEF Once, Importing, Attaching, Request
  <2>8. (\A x \in Recorded : receipt[x].status = "processing" =>
            Reported(receipt[x].before) /\ NoneOf(x, receipt[x].before))'
    BY <2>1, <2>4, <2>5 DEF OnceOK, Reported
  <2> QED BY <2>1, <2>4, <2>6, <2>7, <2>8 DEF OnceOK
<1>8. ASSUME NEW u \in Uploads, Begin(u) PROVE OnceOK'
  <2> DEFINE q == u.request
  <2>1. /\ q \in Requests /\ receipt[q].status = "none" /\ Request' = q
        /\ step' = "attach" /\ UNCHANGED <<report, forgotten, task, copy>>
    BY <1>8 DEF Begin, Request, NoReceipt
  <2>2. \A x \in Requests : x # q => receipt'[x] = receipt[x]
    BY <1>8, <1>t DEF Begin
  <2>3. receipt'[q].status = "processing" /\ receipt'[q].before = task.history
    BY <1>8, <1>t, <2>1 DEF Begin
  <2>4. q \in Recorded => NoneOf(q, task.history)
    BY <2>1 DEF OnceOK, Untold
  <2>5. Reported(task.history)
    BY DEF DocsOK, Sound
  <2> HIDE DEF q
  <2> QED
    BY <2>1, <2>2, <2>3, <2>4, <2>5
    DEF OnceOK, Once, Untold, NoneOf, Recorded, Reported, Importing, Attaching
<1>9. CASE ReadTask
  <2>1. /\ step = "attach" /\ step' = "import" /\ copy' = task
        /\ UNCHANGED <<report, receipt, forgotten, upload, task>>
    BY <1>9 DEF ReadTask
  <2> QED
    BY <2>1 DEF OnceOK, Once, Untold, NoneOf, Recorded, Reported, Importing, Attaching, Request
<1>10. ASSUME NEW d \in Datasets, Import(d) PROVE OnceOK'
  <2>1. /\ step = "import" /\ step' = "contract" /\ report[d] = NoUpload
        /\ UNCHANGED <<receipt, forgotten, upload, task>>
        /\ copy'.history = copy.history \cup {d}
    BY <1>10, <1>t DEF Import, Tasks
  <2>2. report'[d] = upload /\ \A x \in Datasets : x # d => report'[x] = report[x]
    BY <1>10, <1>t DEF Import
  <2>3. d \notin task.history /\ d \notin copy.history
    BY <2>1 DEF DocsOK, Sound, Reported
  <2>4. task.history \subseteq Datasets /\ copy.history \subseteq Datasets
    BY <1>t DEF Tasks
  <2>5. Request \in Requests => receipt[Request].status = "processing"
    BY <2>1 DEF RequestOK
  <2>6. Request \in Recorded => NoneOf(Request, copy.history) /\ NoneOf(Request, task.history)
    BY <2>1 DEF OnceOK, Attaching
  <2>7. upload \in Uploads /\ Request \in Requests \cup {NoRequest}
    BY <2>1 DEF RequestOK, Uploads, Request
  <2>8. Once(copy.history)'
    <3>1. Once(copy.history)
      BY <2>1 DEF OnceOK, Importing
    <3> QED BY <2>1, <2>2, <2>3, <2>4, <2>6, <2>7, <3>1 DEF Once, NoneOf, Recorded, Request
  <2>9. Once(task.history)'
    BY <2>1, <2>2, <2>3, <2>4 DEF Once, OnceOK
  <2>10. Untold(task.history)' /\ Untold(copy.history)'
    <3>1. Untold(copy.history) /\ Untold(task.history)
      BY <2>1 DEF OnceOK, Importing
    <3> QED BY <2>1, <2>2, <2>3, <2>4, <2>5, <3>1 DEF Untold, NoneOf, Recorded, Request
  <2>11. ASSUME NEW q \in Recorded, receipt[q].status = "processing"
         PROVE  Reported(receipt[q].before)' /\ NoneOf(q, receipt[q].before)'
    <3>1. Reported(receipt[q].before) /\ NoneOf(q, receipt[q].before)
      BY <2>11 DEF OnceOK
    <3>2. receipt[q].before \subseteq Datasets
      BY <1>t, <2>11 DEF Recorded, Receipts, NoReceipt
    <3> QED BY <2>1, <2>2, <3>1, <3>2 DEF Reported, NoneOf
  <2>12. Request \in Recorded => NoneOf(Request, task.history)'
    BY <2>1, <2>2, <2>3, <2>4, <2>6 DEF NoneOf, Request, Recorded
  <2>13. Recorded' = Recorded /\ Request' = Request
    BY <2>1 DEF Recorded, Request
  <2> QED
    BY <2>1, <2>8, <2>9, <2>10, <2>11, <2>12, <2>13 DEF OnceOK, NoneOf
<1>11. CASE Commit
  <2>1. /\ step = "commit" /\ step' = "view" /\ task' = copy
        /\ UNCHANGED <<report, receipt, forgotten, upload, copy>>
    BY <1>11 DEF Commit
  <2> QED
    BY <2>1 DEF OnceOK, Once, Untold, NoneOf, Recorded, Reported, Importing, Attaching
<1>12. CASE FailImport
  <2>1. /\ step' = "idle" /\ UNCHANGED <<report, task>>
        /\ forgotten \subseteq forgotten'
        /\ step # "view" => Attaching
        /\ step = "view" => Request \in forgotten'
    BY <1>12 DEF FailImport, Attaching, Returns
  <2>2. \A x \in Requests : receipt'[x] = IF x = Request THEN NoReceipt ELSE receipt[x]
    BY <1>12 DEF FailImport, Unmarked
  <2>3. Request \in Recorded' => NoneOf(Request, task.history)
    BY <2>1 DEF OnceOK, Recorded
  <2> HIDE DEF IInv
  <2>4. OnceOK
    BY DEF IInv
  <2> QED
    BY <2>1, <2>2, <2>3, <2>4
    DEF OnceOK, Once, Untold, NoneOf, Recorded, Reported, Importing, Attaching, NoReceipt
<1>13. CASE Complete
  <2>1. /\ step' = "idle" /\ UNCHANGED <<report, task, forgotten>>
        /\ Request \in Requests /\ receipt[Request] \in Receipts
        /\ receipt' = [receipt EXCEPT ![Request].status = "completed",
                                      ![Request].dataset = copy.dataset]
    BY <1>13, <1>t DEF Complete, Returns, ImportOK, RequestOK, NoReceipt
  <2>2. /\ \A x \in Requests : x # Request => receipt'[x] = receipt[x]
        /\ receipt'[Request].status = "completed"
    BY <1>t, <2>1 DEF Receipts
  <2> QED
    BY <2>1, <2>2
    DEF OnceOK, Once, Untold, NoneOf, Recorded, Reported, Importing, Attaching
<1> QED
  BY <1>1, <1>2, <1>3, <1>4, <1>5, <1>6, <1>7, <1>8, <1>9, <1>10, <1>11, <1>12, <1>13, <1>14,
     <1>15, <1>16 DEF Next, Rewrites

\* Completed receipts stay true, and new ones are.
LEMMA ReceiptStep == ASSUME IInv, Next PROVE ReceiptIsTrue'
<1> USE DEF IInv, files, import, histories
<1>t. /\ task \in Tasks /\ copy \in Tasks /\ seen \in Tasks \cup {NoView}
      /\ receipt \in [Requests -> Receipts \cup {NoReceipt}]
      /\ report \in [Datasets -> Uploads \cup {NoUpload}]
  BY DEF TypeOK
<1>1. ASSUME UNCHANGED receipt, ~overwritten' => ~overwritten /\ task.history \subseteq task'.history
      PROVE  ReceiptIsTrue'
  <2>1. \A d \in task.history : report'[d] = report[d]
    BY <1>t, ReportsStay DEF DocsOK, Sound, Reported, Tasks
  <2> QED BY <1>1, <2>1 DEF ReceiptIsTrue
<1>2. CASE \/ \E u \in Uploads : BeginPlain(u)
           \/ Outdated \/ ReadTask \/ (\E d \in Datasets : Import(d))
           \/ (\E x \in Texts : WriteContract(x))
           \/ ViewImported \/ EndRun \/ ReadView \/ LeaveView \/ Crash \/ FailRevise
  <2>1. UNCHANGED <<receipt, task, overwritten>>
    BY <1>2 DEF BeginPlain, Outdated, ReadTask, Import, WriteContract, ViewImported, EndRun,
         ReadView, LeaveView, Crash, FailRevise
  <2> QED BY <1>1, <2>1
<1>12. ASSUME NEW x \in Texts, Rewrites(x) PROVE ReceiptIsTrue'
  <2>1. UNCHANGED <<receipt, task, overwritten>>
    BY <1>12, Rewriting
  <2> QED BY <1>1, <2>1
<1>3. CASE Commit \/ WriteRevised
  <2>1. task.history \subseteq task'.history /\ UNCHANGED <<receipt, overwritten>>
    BY <1>3 DEF Commit, WriteRevised, GrowthOK, Importing
  <2> QED BY <1>1, <2>1
<1>4. CASE ConfirmContract \/ StartRun \/ RevokeConfirmation \/ View \/ UpdateSpecAway
  <2>1. task'.history = task.history /\ UNCHANGED <<receipt, overwritten>>
    BY <1>4, <1>t DEF ConfirmContract, StartRun, RevokeConfirmation, View, UpdateSpecAway,
         Reopened, Shown, Tasks
  <2> QED BY <1>1, <2>1
<1>5. CASE WriteView
  <2>1. task'.history = seen.history /\ seen \in Tasks /\ Shown(seen).history = seen.history
    BY <1>5, <1>t DEF WriteView, RunEnded, NoView, NewTask, Shown, Tasks
  <2>2. UNCHANGED receipt /\ (~overwritten' => ~overwritten /\ task \in {seen, Shown(seen)})
    BY <1>5 DEF WriteView, TypeOK
  <2> QED BY <1>1, <2>1, <2>2
\* A receipt that was not completed before.
<1>6. ASSUME UNCHANGED <<report, task, overwritten>>,
             \A q \in Requests : receipt'[q].status = "completed" => receipt'[q] = receipt[q]
      PROVE  ReceiptIsTrue'
  BY <1>6 DEF ReceiptIsTrue
<1>7. ASSUME NEW u \in Uploads, Discard(u) \/ Begin(u) PROVE ReceiptIsTrue'
  <2>1. UNCHANGED <<report, task, overwritten>>
    BY <1>7 DEF Discard, Begin
  <2>2. \A q \in Requests : receipt'[q] # receipt[q] => receipt'[q].status \in {"none", "processing"}
    BY <1>7, <1>t DEF Discard, Begin, NoReceipt
  <2> QED BY <1>6, <2>1, <2>2
<1>8. CASE FailImport
  <2>1. UNCHANGED <<report, task, overwritten>>
    BY <1>8 DEF FailImport
  <2>2. \A q \in Requests : receipt'[q] # receipt[q] => receipt'[q].status = "none"
    BY <1>8 DEF FailImport, Unmarked, NoReceipt
  <2> QED BY <1>6, <2>1, <2>2
\* A receipt that is completed now names the import of its upload.
<1>9. ASSUME NEW q \in Requests, NEW d,
             UNCHANGED <<report, task, overwritten>>,
             receipt[q] \in Receipts,
             receipt' = [receipt EXCEPT ![q].status = "completed", ![q].dataset = d],
             ~overwritten => /\ d \in task.history
                             /\ report[d] = [request |-> q, payload |-> receipt[q].payload]
      PROVE  ReceiptIsTrue'
  <2>1. \A x \in Requests : x # q => receipt'[x] = receipt[x]
    BY <1>9, <1>t
  <2>2. receipt'[q].dataset = d /\ receipt'[q].payload = receipt[q].payload
    BY <1>9, <1>t DEF Receipts
  <2> QED BY <1>9, <2>1, <2>2 DEF ReceiptIsTrue
<1>10. ASSUME NEW u \in Uploads, Recover(u) PROVE ReceiptIsTrue'
  <2>1. u = [request |-> u.request, payload |-> u.payload]
    BY DEF Uploads
  <2>2. /\ u.request \in Requests /\ receipt[u.request] # NoReceipt
        /\ receipt[u.request].payload = u.payload
        /\ task.dataset \in task.history /\ report[task.dataset] = u
        /\ UNCHANGED <<report, task, overwritten>>
        /\ receipt' = [receipt EXCEPT ![u.request].status = "completed",
                                      ![u.request].dataset = task.dataset]
    BY <1>10 DEF Recover, Interrupted, Added, NoReceipt
  <2> QED BY <1>9, <1>t, <2>1, <2>2
<1>11. CASE Complete
  <2>1. /\ Request \in Requests /\ receipt[Request] # NoReceipt
        /\ upload = [request |-> Request, payload |-> receipt[Request].payload]
    BY <1>11 DEF Complete, RequestOK, NoReceipt, Uploads, Request
  <2>2. /\ UNCHANGED <<report, task, overwritten>>
        /\ receipt' = [receipt EXCEPT ![Request].status = "completed",
                                      ![Request].dataset = copy.dataset]
        /\ ~overwritten => copy.dataset \in task.history /\ report[copy.dataset] = upload
    BY <1>11 DEF Complete, ImportOK
  <2> QED BY <1>9, <1>t, <2>1, <2>2
<1> QED BY <1>2, <1>3, <1>4, <1>5, <1>7, <1>8, <1>10, <1>11, <1>12 DEF Next, Rewrites

-----------------------------------------------------------------------------
(* The theorems.                                                             *)
\* A step that changes nothing.
LEMMA Stutter == ASSUME IInv, UNCHANGED vars PROVE IInv'
  BY DEF vars, IInv, TypeOK, DocsOK, FileOK, GrowthOK, RequestOK, ImportOK, OnceOK,
     ReceiptIsTrue, StartsOnItsData, Sound, Fits, Reported, Importing, Attaching, Request, Once, Untold, NoneOf,
     Recorded

\* The invariant holds in every state.
THEOREM Invariance == Spec => []IInv
<1>1. Init => IInv
  BY InitStep
<1>2. IInv /\ [Next]_vars => IInv'
  <2>1. ASSUME IInv, Next PROVE IInv'
    <3>1. TypeOK' /\ DocsOK' /\ FileOK' /\ GrowthOK' /\ RequestOK'
      BY <2>1, TypeStep, DocsStep, FileStep, GrowthStep, RequestStep DEF IInv
    <3>2. ImportOK' /\ OnceOK' /\ ReceiptIsTrue' /\ StartsOnItsData'
      BY <2>1, ImportStep, OnceStep, ReceiptStep, StartStep
    <3> QED BY <3>1, <3>2 DEF IInv
  <2> QED BY <2>1, Stutter
<1> QED BY <1>1, <1>2, PTL DEF Spec

\* Types: what is on disk and in memory is a task, a receipt, a report, a step.
THEOREM TypeCorrect == Spec => []TypeOK
<1>1. IInv => TypeOK
  BY DEF IInv
<1> QED BY <1>1, Invariance, PTL

\* A repeated upload is imported once, wherever attach_dataset_idempotent was
\* interrupted or failed before its commit, for any requests, files and deaths.
THEOREM RequestsImportOnce == Spec => []ImportedOnce
<1>1. IInv => ImportedOnce
  BY DEF IInv, OnceOK, Once, ImportedOnce
<1> QED BY <1>1, Invariance, PTL

\* A completed receipt names the import of its own request and file, also one
\* that _reconcile_processing_dataset_upload_receipt completed.
THEOREM ReceiptsAreTrue == Spec => []ReceiptIsTrue
<1>1. IInv => ReceiptIsTrue
  BY DEF IInv
<1> QED BY <1>1, Invariance, PTL

\* A Run starts on the data set its task shows, though an upload replaces the
\* contract file and the document one after the other and may end between, unless
\* update_contract or a like operation took the new file for the task.
THEOREM RunsUseShownData == Spec => []StartsOnItsData
<1>1. IInv => StartsOnItsData
  BY DEF IInv
<1> QED BY <1>1, Invariance, PTL
=============================================================================
