--------------------------- MODULE DatasetUpload ---------------------------
(* Importing a data set into a Task, under a request id that makes a repeated *)
(* upload harmless: the receipt of the request, the imported data sets and    *)
(* their reports, the contract file and the task document, each written in    *)
(* turn.  A process may die, and an import may fail, between any two writes.  *)
(*                                                                            *)
(* TrainingWorkspace._lock and the file lock of the task's uploads are held   *)
(* throughout, so there is one import at a time; but a view of the task that  *)
(* was read before may write the document back at any moment (_view).  Three  *)
(* other operations write the contract file before the document: an update of *)
(* the contract, a model asset and a TaskSpec.  A view written at once and    *)
(* the whole start of a Run are one step each here: their steps are           *)
(* TaskLedger's.  Whether a recipe and an adapter can read the file is left   *)
(* open (FailImport).                                                         *)
EXTENDS Naturals, FiniteSets

CONSTANTS
    Requests,     \* request ids of the client
    Payloads,     \* files it uploads
    Datasets,     \* bound: identifiers new data sets take
    Texts,        \* what a contract says besides its data set
    MaxRestarts   \* bound: how often the process dies

NoRequest == "no request"
NoDataset == "no dataset"
Uploads == [request : Requests \cup {NoRequest}, payload : Payloads]
NoUpload == [request |-> "none", payload |-> "none"]

ASSUME DatasetUploadAssumption ==
    /\ NoRequest \notin Requests
    /\ NoDataset \notin Datasets
    /\ NoUpload \notin Uploads
    /\ MaxRestarts \in Nat

VARIABLES
    task,         \* task.json
    contract,     \* the contract file
    report,       \* dataset_report.json: the upload a data set came from
    receipt,      \* the DatasetUploadReceipt of each request
    step,         \* where the import is
    upload,       \* what it imports
    copy,         \* the document it works on, later the view it answers with
    seen,         \* the document of a view that is not through yet
    run,          \* the Run of the task (bound: one), and what it started from
    restarts,
    adopted,      \* history: data sets whose contract the task took without them
    forgotten,    \* history: requests whose receipt went after their commit
    overwritten   \* history: a view has written over a newer document

files == <<task, contract, report, receipt>>
import == <<step, upload, copy>>
histories == <<restarts, adopted, forgotten, overwritten>>
vars == <<task, contract, report, receipt, step, upload, copy, seen, run, restarts,
          adopted, forgotten, overwritten>>

-----------------------------------------------------------------------------
DatasetIds == Datasets \cup {NoDataset}
Steps == {"idle", "begin", "attach", "import", "contract", "commit", "view", "complete",
          "revise"}

\* A contract names the data it trains on; what the file's digest tells apart.
\* A revision of it records the data set of the task.
Contracts == [dataset : Datasets, text : Texts]
NoContract == [dataset |-> NoDataset, text |-> "none"]
Revisions == [contract : Contracts, dataset : DatasetIds]
NoRevision == [contract |-> NoContract, dataset |-> NoDataset]

\* "data_ready" is every status before a confirmation.
Tasks == [status : {"data_ready", "ready", "running", "ended"}, history : SUBSET Datasets,
          dataset : DatasetIds, revision : Revisions \cup {NoRevision},
          confirmed : Contracts \cup {NoContract}, stale : BOOLEAN, current : BOOLEAN]
Receipts == [status : {"processing", "completed"}, payload : Payloads,
             before : SUBSET Datasets, dataset : DatasetIds]
NewTask == [status |-> "data_ready", history |-> {}, dataset |-> NoDataset,
            revision |-> NoRevision, confirmed |-> NoContract, stale |-> FALSE,
            current |-> FALSE]
NoReceipt == [status |-> "none", payload |-> "none", before |-> {}, dataset |-> NoDataset]
NoView == [NewTask EXCEPT !.status = "none"]
Runs == [status : {"none", "active", "ended"}, contract : Contracts \cup {NoContract},
         dataset : DatasetIds]

\* Nobody holds the lock of the workspace.
Free == step = "idle"
Request == upload.request
\* The locks are given back, the call with its copies is gone.
Returns == step' = "idle" /\ upload' = NoUpload /\ copy' = NewTask

\* The copies of a process and the view of a thread end with it.
Init ==
    /\ task = NewTask
    /\ contract = NoContract
    /\ report = [d \in Datasets |-> NoUpload]
    /\ receipt = [q \in Requests |-> NoReceipt]
    /\ step = "idle"
    /\ upload = NoUpload
    /\ copy = NewTask
    /\ seen = NoView
    /\ run = [status |-> "none", contract |-> NoContract, dataset |-> NoDataset]
    /\ restarts = 0
    /\ adopted = {}
    /\ forgotten = {}
    /\ overwritten = FALSE

-----------------------------------------------------------------------------
(* The request finds its receipt, or none.  One that is completed is          *)
(* answered from it; one with another payload, or one that is refused below,  *)
(* is answered with an error: nothing changes.                                *)

\* The data sets that reached the task since the receipt was written.
Added(q) == task.history \ receipt[q].before
Interrupted(u) ==
    /\ receipt[u.request].status = "processing"
    /\ receipt[u.request].payload = u.payload
    /\ receipt[u.request].before \subseteq task.history

\* Mutant of Discard: without a look at the history.
DiscardUnseen(u) ==
    /\ Free /\ u.request \in Requests
    /\ receipt[u.request].status = "processing"
    /\ receipt' = [receipt EXCEPT ![u.request] = NoReceipt]
    /\ step' = "begin"
    /\ upload' = u
    /\ UNCHANGED <<task, contract, report, copy, seen, run, histories>>

\* It never reached the task: start again.
Discard(u) ==
    /\ Free /\ u.request \in Requests
    /\ Interrupted(u)
    /\ Added(u.request) = {}
    /\ receipt' = [receipt EXCEPT ![u.request] = NoReceipt]
    /\ step' = "begin"
    /\ upload' = u
    /\ UNCHANGED <<task, contract, report, copy, seen, run, histories>>

\* Mutant of Recover: the one new data set is taken for the request's.
RecoverUnchecked(u) ==
    /\ Free /\ u.request \in Requests
    /\ Interrupted(u)
    /\ Added(u.request) = {task.dataset}
    /\ receipt' = [receipt EXCEPT ![u.request].status = "completed",
                                  ![u.request].dataset = task.dataset]
    /\ UNCHANGED <<task, contract, report, import, seen, run, histories>>

\* It reached the task: exactly one data set is new, it is the current one,
\* and its report names this very upload.
Recover(u) ==
    /\ Free /\ u.request \in Requests
    /\ Interrupted(u)
    /\ Added(u.request) = {task.dataset}
    /\ report[task.dataset] = u
    /\ receipt' = [receipt EXCEPT ![u.request].status = "completed",
                                  ![u.request].dataset = task.dataset]
    /\ UNCHANGED <<task, contract, report, import, seen, run, histories>>

\* A new request: the receipt remembers the history it starts from.
Begin(u) ==
    /\ u.request \in Requests
    /\ Free \/ (step = "begin" /\ upload = u)
    /\ receipt[u.request] = NoReceipt
    /\ receipt' = [receipt EXCEPT ![u.request] =
                      [status |-> "processing", payload |-> u.payload,
                       before |-> task.history, dataset |-> NoDataset]]
    /\ step' = "attach"
    /\ upload' = u
    /\ UNCHANGED <<task, contract, report, copy, seen, run, histories>>

\* The caller has seen another TaskSpec revision.
Outdated ==
    /\ step = "begin"
    /\ Returns
    /\ UNCHANGED <<files, seen, run, histories>>

\* An upload without a request id.
BeginPlain(u) ==
    /\ Free
    /\ u.request = NoRequest
    /\ step' = "attach"
    /\ upload' = u
    /\ UNCHANGED <<files, copy, seen, run, histories>>

-----------------------------------------------------------------------------
(* attach_dataset                                                             *)
ReadTask ==
    /\ step = "attach"
    /\ task.status # "running"
    /\ copy' = task
    /\ step' = "import"
    /\ UNCHANGED <<files, upload, seen, run, histories>>

\* A TaskSpec revised for the recipe may write to the contract in force.
Import(d) ==
    /\ step = "import"
    /\ report[d] = NoUpload
    /\ report' = [report EXCEPT ![d] = upload]
    /\ contract' \in {contract} \cup
          {[contract EXCEPT !.text = x] : x \in IF copy.dataset = NoDataset THEN {} ELSE Texts}
    /\ \E stale \in BOOLEAN :
          copy' = [copy EXCEPT !.history = @ \cup {d}, !.dataset = d, !.stale = stale,
                               !.confirmed = NoContract, !.current = FALSE,
                               !.status = "data_ready"]
    /\ step' = "contract"
    /\ UNCHANGED <<task, receipt, upload, seen, run, histories>>

WriteContract(x) ==
    /\ step = "contract"
    /\ contract' = [dataset |-> copy.dataset, text |-> x]
    /\ copy' = [copy EXCEPT !.revision = [contract |-> contract', dataset |-> copy.dataset]]
    /\ step' = "commit"
    /\ UNCHANGED <<task, report, receipt, upload, seen, run, histories>>

Commit ==
    /\ step = "commit"
    /\ task' = copy
    /\ step' = "view"
    /\ UNCHANGED <<contract, report, receipt, upload, copy, seen, run, histories>>

\* get_task: the document as it is now.
ViewImported ==
    /\ step = "view"
    /\ IF Request = NoRequest THEN Returns
       ELSE copy' = task /\ step' = "complete" /\ UNCHANGED upload
    /\ UNCHANGED <<files, seen, run, histories>>

\* Any exception in attach_dataset, its view included, takes the receipt away.
Unmarked == [q \in Requests |-> IF q = Request THEN NoReceipt ELSE receipt[q]]
FailImport ==
    /\ step \in {"attach", "import", "contract", "commit", "view"}
    /\ receipt' = Unmarked
    /\ forgotten' = forgotten \cup (IF step = "view" THEN {Request} ELSE {})
    /\ Returns
    /\ UNCHANGED <<task, contract, report, seen, run, restarts, adopted, overwritten>>

\* The receipt takes its data set from the view.
Complete ==
    /\ step = "complete"
    /\ receipt' = IF copy.dataset = NoDataset THEN Unmarked
                  ELSE [receipt EXCEPT ![Request].status = "completed",
                                       ![Request].dataset = copy.dataset]
    /\ Returns
    /\ UNCHANGED <<task, contract, report, seen, run, histories>>

-----------------------------------------------------------------------------
(* What else happens to the contract: the file is read and written again,     *)
(* whatever data set it is for, and recorded for the data set of the task.    *)

\* The document that follows is d.
Rewrite(d, x) ==
    /\ Free
    /\ task.dataset # NoDataset
    /\ contract' = [contract EXCEPT !.text = x]
    /\ copy' = [d EXCEPT !.revision = [contract |-> contract', dataset |-> task.dataset],
                         !.confirmed = NoContract]
    /\ adopted' = adopted \cup ({contract.dataset} \ {task.dataset})
    /\ step' = "revise"
    /\ UNCHANGED <<task, report, receipt, upload, seen, run, restarts, forgotten, overwritten>>

Reopened == [task EXCEPT !.status = "data_ready", !.current = FALSE]

UpdateContract(x) == task.status # "running" /\ Rewrite(Reopened, x)
UpdateSpec(x) == task.status # "running" /\ Rewrite([Reopened EXCEPT !.stale = FALSE], x)
AttachAsset(x) == Rewrite(task, x)

WriteRevised ==
    /\ step = "revise"
    /\ task' = copy
    /\ Returns
    /\ UNCHANGED <<contract, report, receipt, seen, run, histories>>

\* An exception before the document is written.
FailRevise ==
    /\ step = "revise"
    /\ Returns
    /\ UNCHANGED <<files, seen, run, histories>>

\* A TaskSpec without a recipe for the data leaves the contract stale.
UpdateSpecAway ==
    /\ Free
    /\ task.status # "running"
    /\ \E d \in {task.dataset, NoDataset} :
          task' = [Reopened EXCEPT !.dataset = d, !.confirmed = NoContract,
                                   !.stale = (task.dataset # NoDataset)]
    /\ UNCHANGED <<contract, report, receipt, import, seen, run, histories>>

-----------------------------------------------------------------------------
(* Confirmation, Runs, views.                                                 *)
ConfirmContract ==
    /\ Free
    /\ task.dataset # NoDataset
    /\ ~task.stale
    /\ task.revision = [contract |-> contract, dataset |-> task.dataset]
    /\ task' = [task EXCEPT !.confirmed = contract, !.status = "ready"]
    /\ UNCHANGED <<contract, report, receipt, import, seen, run, histories>>

\* Mutant of Confirmed: the file is not compared.
ConfirmedRevision ==
    task.confirmed # NoContract /\ task.confirmed = task.revision.contract
Confirmed ==
    /\ task.confirmed # NoContract
    /\ task.confirmed = contract
    /\ task.confirmed = task.revision.contract

StartRun ==
    /\ Free
    /\ Confirmed
    /\ task.status = "ready"
    /\ run.status = "none"
    /\ run' = [status |-> "active", contract |-> contract, dataset |-> task.dataset]
    /\ task' = [task EXCEPT !.status = "running", !.current = TRUE]
    /\ UNCHANGED <<contract, report, receipt, import, seen, histories>>

\* A start finds a confirmation that no longer fits and drops it.
RevokeConfirmation ==
    /\ Free
    /\ task.confirmed # NoContract /\ ~Confirmed
    /\ ~(task.current /\ run.status = "active")
    /\ task' = [task EXCEPT !.confirmed = NoContract, !.status = "data_ready"]
    /\ UNCHANGED <<contract, report, receipt, import, seen, run, histories>>

EndRun ==
    /\ run.status = "active"
    /\ run' = [run EXCEPT !.status = "ended"]
    /\ UNCHANGED <<files, import, seen, histories>>

RunEnded(d) == d.status = "running" /\ d.current /\ run.status = "ended"
Shown(d) == IF RunEnded(d) THEN [d EXCEPT !.status = "ended"] ELSE d

View ==
    /\ Free
    /\ RunEnded(task)
    /\ task' = Shown(task)
    /\ UNCHANGED <<contract, report, receipt, import, seen, run, histories>>

ReadView ==
    /\ Free
    /\ seen = NoView
    /\ task.status = "running"
    /\ seen' = task
    /\ UNCHANGED <<files, import, run, histories>>

WriteView ==
    /\ RunEnded(seen)
    /\ task' = Shown(seen)
    /\ overwritten' = (overwritten \/ task \notin {seen, Shown(seen)})
    /\ seen' = NoView
    /\ UNCHANGED <<contract, report, receipt, import, run, restarts, adopted, forgotten>>

\* It finds the Run active, or an operation writes over it at once.
LeaveView ==
    /\ seen # NoView
    /\ seen' = NoView
    /\ UNCHANGED <<files, import, run, histories>>

\* The process dies and another takes over: it records the end of the Run.
Crash ==
    /\ restarts < MaxRestarts
    /\ restarts' = restarts + 1
    /\ Returns
    /\ seen' = NoView
    /\ run' = [run EXCEPT !.status = IF @ = "active" THEN "ended" ELSE @]
    /\ UNCHANGED <<files, adopted, forgotten, overwritten>>

Next ==
    \/ \E u \in Uploads : Discard(u) \/ Recover(u) \/ Begin(u) \/ BeginPlain(u)
    \/ Outdated
    \/ ReadTask
    \/ \E d \in Datasets : Import(d)
    \/ \E x \in Texts : WriteContract(x) \/ UpdateContract(x) \/ UpdateSpec(x) \/ AttachAsset(x)
    \/ Commit
    \/ ViewImported
    \/ FailImport
    \/ Complete
    \/ WriteRevised
    \/ FailRevise
    \/ UpdateSpecAway
    \/ ConfirmContract
    \/ StartRun
    \/ RevokeConfirmation
    \/ EndRun
    \/ View
    \/ ReadView
    \/ WriteView
    \/ LeaveView
    \/ Crash

Spec == Init /\ [][Next]_vars

-----------------------------------------------------------------------------
TypeOK ==
    /\ task \in Tasks
    /\ contract \in Contracts \cup {NoContract}
    /\ report \in [Datasets -> Uploads \cup {NoUpload}]
    /\ receipt \in [Requests -> Receipts \cup {NoReceipt}]
    /\ step \in Steps
    /\ upload \in Uploads \cup {NoUpload}
    /\ copy \in Tasks
    /\ seen \in Tasks \cup {NoView}
    /\ run \in Runs
    /\ restarts \in 0 .. MaxRestarts
    /\ adopted \subseteq Datasets
    /\ forgotten \subseteq Requests \cup {NoRequest}
    /\ overwritten \in BOOLEAN

\* However often an upload is repeated, and wherever a process died before, its
\* request is imported once: no two data sets of the task come from the same
\* request.  (Excepted are requests whose import failed after its commit.)
ImportedOnce ==
    \A d, e \in task.history :
        /\ report[d].request = report[e].request
        /\ report[d].request \notin {NoRequest} \cup forgotten
        => d = e

\* A completed receipt can be relied on: its data set belongs to the task, and
\* is the import of this request and of this file, whatever other uploads came
\* between the request and its repetition.  (As long as no view has written
\* over a newer document.)
ReceiptIsTrue ==
    \A q \in Requests :
        receipt[q].status = "completed" /\ ~overwritten =>
            /\ receipt[q].dataset \in task.history
            /\ report[receipt[q].dataset] = [request |-> q, payload |-> receipt[q].payload]

\* A Run trains on the data the task shows, although an upload replaces the
\* contract before the document and may end between the two: what was confirmed
\* for the old data never starts on the new.  (Excepted is a contract that an
\* operation which rewrites the file has taken for the task since.)
StartsOnItsData ==
    run.status # "none" => run.contract.dataset \in {run.dataset} \cup adopted

-----------------------------------------------------------------------------
(* What does not hold.                                                        *)
\* "Successful receipts remain immutable and replayable" (workspace.py:4091):
\* the view after the commit is inside the same try.
ImportedAtMostOnce ==
    \A d, e \in task.history :
        report[d].request = report[e].request /\ report[d].request # NoRequest => d = e

\* "Retrying the same exact request is safe" (workspace.py:3947), unless
\* another upload was committed after the interrupted one.
RetryIsAdmitted ==
    \A u \in Uploads :
        /\ Free /\ u.request \in Requests
        /\ receipt[u.request].status = "processing"
        /\ receipt[u.request].payload = u.payload
        => /\ Interrupted(u)
           /\ \/ Added(u.request) = {}
              \/ Added(u.request) = {task.dataset} /\ report[task.dataset] = u

\* A contract revision binds a contract to a data set (workspace.py:4281), but
\* after an upload that ended between the two writes, an update of the contract
\* records the new file under the old data set, and a Run starts on it.
StartsOnShownData == run.status # "none" => run.contract.dataset = run.dataset

\* A view of an ended Run, written after a commit, takes the data set away
\* again; written before the receipt, the receipt names an older data set.
ReceiptAlwaysTrue ==
    \A q \in Requests :
        receipt[q].status = "completed" =>
            /\ receipt[q].dataset \in task.history
            /\ report[receipt[q].dataset].request = q
=============================================================================
