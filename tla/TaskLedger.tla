----------------------------- MODULE TaskLedger -----------------------------
(* One training Task: the document (task.json) that owns its Runs, the       *)
(* contract its users confirm, the one-time authorizations a start consumes, *)
(* and the threads of the server that work on them.                          *)
(*                                                                           *)
(* TrainingWorkspace._lock serialises the operations, but not what follows   *)
(* them: get_task, at the end of every request, reads the document under the *)
(* lock and writes it back without (_view), when the Run it shows as running *)
(* has ended.  A Run spans three documents (task.json, run_state.json and    *)
(* the authorization), written one after the other, and a process may die    *)
(* between any two writes.  The Run itself is RunLifecycle's; what its        *)
(* document goes through here is what the threads of the task can see of it: *)
(* its worker's verdict, and a canceller's older copy put over the verdict.  *)
EXTENDS Naturals, FiniteSets

CONSTANTS
    RunIds,        \* identifiers new Runs take
    Grants,        \* approval checkpoints, each good for one authorization
    Callers,       \* threads that change the task (the event loop)
    Viewers,       \* threads that read or archive it (the request pool)
    Cancellers,    \* those of both that cancel its Runs
    MaxContracts,  \* bound: versions of the training contract
    MaxRestarts    \* bound: how often the process dies

Nobody == "nobody"
NoRun == "no run"
NoGrant == "no grant"
Threads == Callers \cup Viewers
NoIntent == [run |-> NoRun, parent |-> NoRun, operation |-> "none", before |-> "ready"]

ASSUME TaskLedgerAssumption ==
    /\ MaxContracts \in Nat \ {0}
    /\ MaxRestarts \in Nat
    /\ Cancellers \subseteq Threads
    /\ Nobody \notin Threads
    /\ NoRun \notin RunIds
    /\ NoGrant \notin Grants

VARIABLES
    task,         \* task.json
    contract,     \* version of the contract file
    approved,     \* versions with an ApprovalDecision on disk
    run,          \* run_state.json of each Run, with the contract it started from
    grant,        \* delivery authorizations
    lock,         \* holder of TrainingWorkspace._lock between two steps
    at,           \* where each thread is
    doc,          \* the copy of the document a thread works on
    using,        \* the authorization a thread is consuming
    serving,      \* the process is up
    restarts,
    worker,       \* what the copy of each Run's worker says, if it has one
    copy,         \* the Run of which a cancelling thread holds an active copy
    undone,       \* history: the verdicts of each Run such a copy has undone
    overwritten   \* history: some view has written over a newer document

files == <<task, contract, approved, run, grant>>
threads == <<lock, at, doc, using>>
runtime == <<worker, copy, undone>>
process == <<serving, restarts, worker, copy, undone>>
vars == <<task, contract, approved, run, grant, lock, at, doc, using, serving,
          restarts, worker, copy, undone, overwritten>>

-----------------------------------------------------------------------------
\* What a Run can be taken up from.  The ledger treats "cancelled" like
\* "failed" everywhere: one stands for both.
Recoverable == {"failed", "interrupted"}
Ended == Recoverable \cup {"completed"}
TaskStatuses == Ended \cup {"data_ready", "ready", "running"}
RunStatuses == Ended \cup {"absent", "active"}
\* A Run has no worker, or one that works on it or has settled it; "taken" is
\* one taken back from the executor's queue.
WorkerStates == Ended \cup {"none", "active", "taken"}
Operations == {"start", "resume", "apply_strategy"}

Intents == [run : RunIds, parent : RunIds \cup {NoRun}, operation : Operations,
            before : TaskStatuses]
Tasks == [status : TaskStatuses, current : RunIds \cup {NoRun}, runs : SUBSET RunIds,
          pending : Intents \cup {NoIntent}, confirmed : 0 .. MaxContracts,
          revision : 1 .. MaxContracts, archived : BOOLEAN]
RunRecords == [status : RunStatuses, line : SUBSET RunIds, origin : 0 .. MaxContracts,
               grant : Grants \cup {NoGrant}]
Scopes == [contract : 0 .. MaxContracts, status : TaskStatuses,
           prior : RunIds \cup {NoRun}]
GrantStatuses == {"none", "issued", "consuming", "consumed", "failed", "expired",
                  "invalidated"}
GrantRecords == [status : GrantStatuses, scope : Scopes, outcome : RunIds \cup {NoRun}]
Places == {"idle", "record", "begin", "submit", "finalize", "failed", "return",
           "view", "write", "complete", "cancel", "asked", "settled", "closed"}

Unborn == [status |-> "absent", line |-> {}, origin |-> 0, grant |-> NoGrant]
NewTask == [status |-> "data_ready", current |-> NoRun, runs |-> {},
            pending |-> NoIntent, confirmed |-> 0, revision |-> 1, archived |-> FALSE]
NoScope == [contract |-> 0, status |-> "data_ready", prior |-> NoRun]

Goto(t, p) == at' = [at EXCEPT ![t] = p]
Idle(t) == serving /\ at[t] = "idle" /\ lock = Nobody

\* How a task shows the state of its Run.
Shown(s) == IF s \in Ended THEN s ELSE "running"

\* _reconcile_pending_run: an intent whose Run was never created is undone,
\* one whose Run exists is carried through.
Recovers(d) == d.pending # NoIntent /\ run[d.pending.run].status # "absent"
\* Mutant of Reconciled: every intent is undone.
UndoIntent(d, rs) ==
    IF d.pending = NoIntent THEN d
    ELSE [d EXCEPT !.pending = NoIntent, !.status = d.pending.before]
Reconciled(d, rs) ==
    IF d.pending = NoIntent THEN d
    ELSE LET r == d.pending.run
         IN  IF rs[r].status = "absent"
             THEN [d EXCEPT !.pending = NoIntent, !.status = d.pending.before]
             ELSE [d EXCEPT !.pending = NoIntent, !.runs = d.runs \cup {r},
                            !.current = r, !.status = Shown(rs[r].status)]

\* _authorize_task_run_creation.  A confirmation counts while the contract
\* file and the revision the task points to are still the confirmed version.
\* Mutants: the file is not compared; the contract of the line is not.
ConfirmedRevision(d) == d.confirmed # 0 /\ d.confirmed = d.revision
OwnRuns(d, parent) ==
    parent # NoRun => parent \in d.runs /\ run[parent].line \subseteq d.runs
NothingRuns(d, parent) ==
    d.current \notin {NoRun, parent} => run[d.current].status # "active"
Confirmed(d) ==
    d.confirmed # 0 /\ d.confirmed = contract /\ d.confirmed = d.revision
OwnLineage(d, parent) ==
    parent # NoRun => /\ parent \in d.runs
                      /\ run[parent].line \subseteq d.runs
                      /\ run[parent].origin = d.confirmed
Authorized(d, parent) ==
    /\ ~d.archived
    /\ NothingRuns(d, parent)
    /\ Confirmed(d)
    /\ OwnLineage(d, parent)

\* _task_run_start_scope: what an approval of a start is bound to.
Startable(d) ==
    /\ Authorized(d, NoRun)
    /\ d.status \in Recoverable \cup {"ready"}
    /\ d.pending = NoIntent
    /\ IF d.current = NoRun THEN d.status = "ready"
       ELSE run[d.current].status \in Recoverable
Scope(d) == [contract |-> d.confirmed, status |-> d.status, prior |-> d.current]

-----------------------------------------------------------------------------
\* The data set has been imported and the first contract written.
Init ==
    /\ task = NewTask
    /\ contract = 1
    /\ approved = {}
    /\ run = [r \in RunIds |-> Unborn]
    /\ grant = [g \in Grants |-> [status |-> "none", scope |-> NoScope, outcome |-> NoRun]]
    /\ lock = Nobody
    /\ at = [t \in Threads |-> "idle"]
    /\ doc = [t \in Threads |-> NewTask]
    /\ using = [t \in Threads |-> NoGrant]
    /\ serving = TRUE
    /\ restarts = 0
    /\ worker = [r \in RunIds |-> "none"]
    /\ copy = [t \in Threads |-> NoRun]
    /\ undone = [r \in RunIds |-> {}]
    /\ overwritten = FALSE

-----------------------------------------------------------------------------
(* get_task: under the lock, reconcile and copy; then look at the Run and    *)
(* perhaps write the copy back, outside the lock.                            *)
GetTask(t) ==
    /\ \/ Idle(t)
       \/ at[t] = "return" /\ lock \in {Nobody, t}
    /\ task' = Reconciled(task, run)
    /\ doc' = [doc EXCEPT ![t] = Reconciled(task, run)]
    /\ Goto(t, "view")
    /\ UNCHANGED <<contract, approved, run, grant, lock, using, process, overwritten>>

\* Where the thread goes after its view; it drops its copy.
Answered(t, d) ==
    /\ Goto(t, IF using[t] = NoGrant THEN "idle" ELSE "complete")
    /\ doc' = [doc EXCEPT ![t] = IF using[t] = NoGrant THEN NewTask ELSE d]

RunEnded(d) ==
    d.status = "running" /\ d.current # NoRun /\ run[d.current].status \in Ended

View(t) ==
    /\ at[t] = "view"
    /\ ~RunEnded(doc[t])
    /\ Answered(t, doc[t])
    /\ UNCHANGED <<files, lock, using, process, overwritten>>

ViewEnded(t) ==
    /\ at[t] = "view"
    /\ RunEnded(doc[t])
    /\ doc' = [doc EXCEPT ![t].status = Shown(run[doc[t].current].status)]
    /\ Goto(t, "write")
    /\ UNCHANGED <<files, lock, using, process, overwritten>>

WriteView(t) ==
    /\ at[t] = "write"
    /\ task' = doc[t]
    /\ overwritten' = (overwritten \/ task \notin {doc[t], [doc[t] EXCEPT !.status = "running"]})
    /\ Answered(t, doc[t])
    /\ UNCHANGED <<contract, approved, run, grant, lock, using, process>>

\* The same write, between the read and the write of an operation that holds
\* the lock (those are one step here): the operation writes over it.
WriteViewLost(t) ==
    /\ at[t] = "write"
    /\ Answered(t, doc[t])
    /\ UNCHANGED <<files, lock, using, process, overwritten>>

\* Mutant of ArchiveTask: without the lock.
ArchiveUnlocked(t) ==
    /\ serving /\ at[t] = "idle"
    /\ task.status # "running"
    /\ task' = [task EXCEPT !.archived = TRUE]
    /\ Goto(t, "return")
    /\ UNCHANGED <<contract, approved, run, grant, lock, doc, using, process, overwritten>>

ArchiveTask(t) ==
    /\ Idle(t)
    /\ task.status # "running"
    /\ task' = [task EXCEPT !.archived = TRUE]
    /\ Goto(t, "return")
    /\ UNCHANGED <<contract, approved, run, grant, lock, doc, using, process, overwritten>>

-----------------------------------------------------------------------------
\* update_contract: the contract file first, then the document that points to
\* the new revision and forgets the confirmation and the current Run.
UpdateContract(t) ==
    /\ Idle(t)
    /\ task.status # "running"
    /\ contract < MaxContracts
    /\ contract' = contract + 1
    /\ doc' = [doc EXCEPT ![t] = [task EXCEPT !.confirmed = 0, !.current = NoRun,
                                              !.status = "data_ready"]]
    /\ lock' = t
    /\ Goto(t, "record")
    /\ UNCHANGED <<task, approved, run, grant, using, process, overwritten>>

\* Mutant of RecordRevision: the pointer is one ahead of the contract.
RecordNextRevision(t) ==
    /\ at[t] = "record"
    /\ task' = [doc[t] EXCEPT !.revision = contract + 1]
    /\ lock' = Nobody
    /\ Goto(t, "return")
    /\ UNCHANGED <<contract, approved, run, grant, doc, using, process, overwritten>>

RecordRevision(t) ==
    /\ at[t] = "record"
    /\ task' = [doc[t] EXCEPT !.revision = contract]
    /\ lock' = Nobody
    /\ Goto(t, "return")
    /\ UNCHANGED <<contract, approved, run, grant, doc, using, process, overwritten>>

\* confirm_contract: the user names the revision they reviewed, which has to
\* be the contract file's.  A running task is not refused.
ConfirmContract(t) ==
    /\ Idle(t)
    /\ task.revision = contract
    /\ approved' = approved \cup {contract}
    /\ task' = [task EXCEPT !.confirmed = contract, !.status = "ready"]
    /\ Goto(t, "return")
    /\ UNCHANGED <<contract, run, grant, lock, doc, using, process, overwritten>>

\* Any attempt to start finds a confirmation that no longer fits and drops it.
Unfit(d, parent) ==
    /\ ~d.archived
    /\ NothingRuns(d, parent)
    /\ d.confirmed # 0 /\ ~Confirmed(d)
Revoked(d) == [d EXCEPT !.confirmed = 0, !.status = "data_ready"]

RevokeConfirmation(t, parent) ==
    /\ Idle(t)
    /\ parent \in task.runs \cup {NoRun}
    /\ parent # NoRun => ~Recovers(task)
    /\ Unfit(task, parent)
    /\ task' = Revoked(task)
    /\ UNCHANGED <<contract, approved, run, grant, threads, process, overwritten>>

-----------------------------------------------------------------------------
(* Authorizations: issued for the scope of the moment, reserved once.        *)
\* Mutant of IssueGrant: an approval can be turned into an authorization again.
IssueGrantAgain(t, g) ==
    /\ Idle(t)
    /\ Startable(task)
    /\ grant' = [grant EXCEPT ![g] = [status |-> "issued", scope |-> Scope(task),
                                      outcome |-> NoRun]]
    /\ Goto(t, "return")
    /\ UNCHANGED <<task, contract, approved, run, lock, doc, using, process, overwritten>>

IssueGrant(t, g) ==
    /\ Idle(t)
    /\ Startable(task)
    /\ grant[g].status = "none"
    /\ grant' = [grant EXCEPT ![g] = [status |-> "issued", scope |-> Scope(task),
                                      outcome |-> NoRun]]
    /\ Goto(t, "return")
    /\ UNCHANGED <<task, contract, approved, run, lock, doc, using, process, overwritten>>

\* Mutant of Reserve: the scope of the moment is not compared.
ReserveAnyScope(t, g) ==
    /\ Idle(t)
    /\ Startable(task)
    /\ grant[g].status = "issued"
    /\ grant' = [grant EXCEPT ![g].status = "consuming"]
    /\ lock' = t
    /\ using' = [using EXCEPT ![t] = g]
    /\ Goto(t, "begin")
    /\ UNCHANGED <<task, contract, approved, run, doc, process, overwritten>>

\* reserve: the rest of the start runs under the lock.
Reserve(t, g) ==
    /\ Idle(t)
    /\ Startable(task)
    /\ grant[g].status = "issued"
    /\ grant[g].scope = Scope(task)
    /\ grant' = [grant EXCEPT ![g].status = "consuming"]
    /\ lock' = t
    /\ using' = [using EXCEPT ![t] = g]
    /\ Goto(t, "begin")
    /\ UNCHANGED <<task, contract, approved, run, doc, process, overwritten>>

\* It was issued too long ago, or the request or the task has another scope.
RefuseGrant(t, g, verdict) ==
    /\ Idle(t)
    /\ Startable(task)
    /\ grant[g].status = "issued"
    /\ verdict \in {"expired", "invalidated"}
    /\ grant' = [grant EXCEPT ![g].status = verdict]
    /\ UNCHANGED <<task, contract, approved, run, threads, process, overwritten>>

-----------------------------------------------------------------------------
(* A Run is announced in the task (intent), created, and entered (finalize). *)
BeginIntent(t, d, r, parent, op) ==
    /\ run[r].status = "absent"
    /\ task' = [d EXCEPT !.pending = [run |-> r, parent |-> parent, operation |-> op,
                                      before |-> d.status]]
    /\ doc' = [doc EXCEPT ![t] = task']
    /\ lock' = t
    /\ Goto(t, "submit")
    /\ UNCHANGED <<contract, approved, run, grant, using, process, overwritten>>

\* start_run, inside start_run_with_authorization.
StartRun(t, r) ==
    /\ at[t] = "begin"
    /\ ~Recovers(task)
    /\ Authorized(Reconciled(task, run), NoRun)
    /\ BeginIntent(t, Reconciled(task, run), r, NoRun, "start")

\* A view wrote an older document since the scope was compared.
StartRefused(t) ==
    /\ at[t] = "begin"
    /\ ~Authorized(task, NoRun)
    /\ task' = IF Unfit(task, NoRun) THEN Revoked(task) ELSE task
    /\ Goto(t, "failed")
    /\ UNCHANGED <<contract, approved, run, grant, lock, doc, using, process, overwritten>>

\* resume_run and apply_strategy.  (With an intent to carry through they
\* answer with that Run: GetTask.)
StartChild(t, r, parent, op) ==
    /\ Idle(t)
    /\ op \in {"resume", "apply_strategy"}
    /\ ~Recovers(task)
    /\ parent \in task.runs
    /\ Authorized(Reconciled(task, run), parent)
    /\ BeginIntent(t, Reconciled(task, run), r, parent, op)

\* The thread knows the Run it announced, whatever became of the document.
Intent(t) == doc[t].pending

\* RunService.resume and apply_strategy ask for this state of the parent.
ParentAllows(i) ==
    \/ i.operation = "start"
    \/ i.operation = "resume" /\ run[i.parent].status \in Recoverable
    \/ i.operation = "apply_strategy" /\ run[i.parent].status = "completed"

\* prepare_run: the Run's directory, with its own copy of the contract.
Created(t, status) ==
    LET i == Intent(t)
        parent == run[i.parent]
        child == i.parent # NoRun
    IN  [run EXCEPT ![i.run] =
            [status |-> status,
             line |-> {i.run} \cup IF child THEN parent.line ELSE {},
             origin |-> IF child THEN parent.origin ELSE contract,
             grant |-> using[t]]]

Submit(t) ==
    /\ at[t] = "submit"
    /\ ParentAllows(Intent(t))
    /\ run' = Created(t, "active")
    /\ worker' = [worker EXCEPT ![Intent(t).run] = "active"]
    /\ Goto(t, "finalize")
    /\ UNCHANGED <<task, contract, approved, grant, lock, doc, using, serving, restarts,
                   copy, undone, overwritten>>

\* The executor refuses the Run after it was created; the intent stays.
SubmitUnscheduled(t) ==
    /\ at[t] = "submit"
    /\ ParentAllows(Intent(t))
    /\ run' = Created(t, "interrupted")
    /\ Goto(t, "failed")
    /\ UNCHANGED <<task, contract, approved, grant, lock, doc, using, process, overwritten>>

Pending(t) == task.pending.run = Intent(t).run

\* Mutant of SubmitRefused: the task is marked failed.
SubmitFailsTask(t) ==
    /\ at[t] = "submit"
    /\ task' = [task EXCEPT !.pending = NoIntent, !.status = "failed"]
    /\ Goto(t, "failed")
    /\ UNCHANGED <<contract, approved, run, grant, lock, doc, using, process, overwritten>>

\* _rollback_run_intent_if_uncreated: the service is closing, or will not
\* take this Run.
SubmitRefused(t) ==
    /\ at[t] = "submit"
    /\ task' = IF Pending(t)
               THEN [task EXCEPT !.pending = NoIntent, !.status = task.pending.before]
               ELSE task
    /\ Goto(t, "failed")
    /\ UNCHANGED <<contract, approved, run, grant, lock, doc, using, process, overwritten>>

\* start_run_with_authorization keeps the lock until it has completed the
\* authorization; resume_run and apply_strategy are through with it.
Finalize(t) ==
    /\ at[t] = "finalize"
    /\ Pending(t)
    /\ task' = [task EXCEPT !.pending = NoIntent, !.current = Intent(t).run,
                            !.runs = task.runs \cup {Intent(t).run}, !.status = "running"]
    /\ lock' = IF using[t] = NoGrant THEN Nobody ELSE t
    /\ Goto(t, "return")
    /\ UNCHANGED <<contract, approved, run, grant, doc, using, process, overwritten>>

IntentLost(t) ==
    /\ at[t] = "finalize"
    /\ ~Pending(t)
    /\ Goto(t, "failed")
    /\ UNCHANGED <<files, lock, doc, using, process, overwritten>>

\* The end of a start, good or bad.
Leave(t) ==
    /\ lock' = Nobody
    /\ using' = [using EXCEPT ![t] = NoGrant]
    /\ doc' = [doc EXCEPT ![t] = NewTask]
    /\ Goto(t, "idle")
    /\ UNCHANGED <<task, contract, approved, run, process, overwritten>>

Fail(t) ==
    /\ at[t] = "failed"
    /\ grant' = IF using[t] = NoGrant THEN grant
                ELSE [grant EXCEPT ![using[t]].status = "failed"]
    /\ Leave(t)

\* complete(): the outcome names the task's current Run.
Complete(t) ==
    /\ at[t] = "complete"
    /\ grant' = [grant EXCEPT ![using[t]].status =
                                  IF doc[t].current = NoRun THEN "failed" ELSE "consumed",
                              ![using[t]].outcome = doc[t].current]
    /\ Leave(t)

-----------------------------------------------------------------------------
(* The Run's worker reaches a verdict (RunLifecycle).  Its later saves write *)
(* the verdict again, over what a canceller has saved meanwhile.             *)
RunEnds(r, verdict) ==
    /\ worker[r] = "active"
    /\ verdict \in Ended \ {"interrupted"}
    /\ run' = [run EXCEPT ![r].status = verdict]
    /\ worker' = [worker EXCEPT ![r] = verdict]
    /\ UNCHANGED <<task, contract, approved, grant, threads, serving, restarts, copy,
                   undone, overwritten>>

WorkerSaves(r) ==
    /\ worker[r] \in Ended
    /\ run' = [run EXCEPT ![r].status = worker[r]]
    /\ UNCHANGED <<task, contract, approved, grant, threads, process, overwritten>>

(* cancel_run keeps the lock from reading the document to writing it back,   *)
(* but not the worker from its Run; close() asks the workers of a service    *)
(* that ends to stop, with no regard to the task.  Both load the Run, save   *)
(* it, and settle one they took back from the queue.                         *)
CancelRun(t, r) ==
    /\ Idle(t)
    /\ r \in task.runs
    /\ run[r].status = "active"
    /\ copy' = [copy EXCEPT ![t] = r]
    /\ doc' = [doc EXCEPT ![t] = task]
    /\ lock' = t
    /\ Goto(t, "cancel")
    /\ UNCHANGED <<files, using, serving, restarts, worker, undone, overwritten>>

CloseAsks(t, r) ==
    /\ serving /\ lock # t
    /\ at[t] \in {"idle", "closed"}
    /\ worker[r] # "none"
    /\ run[r].status = "active"
    /\ copy' = [copy EXCEPT ![t] = r]
    /\ Goto(t, "cancel")
    /\ UNCHANGED <<files, lock, doc, using, serving, restarts, worker, undone, overwritten>>

\* request_cancel, more than once: the status of the copy, whatever the Run's
\* is by now.
CancelSaves(t) ==
    /\ at[t] \in {"cancel", "asked"}
    /\ run' = [run EXCEPT ![copy[t]].status = "active"]
    /\ undone' = [undone EXCEPT ![copy[t]] = @ \cup ({run[copy[t]].status} \cap Ended)]
    /\ Goto(t, "asked")
    /\ UNCHANGED <<task, contract, approved, grant, lock, doc, using, serving, restarts,
                   worker, copy, overwritten>>

\* The Run had not started: from the latest copy, it is cancelled.
CancelSettles(t) ==
    /\ at[t] = "asked"
    /\ worker[copy[t]] \in {"active", "taken"}
    /\ worker' = [worker EXCEPT ![copy[t]] = "taken"]
    /\ run' = IF run[copy[t]].status = "active"
              THEN [run EXCEPT ![copy[t]].status = "failed"] ELSE run
    /\ Goto(t, "settled")
    /\ UNCHANGED <<task, contract, approved, grant, lock, doc, using, serving, restarts,
                   copy, undone, overwritten>>

Cancelled(t) ==
    /\ at[t] \in {"asked", "settled"}
    /\ at[t] = "asked" => worker[copy[t]] # "taken"
    /\ copy' = [copy EXCEPT ![t] = NoRun]

CancelReturns(t) ==
    /\ lock = t
    /\ Cancelled(t)
    /\ task' = doc[t]
    /\ lock' = Nobody
    /\ Goto(t, "return")
    /\ UNCHANGED <<contract, approved, run, grant, doc, using, serving, restarts, worker,
                   undone, overwritten>>

CloseGoesOn(t) ==
    /\ lock # t
    /\ Cancelled(t)
    /\ Goto(t, "closed")
    /\ UNCHANGED <<files, lock, doc, using, serving, restarts, worker, undone, overwritten>>

Crash ==
    /\ serving
    /\ restarts < MaxRestarts
    /\ serving' = FALSE
    /\ restarts' = restarts + 1
    /\ lock' = Nobody
    /\ at' = [t \in Threads |-> "idle"]
    /\ doc' = [t \in Threads |-> NewTask]
    /\ using' = [t \in Threads |-> NoGrant]
    /\ worker' = [r \in RunIds |-> "none"]
    /\ copy' = [t \in Threads |-> NoRun]
    /\ UNCHANGED <<files, undone, overwritten>>

\* A new process interrupts the Runs it finds, then reconciles the tasks.
Interrupted ==
    [r \in RunIds |-> IF run[r].status = "active"
                      THEN [run[r] EXCEPT !.status = "interrupted"] ELSE run[r]]

Restart ==
    /\ ~serving
    /\ serving' = TRUE
    /\ run' = Interrupted
    /\ task' = Reconciled(task, Interrupted)
    /\ UNCHANGED <<contract, approved, grant, threads, restarts, runtime, overwritten>>

-----------------------------------------------------------------------------
Read(t) == GetTask(t) \/ View(t) \/ ViewEnded(t) \/ WriteView(t) \/ WriteViewLost(t)

Configure(t) ==
    \/ UpdateContract(t) \/ RecordRevision(t) \/ ConfirmContract(t)
    \/ \E parent \in RunIds \cup {NoRun} : RevokeConfirmation(t, parent)

Authorize(t, g) ==
    \/ IssueGrant(t, g) \/ Reserve(t, g)
    \/ \E verdict \in {"expired", "invalidated"} : RefuseGrant(t, g, verdict)

Launch(t) ==
    \/ \E r \in RunIds : StartRun(t, r)
    \/ \E r, parent \in RunIds, op \in Operations : StartChild(t, r, parent, op)
    \/ StartRefused(t) \/ Submit(t) \/ SubmitUnscheduled(t) \/ SubmitRefused(t)
    \/ Finalize(t) \/ IntentLost(t) \/ Fail(t) \/ Complete(t)

Cancel(t) ==
    \/ \E r \in RunIds : CancelRun(t, r)
    \/ CancelSaves(t) \/ CancelSettles(t) \/ CancelReturns(t) \/ CloseGoesOn(t)

Next ==
    \/ \E t \in Threads : Read(t)
    \/ \E t \in Cancellers : Cancel(t)
    \/ \E t \in Viewers : ArchiveTask(t)
    \/ \E t \in Callers : Configure(t) \/ Launch(t) \/ \E g \in Grants : Authorize(t, g)
    \/ \E t \in Callers \cap Cancellers, r \in RunIds : CloseAsks(t, r)
    \/ \E r \in RunIds : WorkerSaves(r) \/ \E verdict \in Ended : RunEnds(r, verdict)
    \/ Crash \/ Restart

Spec == Init /\ [][Next]_vars

-----------------------------------------------------------------------------
TypeOK ==
    /\ task \in Tasks
    /\ contract \in 1 .. MaxContracts
    /\ approved \in SUBSET (1 .. MaxContracts)
    /\ run \in [RunIds -> RunRecords]
    /\ grant \in [Grants -> GrantRecords]
    /\ lock \in Threads \cup {Nobody}
    /\ at \in [Threads -> Places]
    /\ doc \in [Threads -> Tasks]
    /\ using \in [Threads -> Grants \cup {NoGrant}]
    /\ serving \in BOOLEAN
    /\ restarts \in 0 .. MaxRestarts
    /\ worker \in [RunIds -> WorkerStates]
    /\ copy \in [Threads -> RunIds \cup {NoRun}]
    /\ undone \in [RunIds -> SUBSET Ended]
    /\ overwritten \in BOOLEAN

Exists(r) == run[r].status # "absent"

\* No Run, root or child, ever trains from a contract version no user
\* confirmed, whatever a crash between the contract file and the document or
\* a view that brings back an older document does to the confirmation.
Consent == \A r \in RunIds : Exists(r) => run[r].origin \in approved

\* A Run is only ever created, from scratch or from a parent, while the
\* contract its line started from is the one on disk and in force: a contract
\* update never meets a retry or a strategy of the old contract.
LineIsCurrent ==
    [][\A r \in RunIds : ~Exists(r) /\ run'[r].status # "absent" =>
          run'[r].origin = contract /\ contract \in approved]_vars

\* Archiving a task and starting one of its Runs exclude each other, unless a
\* view wrote an older document.
ArchivedStartsNothing ==
    [][\A r \in RunIds : ~Exists(r) /\ run'[r].status # "absent" =>
          ~task.archived \/ overwritten]_vars

\* One approval of the user starts at most one Run, even when the process dies
\* while its authorization is being consumed and the client tries again.
GrantStartsOne ==
    \A r, s \in RunIds :
        run[r].grant # NoGrant /\ run[r].grant = run[s].grant => r = s

\* The Run an authorization started trains the contract it was approved for,
\* and what the authorization says became of it is that Run, unless a view wrote
\* an older document meanwhile.
GrantIsExact ==
    /\ \A r \in RunIds : run[r].grant # NoGrant =>
          /\ grant[run[r].grant].status \in {"consuming", "consumed", "failed"}
          /\ run[r].origin = grant[run[r].grant].scope.contract
    /\ \A g \in Grants : grant[g].status = "consumed" /\ ~overwritten =>
          grant[g].outcome # NoRun /\ run[grant[g].outcome].grant = g

\* Every Run that exists is in the task's lineage or announced by its intent,
\* wherever a process dies, unless a view wrote an older document.
RunsAccountedFor ==
    ~overwritten => \A r \in RunIds :
        Exists(r) => r \in task.runs \/ task.pending.run = r

\* A task only shows an outcome its current Run has, or had until the stale
\* copy of a canceller put an active status over it (state.py:121).
OutcomeIsTheRuns ==
    task.status \in Ended =>
        /\ task.current # NoRun
        /\ task.status \in {run[task.current].status} \cup undone[task.current]

\* The same without the canceller: what a task shows is what its Run says.
OutcomeIsShown ==
    task.status \in Ended => task.current # NoRun /\ run[task.current].status = task.status

\* A task trains one Run at a time.
OneActiveRun ==
    \A r, s \in RunIds : worker[r] = "active" /\ worker[s] = "active" => r = s

\* A Run never leaves the lineage of its task.
LineageKept == [][task.runs \subseteq task'.runs]_vars
=============================================================================
