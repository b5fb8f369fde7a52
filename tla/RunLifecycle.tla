---------------------------- MODULE RunLifecycle ----------------------------
(* The persistent training Run: its state document (run_state.json), its     *)
(* event log (events.ndjson), the RunService that creates, schedules,        *)
(* cancels, drains and recovers Runs, and the worker that executes one.      *)
(*                                                                           *)
(* Every thread that touches a Run loads its own RunState instance, a copy   *)
(* of the document.  Two operations on the document are atomic               *)
(* (_STATE_IO_LOCK): a save, which merges the event counter and the cancel   *)
(* flag from disk and then writes the whole copy, and an event, which        *)
(* appends to the log and saves.  A call such as transition() is a save      *)
(* followed by events; other threads run in between.  "todo" holds the       *)
(* events a thread still has to write before it goes on.                     *)
EXTENDS Naturals, Sequences, FiniteSets

CONSTANTS
    Runs,        \* run identifiers; a worker is named after its Run
    Cancellers,  \* threads that each call RunService.cancel once
    MaxWorkers,  \* max_workers of the ThreadPoolExecutor
    MaxRestarts  \* bound: how often a new process comes to serve the directory

Service == "service"  \* submit(), close() and recover_stale_runs()
NoRun == "no run"
Actors == Runs \cup Cancellers \cup {Service}

ASSUME RunLifecycleAssumption ==
    /\ MaxWorkers \in Nat \ {0}
    /\ MaxRestarts \in Nat
    /\ Service \notin Runs \cup Cancellers
    /\ NoRun \notin Runs
    /\ Runs \cap Cancellers = {}

VARIABLES
    disk,      \* run_state.json of each Run: status, event_seq, cancel_requested
    log,       \* events.ndjson of each Run
    mem,       \* the RunState instance a thread works on
    job,       \* the Run that instance belongs to
    todo,      \* events the thread writes before its next step
    pc,        \* where the thread is
    future,    \* RunService._futures
    queue,     \* work queue of the executor
    owned,     \* Runs close() has still to ask to stop
    restarts   \* processes that have come to serve after the first one

persisted == <<disk, log>>
threads == <<mem, job, todo, pc>>
pool == <<future, queue, owned>>
vars == <<disk, log, mem, job, todo, pc, future, queue, owned, restarts>>

-----------------------------------------------------------------------------
ActiveStatuses ==
    {"created", "queued", "preflight", "training", "evaluating", "proposing",
     "packaging", "needs_input"}
TerminalStatuses == {"completed", "cancelled", "failed", "interrupted"}
Statuses == ActiveStatuses \cup TerminalStatuses \cup {"absent"}

Stopped == {"cancelled", "failed", "interrupted"}
AllowedTransitions ==
    [s \in Statuses |->
        CASE s = "created"     -> {"queued", "preflight"} \cup Stopped
          [] s = "queued"      -> {"preflight"} \cup Stopped
          [] s = "preflight"   -> {"training", "needs_input"} \cup Stopped
          [] s = "training"    -> {"evaluating"} \cup Stopped
          [] s = "evaluating"  -> {"proposing"} \cup Stopped
          [] s = "proposing"   -> {"packaging"} \cup Stopped
          [] s = "packaging"   -> {"completed"} \cup Stopped
          [] s = "needs_input" -> {"queued", "preflight"} \cup Stopped
          [] OTHER             -> {}]

\* The stage execute_run enters after the one its instance shows.
NextStage ==
    [s \in {"queued", "preflight", "training", "evaluating", "proposing"} |->
        CASE s = "queued"     -> "preflight"
          [] s = "preflight"  -> "training"
          [] s = "training"   -> "evaluating"
          [] s = "evaluating" -> "proposing"
          [] s = "proposing"  -> "packaging"]

EventTypes ==
    {"created", "status_changed", "queued", "work", "cancel_requested",
     "cancelled", "failed", "interrupted", "report_failed"}
Announcements == [type : EventTypes, stage : Statuses]
Events == [type : EventTypes, stage : Statuses, seq : Nat]
States == [status : Statuses, seq : Nat, cancel : BOOLEAN]
Absent == [status |-> "absent", seq |-> 0, cancel |-> FALSE]
Futures == {"none", "pending", "running", "cancelled", "done"}
ServicePCs == {"open", "creating", "queueing", "unscheduled", "closing",
               "load", "request", "future", "latest", "settle", "settled",
               "closed", "down", "recovering"}
CancellerPCs == {"ready", "request", "future", "latest", "settle", "settled",
                 "spent"}
WorkerPCs == {"idle", "load", "check", "enter", "work", "complete",
              "cancelling", "failing", "report", "leaving"}

MaxOf(m, n) == IF m >= n THEN m ELSE n

\* Mutants of Merge: the writer's own counter, the writer's own flag.
MergeKeepsOwnCounter(m, d) == [m EXCEPT !.cancel = m.cancel \/ d.cancel]
MergeKeepsOwnFlag(m, d) == [m EXCEPT !.seq = MaxOf(m.seq, d.seq)]

\* _merge_persisted_control_state: counter and cancel flag survive, the
\* status of the instance wins.
Merge(m, d) == [m EXCEPT !.seq = MaxOf(m.seq, d.seq),
                         !.cancel = m.cancel \/ d.cancel]

\* RunState.load: the counter is the larger of the document's and the log's.
LastSeq(events) ==
    CHOOSE n \in {0} \cup {events[i].seq : i \in DOMAIN events} :
        \A i \in DOMAIN events : events[i].seq <= n
\* Mutant of Loaded: the document alone.
LoadedFromDocument(r) == disk[r]
Loaded(r) == [disk[r] EXCEPT !.seq = MaxOf(disk[r].seq, LastSeq(log[r]))]

\* _save of instance m of Run r by thread a.
Save(a, r, m) ==
    /\ mem' = [mem EXCEPT ![a] = Merge(m, disk[r])]
    /\ disk' = [disk EXCEPT ![r] = Merge(m, disk[r])]

StatusChanged(s) == [type |-> "status_changed", stage |-> s]
Note(t, s) == [type |-> t, stage |-> s]
CanBecome(a, s) == s \in AllowedTransitions[mem[a].status]

\* transition() followed by the events that come with it: the save now, the
\* events one by one.  The guard reads the instance only.
Transition(a, s, more) ==
    /\ CanBecome(a, s)
    /\ Save(a, job[a], [mem[a] EXCEPT !.status = s])
    /\ todo' = [todo EXCEPT ![a] = <<StatusChanged(s)>> \o more]

Goto(a, p) == pc' = [pc EXCEPT ![a] = p]
At(a, p) == pc[a] = p /\ todo[a] = <<>>

\* RunService._lock is held from the start of submit() to its end.
LockFree == pc[Service] \notin {"creating", "queueing", "unscheduled"}
Alive == pc[Service] \notin {"down", "recovering", "closed"}

-----------------------------------------------------------------------------
Init ==
    /\ disk = [r \in Runs |-> Absent]
    /\ log = [r \in Runs |-> <<>>]
    /\ mem = [a \in Actors |-> Absent]
    /\ job = [a \in Actors |-> NoRun]
    /\ todo = [a \in Actors |-> <<>>]
    /\ pc = [a \in Actors |->
                IF a = Service THEN "open"
                ELSE IF a \in Cancellers THEN "ready" ELSE "idle"]
    /\ future = [r \in Runs |-> "none"]
    /\ queue = <<>>
    /\ owned = {}
    /\ restarts = 0

\* RunState.event: merge, number, append to the log, save.
Appended(a) ==
    LET e == Head(todo[a])
        m == Merge(mem[a], disk[job[a]])
    IN  Append(log[job[a]], [type |-> e.type, stage |-> e.stage, seq |-> m.seq + 1])

Announce(a) ==
    /\ todo[a] # <<>>
    /\ LET m == Merge(mem[a], disk[job[a]])
       IN  Save(a, job[a], [m EXCEPT !.seq = m.seq + 1])
    /\ log' = [log EXCEPT ![job[a]] = Appended(a)]
    /\ todo' = [todo EXCEPT ![a] = Tail(todo[a])]
    /\ UNCHANGED <<job, pc, pool, restarts>>

-----------------------------------------------------------------------------
(* submit(): prepare_run and the hand-over to the executor, under _lock.     *)
Submit(r) ==
    /\ At(Service, "open")
    /\ disk[r] = Absent /\ log[r] = <<>>  \* run_dir does not exist
    /\ LET m == [status |-> "created", seq |-> 0, cancel |-> FALSE]
       IN  /\ mem' = [mem EXCEPT ![Service] = m]
           /\ disk' = [disk EXCEPT ![r] = m]
    /\ job' = [job EXCEPT ![Service] = r]
    /\ todo' = [todo EXCEPT ![Service] = <<Note("created", "created")>>]
    /\ Goto(Service, "creating")
    /\ UNCHANGED <<log, pool, restarts>>

Queue ==
    /\ At(Service, "creating")
    /\ Transition(Service, "queued", <<Note("queued", "queued")>>)
    /\ Goto(Service, "queueing")
    /\ UNCHANGED <<log, job, pool, restarts>>

Schedule ==
    /\ At(Service, "queueing")
    /\ future' = [future EXCEPT ![job[Service]] = "pending"]
    /\ queue' = Append(queue, job[Service])
    /\ job' = [job EXCEPT ![Service] = NoRun]
    /\ mem' = [mem EXCEPT ![Service] = Absent]
    /\ Goto(Service, "open")
    /\ UNCHANGED <<persisted, todo, owned, restarts>>

\* The executor refuses the work: the Run is loaded afresh and interrupted.
\* No verdict can have been recorded yet, so interrupt() never returns early.
ScheduleFails ==
    /\ At(Service, "queueing")
    /\ disk[job[Service]].status \in ActiveStatuses
    /\ Save(Service, job[Service], [Loaded(job[Service]) EXCEPT !.status = "interrupted"])
    /\ todo' = [todo EXCEPT ![Service] =
           <<StatusChanged("interrupted"), Note("interrupted", "interrupted")>>]
    /\ Goto(Service, "unscheduled")
    /\ UNCHANGED <<log, job, pool, restarts>>

SubmitRaises ==
    /\ At(Service, "unscheduled")
    /\ job' = [job EXCEPT ![Service] = NoRun]
    /\ mem' = [mem EXCEPT ![Service] = Absent]
    /\ Goto(Service, "open")
    /\ UNCHANGED <<persisted, todo, pool, restarts>>

-----------------------------------------------------------------------------
(* execute_run on a thread of the executor.                                  *)
Picked(r) ==
    /\ queue # <<>>
    /\ Head(queue) = r
    /\ Cardinality({s \in Runs : future[s] = "running"}) < MaxWorkers
    /\ queue' = Tail(queue)

StartWork(r) ==
    /\ Picked(r)
    /\ future[r] = "pending"
    /\ future' = [future EXCEPT ![r] = "running"]
    /\ Goto(r, "load")
    /\ UNCHANGED <<persisted, mem, job, todo, owned, restarts>>

\* A future cancelled while it was queued is dropped.
DropCancelled(r) ==
    /\ Picked(r)
    /\ future[r] # "pending"
    /\ UNCHANGED <<persisted, threads, future, owned, restarts>>

\* A Run that is not queued any more, or whose contract no longer validates
\* (its data changed on disk), raises outside the try block.
LoadRun(r) ==
    /\ At(r, "load")
    /\ job' = [job EXCEPT ![r] = r]
    /\ mem' = [mem EXCEPT ![r] = Loaded(r)]
    /\ \/ disk[r].status = "queued" /\ Goto(r, "check")
       \/ Goto(r, "leaving")
    /\ UNCHANGED <<persisted, todo, pool, restarts>>

\* _check_cancel: the persisted document replaces the instance when it asks
\* for cancellation.
CheckStops(r) ==
    /\ At(r, "check")
    /\ disk[r].cancel
    /\ mem' = [mem EXCEPT ![r] = disk[r]]
    /\ Goto(r, "cancelling")
    /\ UNCHANGED <<persisted, job, todo, pool, restarts>>

\* Mutant of CheckPasses: no checkpoint after the strategies are proposed.
CheckPassesOnceProposed(r) ==
    /\ At(r, "check")
    /\ ~disk[r].cancel \/ mem[r].status = "proposing"
    /\ Goto(r, "enter")
    /\ UNCHANGED <<persisted, mem, job, todo, pool, restarts>>

CheckPasses(r) ==
    /\ At(r, "check")
    /\ ~disk[r].cancel
    /\ Goto(r, "enter")
    /\ UNCHANGED <<persisted, mem, job, todo, pool, restarts>>

EnterStage(r) ==
    /\ At(r, "enter")
    /\ Transition(r, NextStage[mem[r].status], <<>>)
    /\ Goto(r, "work")
    /\ UNCHANGED <<log, job, pool, restarts>>

\* The stage's work succeeds and is announced.  No check precedes "completed".
WorkDone(r) ==
    /\ At(r, "work")
    /\ todo' = [todo EXCEPT ![r] = <<Note("work", mem[r].status)>>]
    /\ Goto(r, IF mem[r].status = "packaging" THEN "complete" ELSE "check")
    /\ UNCHANGED <<persisted, mem, job, pool, restarts>>

\* The stage raises, or preflight finds the launch resources blocked.
WorkFails(r) ==
    /\ At(r, "work")
    /\ Goto(r, "failing")
    /\ UNCHANGED <<persisted, mem, job, todo, pool, restarts>>

\* A contextual recipe polls the document while it trains and raises.
TrainingSeesCancel(r) ==
    /\ At(r, "work")
    /\ mem[r].status = "training"
    /\ disk[r].cancel
    /\ Goto(r, "cancelling")
    /\ UNCHANGED <<persisted, mem, job, todo, pool, restarts>>

Complete(r) ==
    /\ At(r, "complete")
    /\ Transition(r, "completed", <<>>)
    /\ Goto(r, "report")
    /\ UNCHANGED <<log, job, pool, restarts>>

\* EvaluationReport.build: its failure is an event, never a failed Run.
BuildReport(r) ==
    /\ At(r, "report")
    /\ Goto(r, "leaving")
    /\ UNCHANGED <<persisted, mem, job, todo, pool, restarts>>

ReportFails(r) ==
    /\ At(r, "report")
    /\ todo' = [todo EXCEPT ![r] = <<Note("report_failed", "completed")>>]
    /\ Goto(r, "leaving")
    /\ UNCHANGED <<persisted, mem, job, pool, restarts>>

FailRun(r) ==
    /\ At(r, "failing")
    /\ Transition(r, "failed", <<Note("failed", "failed")>>)
    /\ Goto(r, "leaving")
    /\ UNCHANGED <<log, job, pool, restarts>>

\* Mutant of LeaveRun: the future is never resolved.
LeaveRunUnresolved(r) ==
    /\ At(r, "leaving")
    /\ job' = [job EXCEPT ![r] = NoRun]
    /\ mem' = [mem EXCEPT ![r] = Absent]
    /\ Goto(r, "idle")
    /\ UNCHANGED <<persisted, todo, pool, restarts>>

LeaveRun(r) ==
    /\ At(r, "leaving")
    /\ future' = [future EXCEPT ![r] = "done"]
    /\ job' = [job EXCEPT ![r] = NoRun]
    /\ mem' = [mem EXCEPT ![r] = Absent]
    /\ Goto(r, "idle")
    /\ UNCHANGED <<persisted, todo, queue, owned, restarts>>

-----------------------------------------------------------------------------
(* cancel(): called by request threads and, while it closes, by the service. *)
Home(a) == IF a = Service THEN "closing" ELSE "spent"

\* The thread is through with its Run and drops the instance.
Finish(a) ==
    /\ Goto(a, Home(a))
    /\ job' = [job EXCEPT ![a] = NoRun]
    /\ mem' = [mem EXCEPT ![a] = Absent]

CancelLoad(a, r) ==
    /\ Alive
    /\ disk[r] # Absent
    /\ \/ At(a, "ready")
       \/ At(a, "load") /\ job[a] = r
    /\ job' = [job EXCEPT ![a] = r]
    /\ mem' = [mem EXCEPT ![a] = Loaded(r)]
    /\ Goto(a, "request")
    /\ UNCHANGED <<persisted, todo, pool, restarts>>

\* request_cancel: refused unless the instance, which may be stale, is active.
RequestCancel(a) ==
    /\ At(a, "request")
    /\ mem[a].status \in ActiveStatuses
    /\ Save(a, job[a], [mem[a] EXCEPT !.cancel = TRUE])
    /\ todo' = [todo EXCEPT ![a] = <<Note("cancel_requested", mem[a].status)>>]
    /\ Goto(a, "future")
    /\ UNCHANGED <<log, job, pool, restarts>>

RefuseCancel(a) ==
    /\ At(a, "request")
    /\ mem[a].status \notin ActiveStatuses
    /\ Finish(a)
    /\ UNCHANGED <<persisted, todo, pool, restarts>>

\* Mutant of Cancellable: a Run a worker has picked counts as taken back.
CancellableUntilDone(r) == future[r] \in {"pending", "running", "cancelled"}

\* Future.cancel succeeds until a worker has picked the Run, and again later.
Cancellable(r) == future[r] \in {"pending", "cancelled"}

CancelFuture(a) ==
    /\ At(a, "future")
    /\ LockFree
    /\ Cancellable(job[a])
    /\ future' = [future EXCEPT ![job[a]] = "cancelled"]
    /\ Goto(a, "latest")
    /\ UNCHANGED <<persisted, mem, job, todo, queue, owned, restarts>>

LeaveToWorker(a) ==
    /\ At(a, "future")
    /\ LockFree
    /\ ~Cancellable(job[a])
    /\ Finish(a)
    /\ UNCHANGED <<persisted, todo, pool, restarts>>

\* Mutant of ReloadLatest: the canceller leaves the verdict to others.
SkipLatest(a) ==
    /\ At(a, "latest")
    /\ Goto(a, "settled")
    /\ UNCHANGED <<persisted, mem, job, todo, pool, restarts>>

ReloadLatest(a) ==
    /\ At(a, "latest")
    /\ mem' = [mem EXCEPT ![a] = Loaded(job[a])]
    /\ Goto(a, "settle")
    /\ UNCHANGED <<persisted, job, todo, pool, restarts>>

\* RunState.cancel, by a worker at a checkpoint or by a thread that took the
\* Run out of the executor's queue.
CancelRun(a) ==
    /\ At(a, IF a \in Runs THEN "cancelling" ELSE "settle")
    /\ Transition(a, "cancelled", <<Note("cancelled", "cancelled")>>)
    /\ Goto(a, IF a \in Runs THEN "leaving" ELSE "settled")
    /\ UNCHANGED <<log, job, pool, restarts>>

\* Another thread settled it first: cancel() returns early.
CancelTooLate(a) ==
    /\ At(a, "settle")
    /\ ~CanBecome(a, "cancelled")
    /\ Goto(a, "settled")
    /\ UNCHANGED <<persisted, mem, job, todo, pool, restarts>>

CancelReturns(a) ==
    /\ At(a, "settled")
    /\ Finish(a)
    /\ UNCHANGED <<persisted, todo, pool, restarts>>

-----------------------------------------------------------------------------
(* close(): refuse new Runs, ask every owned worker to stop, wait for all.   *)
BeginClose ==
    /\ At(Service, "open")
    /\ owned' = {r \in Runs : future[r] \in {"pending", "running"}}
    /\ Goto(Service, "closing")
    /\ UNCHANGED <<persisted, mem, job, todo, future, queue, restarts>>

\* A Run nobody asked to stop goes through cancel().
CloseAsks(r) ==
    /\ At(Service, "closing")
    /\ r \in owned
    /\ owned' = owned \ {r}
    /\ ~disk[r].cancel
    /\ job' = [job EXCEPT ![Service] = r]
    /\ mem' = [mem EXCEPT ![Service] = Loaded(r)]
    /\ Goto(Service, "load")
    /\ UNCHANGED <<persisted, todo, future, queue, restarts>>

\* One already asked to stop is only settled, if it has not started.
CloseSettles(r) ==
    /\ At(Service, "closing")
    /\ r \in owned
    /\ owned' = owned \ {r}
    /\ disk[r].cancel
    /\ Cancellable(r)
    /\ future' = [future EXCEPT ![r] = "cancelled"]
    /\ job' = [job EXCEPT ![Service] = r]
    /\ mem' = [mem EXCEPT ![Service] = Loaded(r)]
    /\ Goto(Service, "settle")
    /\ UNCHANGED <<persisted, todo, queue, restarts>>

CloseSkips(r) ==
    /\ At(Service, "closing")
    /\ r \in owned
    /\ owned' = owned \ {r}
    /\ disk[r].cancel
    /\ ~Cancellable(r)
    /\ UNCHANGED <<persisted, threads, future, queue, restarts>>

\* Mutant of FinishClose: shutdown(wait=False).
FinishCloseAtOnce ==
    /\ At(Service, "closing")
    /\ owned = {}
    /\ Goto(Service, "closed")
    /\ UNCHANGED <<persisted, mem, job, todo, pool, restarts>>

\* executor.shutdown(wait=True) returns when every submitted Run has left.
FinishClose ==
    /\ At(Service, "closing")
    /\ owned = {}
    /\ queue = <<>>
    /\ \A r \in Runs : future[r] \notin {"pending", "running"}
    /\ Goto(Service, "closed")
    /\ UNCHANGED <<persisted, mem, job, todo, pool, restarts>>

-----------------------------------------------------------------------------
(* The process dies: threads and pool are lost, the files stay.              *)
LoseThreads ==
    /\ mem' = [a \in Actors |-> Absent]
    /\ job' = [a \in Actors |-> NoRun]
    /\ todo' = [a \in Actors |-> <<>>]
    /\ pc' = [a \in Actors |->
                 IF a = Service THEN "down"
                 ELSE IF a \in Runs THEN "idle"
                 ELSE IF pc[a] = "ready" THEN "ready" ELSE "spent"]
    /\ future' = [r \in Runs |-> "none"]
    /\ queue' = <<>>
    /\ owned' = {}

Crash ==
    /\ pc[Service] # "down"
    /\ restarts < MaxRestarts
    /\ LoseThreads
    /\ UNCHANGED <<persisted, restarts>>

\* The log is appended to and synced before the counter is saved.
CrashInEvent(a) ==
    /\ restarts < MaxRestarts
    /\ todo[a] # <<>>
    /\ log' = [log EXCEPT ![job[a]] = Appended(a)]
    /\ LoseThreads
    /\ UNCHANGED <<disk, restarts>>

\* A new process runs recover_stale_runs before it serves anything, and may
\* die on the way.
Restart ==
    /\ pc[Service] = "down"
    /\ Goto(Service, "recovering")
    /\ UNCHANGED <<persisted, mem, job, todo, pool, restarts>>

Recover(r) ==
    /\ At(Service, "recovering")
    /\ disk[r].status \in ActiveStatuses
    /\ job' = [job EXCEPT ![Service] = r]
    /\ Save(Service, r, [Loaded(r) EXCEPT !.status = "interrupted"])
    /\ todo' = [todo EXCEPT ![Service] =
           <<StatusChanged("interrupted"), Note("interrupted", "interrupted")>>]
    /\ UNCHANGED <<log, pc, pool, restarts>>

\* Mutant of Serve: requests are taken before recovery is through.
ServeEarly ==
    /\ At(Service, "recovering")
    /\ job' = [job EXCEPT ![Service] = NoRun]
    /\ mem' = [mem EXCEPT ![Service] = Absent]
    /\ restarts < MaxRestarts
    /\ restarts' = restarts + 1
    /\ Goto(Service, "open")
    /\ UNCHANGED <<persisted, todo, pool>>

Serve ==
    /\ At(Service, "recovering")
    /\ \A r \in Runs : disk[r].status \notin ActiveStatuses
    /\ job' = [job EXCEPT ![Service] = NoRun]
    /\ mem' = [mem EXCEPT ![Service] = Absent]
    /\ restarts < MaxRestarts
    /\ restarts' = restarts + 1
    /\ Goto(Service, "open")
    /\ UNCHANGED <<persisted, todo, pool>>

-----------------------------------------------------------------------------
Work(r) ==
    \/ LoadRun(r) \/ CheckStops(r) \/ CheckPasses(r) \/ EnterStage(r) \/ WorkDone(r)
    \/ WorkFails(r) \/ TrainingSeesCancel(r) \/ Complete(r) \/ BuildReport(r)
    \/ ReportFails(r) \/ FailRun(r) \/ LeaveRun(r) \/ CancelRun(r) \/ Announce(r)

Cancel(a) ==
    \/ \E r \in Runs : CancelLoad(a, r)
    \/ RequestCancel(a) \/ RefuseCancel(a) \/ CancelFuture(a)
    \/ LeaveToWorker(a) \/ ReloadLatest(a) \/ CancelRun(a) \/ CancelTooLate(a)
    \/ CancelReturns(a) \/ Announce(a)

Accept ==
    \/ \E r \in Runs : Submit(r)
    \/ Queue \/ Schedule \/ ScheduleFails \/ SubmitRaises

Close ==
    \/ \E r \in Runs : CloseAsks(r) \/ CloseSettles(r) \/ CloseSkips(r)
    \/ FinishClose

Next ==
    \/ Accept \/ BeginClose \/ Close
    \/ \E a \in Cancellers \cup {Service} : Cancel(a)
    \/ \E r \in Runs : StartWork(r) \/ DropCancelled(r) \/ Work(r)
    \/ \E a \in Actors : CrashInEvent(a)
    \/ Crash \/ Restart \/ Serve
    \/ \E r \in Runs : Recover(r)

Spec == Init /\ [][Next]_vars

\* Requests reach a Run through its task, and TrainingWorkspace._lock admits
\* one of them at a time (start_run, cancel_run): no cancel loads a Run while
\* it is being submitted, or next to another cancel.
InCall == {c \in Cancellers : pc[c] \notin {"ready", "spent"}}
              \cup (IF LockFree THEN {} ELSE {Service})
OneCall == Cardinality(InCall) <= 1
TaskPathSpec == Init /\ [][Next /\ OneCall']_vars

\* Every thread that has started runs on; work on a stage comes to an end
\* (trusted in-process training returns).  Clients owe nothing: no fairness
\* for Submit, BeginClose, a cancel that has not begun, or a failing process.
Fairness ==
    /\ \A r \in Runs : WF_vars(StartWork(r) \/ DropCancelled(r)) /\ WF_vars(Work(r))
    /\ \A a \in Cancellers : WF_vars(pc[a] # "ready" /\ Cancel(a))
    /\ WF_vars(Cancel(Service))
    /\ WF_vars(Queue \/ Schedule \/ SubmitRaises)
    /\ WF_vars(Close)
    /\ WF_vars(Serve \/ \E r \in Runs : Recover(r))
FairSpec == Spec /\ Fairness

-----------------------------------------------------------------------------
TypeOK ==
    /\ disk \in [Runs -> States]
    /\ log \in [Runs -> Seq(Events)]
    /\ mem \in [Actors -> States]
    /\ job \in [Actors -> Runs \cup {NoRun}]
    /\ todo \in [Actors -> Seq(Announcements)]
    /\ pc \in [Actors -> ServicePCs \cup CancellerPCs \cup WorkerPCs]
    /\ future \in [Runs -> Futures]
    /\ queue \in Seq(Runs)
    /\ owned \in SUBSET Runs
    /\ restarts \in 0 .. MaxRestarts

\* The events of a Run are numbered 1, 2, 3, ... without gap or repetition,
\* whatever threads interleave and wherever a process dies: a reader that
\* continues after the last number it saw misses and repeats nothing.
DenseLog == \A r \in Runs : \A i \in DOMAIN log[r] : log[r][i].seq = i

\* The strengthening that makes DenseLog inductive.  The counter on disk may
\* lag behind the log by the event during which a process died; until it
\* catches up, every thread on that Run has counted the log itself (load).
InUse(a) ==
    \/ pc[a] \in {"creating", "queueing", "unscheduled", "request", "future",
                  "latest", "settle", "settled", "check", "enter", "work",
                  "complete", "cancelling", "failing", "report", "leaving"}
    \/ todo[a] # <<>>
Owners ==
    /\ \A a \in Actors : InUse(a) => job[a] \in Runs
    /\ \A r \in Runs : job[r] \in {r, NoRun}
    /\ \A r \in Runs : pc[r] # "idle" => future[r] # "none"
    /\ pc[Service] \in ServicePCs
    /\ \A c \in Cancellers : pc[c] \in CancellerPCs
    /\ \A r \in Runs : pc[r] \in WorkerPCs
UpToDate(r) == disk[r].seq = Len(log[r])
CounterInv ==
    /\ DenseLog
    /\ Owners
    /\ \A r \in Runs : disk[r].seq <= Len(log[r])
    /\ \A a \in Actors : job[a] \in Runs =>
           /\ mem[a].seq <= Len(log[job[a]])
           /\ UpToDate(job[a]) \/ mem[a].seq = Len(log[job[a]])
    /\ \A r \in Runs : future[r] # "none" => UpToDate(r)
    /\ pc[Service] \in {"creating", "queueing"} => UpToDate(job[Service])

\* What readers of events.ndjson rely on: the detailed Run only ever publishes
\* one more event, with the next number (EventLog).
Published == INSTANCE EventLog WITH entries <- log
PublishesInOrder == Published!Spec

\* A cancel request, once on disk, is never lost to a thread that saves a
\* copy it loaded earlier ("Never let a stale worker overwrite a concurrent
\* cancel request", state.py:124).
CancelSticky == [][\A r \in Runs : disk[r].cancel => disk'[r].cancel]_vars

\* What the log says of a Run.
Verdict(e) == e.type = "status_changed" /\ e.stage \in TerminalStatuses
Verdicts(r) == {log[r][i].stage : i \in {j \in DOMAIN log[r] : Verdict(log[r][j])}}
StageEvent(e) ==
    \/ e.type = "work"
    \/ e.type = "status_changed" /\ e.stage \in ActiveStatuses \ {"queued"}

\* A cancel request recorded before the strategies are proposed is honoured:
\* one more checkpoint lies ahead, so the Run never completes.
CancelBeatsCompletion ==
    \A r \in Runs : \A i, j \in DOMAIN log[r] :
        /\ i < j
        /\ log[r][i].type = "cancel_requested"
        /\ log[r][j].type = "work" /\ log[r][j].stage = "proposing"
        => "completed" \notin Verdicts(r)

\* Threads that race to settle a Run agree, and their verdict stands: apart
\* from the interruption a restart records, the log never holds two different
\* verdicts, and no stage is entered or worked on after one.  A Run taken out
\* of the queue, settled or recovered is never picked up by a worker.
OneVerdict(r) == Cardinality(Verdicts(r) \ {"interrupted"}) <= 1
NoStageAfter(r) ==
    \A i, j \in DOMAIN log[r] : Verdict(log[r][i]) /\ i < j => ~StageEvent(log[r][j])
VerdictsAgree == \A r \in Runs : OneVerdict(r) /\ NoStageAfter(r)

Engaged(r) == \E a \in Actors : job[a] = r

\* A Run cancelled while it was queued ends up cancelled once the threads
\* that handled it are through, although each may save a stale copy.
QueuedCancelSettles ==
    \A r \in Runs : future[r] = "cancelled" /\ ~Engaged(r) => disk[r].status = "cancelled"

\* close() returns only when no thread works on a Run, and every Run that had
\* entered a stage has reached a verdict, in its log or, if an earlier process
\* died before it wrote the event, in its status ("never mark it stopped or
\* release the server lease early", service.py:618).
ClosedMeansDrained ==
    pc[Service] = "closed" =>
        \A r \in Runs :
            /\ pc[r] = "idle" /\ r \notin {queue[i] : i \in DOMAIN queue}
            /\ (\E i \in DOMAIN log[r] : StageEvent(log[r][i]))
               => Verdicts(r) # {} \/ disk[r].status \in TerminalStatuses

\* While the service takes requests, a Run that looks active was handed to
\* this process's executor: a restart leaves none behind, not even one that
\* was being created or recovered when an earlier process died.  (Excepted are
\* Runs asked to stop: such a request may bring back an older status, see
\* WorkersVerdictIsFinal.)
NoOrphan ==
    \A r \in Runs :
        /\ pc[Service] = "open" /\ ~Engaged(r)
        /\ disk[r].status \in ActiveStatuses /\ ~disk[r].cancel
        => future[r] # "none"

\* close() comes to an end: no worker, canceller or closing thread waits for
\* another for ever.
CloseTerminates == pc[Service] = "closing" ~> pc[Service] \in {"closed", "down"}

\* A worker never leaves a Run without a verdict in its log.
WorkerLeavesVerdict == \A r \in Runs : future[r] = "done" => Verdicts(r) # {}

\* A Run that its worker completed or failed stays so ("completed": set(),
\* state.py:42): no copy of the Run that another thread loaded earlier takes
\* the verdict back.
WorkersVerdictIsFinal ==
    [][\A r \in Runs :
          disk[r].status \in {"completed", "failed"} => disk'[r].status = disk[r].status]_vars
=============================================================================
