---------------------------- MODULE ModelBinding ----------------------------
(* Binding a model source to one task (workspace.py, model_source_store.py,  *)
(* repository_analysis_store.py).  An approval is written down as an attempt *)
(* and run by a small thread pool: it reads the source without any lock and  *)
(* then commits, under the workspace lock, through an intent, a request, the *)
(* binding record, the pointer to it, a receipt, the task and the attempt.   *)
(* Users cancel, approve again, revise the TaskSpec, start Runs and archive  *)
(* in between; the process may die between any two writes.                   *)
EXTENDS Naturals, Sequences, FiniteSets, SequencesExt

CONSTANTS
    Sources,      \* repository and commit of a model
    PoolSize,     \* threads of the binding executor
    MaxSpecs,     \* bound: revisions of the TaskSpec
    MaxAttempts,  \* bound: attempts at a binding
    MaxRestarts   \* bound: deaths of the process

ASSUME ModelBindingAssumption ==
    /\ PoolSize \in Nat \ {0}
    /\ MaxSpecs \in Nat \ {0}
    /\ MaxAttempts \in Nat
    /\ MaxRestarts \in Nat

VARIABLES
    server,    \* "serving", where its recovery is, "down" or "broken"
    lock,      \* who holds TrainingWorkspace._lock from one write to the next
    specs,     \* TaskSpec revision files
    task,      \* task.json, as far as bindings are concerned
    attempts,  \* the attempts: resolution and latest state
    job,       \* where the thread of each attempt is
    intents,   \* the binding intent of each resolution
    bindings,  \* binding records, in the order of their revisions
    pointer,   \* current_binding.json: the revision in force
    late,      \* history: attempts that raised after their binding was written
    restarts   \* deaths so far

vars ==
    <<server, lock, specs, task, attempts, job, intents, bindings, pointer, late, restarts>>
stored == <<intents, bindings, pointer, late>>

-----------------------------------------------------------------------------
\* A resolution is identified by what it says: resolving the same commit for
\* the same TaskSpec revision once more gives the same record.
Resolutions == [source : Sources, spec : 1..MaxSpecs]
Attempts == 1..MaxAttempts

Active == {"queued", "running"}
\* "recorded": attempt.json without a state; "interrupted": failed by recovery.
Statuses == Active \cup {"recorded", "completed", "failed", "cancelled", "interrupted"}

\* Places of a thread that holds the lock in order to commit.
Committing == {"prepared", "requested", "recorded", "pointed", "receipted", "activated"}
Threading == Committing \cup
    {"marking", "opening", "reading", "read", "returned", "raised", "failing"}
Places == Threading \cup {"none", "submitted", "over"}

NoIntent == [status |-> "none", base |-> 0, by |-> 0]
\* by (history): the attempt that prepared the intent, or the binding, last.
Intents == [status : {"none", "prepared", "requested", "committed"}, base : Nat, by : Nat]
Bindings == [res : Resolutions, by : Nat]

Init ==
    /\ server = "serving"
    /\ lock = "free"
    /\ specs = 1
    /\ task = [spec |-> 1, binding |-> 0, stale |-> FALSE, running |-> FALSE, archived |-> FALSE]
    /\ attempts = <<>>
    /\ job = [a \in Attempts |-> "none"]
    /\ intents = [r \in Resolutions |-> NoIntent]
    /\ bindings = <<>>
    /\ pointer = 0
    /\ late = {}
    /\ restarts = 0

Unlocked == server = "serving" /\ lock = "free"
Mutable == ~task.archived /\ ~task.running
Goes(a, from, to) == job[a] = from /\ job' = [job EXCEPT ![a] = to]
Turned(a, status) == attempts' = [attempts EXCEPT ![a].status = status]

-----------------------------------------------------------------------------
\* Requests.  POST .../bind: the approval becomes an attempt, unless the last
\* attempt is still active, or is this very one and completed.
Fresh(r) ==
    attempts # <<>> =>
        /\ Last(attempts).status \notin Active
        /\ ~(Last(attempts).status = "completed" /\ Last(attempts).res = r)

QueueBinding(s) ==
    LET r == [source |-> s, spec |-> task.spec]
    IN  /\ Unlocked /\ Mutable
        /\ Len(attempts) < MaxAttempts
        /\ Fresh(r)
        /\ attempts' = Append(attempts, [res |-> r, status |-> "recorded"])
        /\ lock' = "queue"
        /\ UNCHANGED <<server, specs, task, job, stored, restarts>>

SubmitBinding ==
    LET a == Len(attempts)
    IN  /\ lock = "queue"
        /\ lock' = "free"
        /\ Turned(a, "queued")
        /\ Goes(a, "none", "submitted")
        /\ UNCHANGED <<server, specs, task, stored, restarts>>

\* The future is cancelled as well, which works while it waits in the pool.
CancelAttempt(a) ==
    /\ Unlocked
    /\ attempts[a].status \in Active
    /\ Turned(a, "cancelled")
    /\ job' = [job EXCEPT ![a] = IF @ = "submitted" THEN "over" ELSE @]
    /\ UNCHANGED <<server, lock, specs, task, stored, restarts>>

\* A new TaskSpec revision: its file, which must not exist yet, then the task.
WriteSpec ==
    /\ Unlocked /\ ~task.running
    /\ specs = task.spec /\ specs < MaxSpecs
    /\ specs' = specs + 1
    /\ lock' = "spec"
    /\ UNCHANGED <<server, task, attempts, job, stored, restarts>>

ApplySpec ==
    /\ lock = "spec"
    /\ lock' = "free"
    /\ task' = [task EXCEPT !.spec = @ + 1, !.stale = task.binding # 0]
    /\ UNCHANGED <<server, specs, attempts, job, stored, restarts>>

ArchiveTask ==
    /\ Unlocked /\ Mutable
    /\ task' = [task EXCEPT !.archived = TRUE]
    /\ UNCHANGED <<server, lock, specs, attempts, job, stored, restarts>>

\* A Run starts only on a binding in force, if there is one.
RunStarts ==
    /\ Unlocked /\ Mutable
    /\ task.binding # 0 => task.binding = pointer /\ ~task.stale
    /\ task' = [task EXCEPT !.running = TRUE]
    /\ UNCHANGED <<server, lock, specs, attempts, job, stored, restarts>>

RunEnds ==
    /\ Unlocked /\ task.running
    /\ task' = [task EXCEPT !.running = FALSE]
    /\ UNCHANGED <<server, lock, specs, attempts, job, stored, restarts>>

-----------------------------------------------------------------------------
\* The thread of an attempt.
Unstored == UNCHANGED <<server, specs, task, stored, restarts>>

Start(a) ==
    /\ Cardinality({b \in Attempts : job[b] \in Threading}) < PoolSize
    /\ \A b \in 1..(a - 1) : job[b] # "submitted"
    /\ Goes(a, "submitted", IF attempts[a].status = "queued" THEN "marking" ELSE "over")
    /\ UNCHANGED <<lock, attempts>> /\ Unstored

MarkRunning(a) ==
    /\ attempts[a].status = "queued"
    /\ Goes(a, "marking", "opening")
    /\ Turned(a, "running")
    /\ UNCHANGED lock /\ Unstored

MarkRefused(a) ==
    /\ attempts[a].status # "queued"
    /\ Goes(a, "marking", "raised")
    /\ UNCHANGED <<lock, attempts>> /\ Unstored

\* First look at the task: refuse, or find that this is the binding in force,
\* or go on to read the source.
Refused(a) == ~Mutable \/ attempts[a].res.spec # task.spec
InForce(a) ==
    /\ pointer # 0 /\ task.binding = pointer /\ ~task.stale
    /\ bindings[pointer].res = attempts[a].res

OpenBinding(a) ==
    /\ Unlocked
    /\ Goes(a, "opening", CASE Refused(a) -> "raised"
                            [] ~Refused(a) /\ InForce(a) -> "returned"
                            [] OTHER -> "reading")
    /\ UNCHANGED <<lock, attempts>> /\ Unstored

\* The source, or its analysis under the lock, may fail.
ReadSource(a) ==
    /\ \E outcome \in {"read", "raised"} : Goes(a, "reading", outcome)
    /\ UNCHANGED <<lock, attempts>> /\ Unstored

\* Mutants of Admitted: the attempt, or the task, is not looked at again.
AdmittedCancelled(a) == ~Refused(a)
AdmittedUnseen(a) == attempts[a].status = "running"

\* Second look, under the lock that is now kept until the attempt completes.
Admitted(a) == attempts[a].status = "running" /\ ~Refused(a)

\* An intent is found again by its resolution and must not have changed.
Preparable(a) ==
    LET i == intents[attempts[a].res]
    IN  i.status # "none" => i.base = pointer

RefuseCommit(a) ==
    /\ Unlocked
    /\ ~(Admitted(a) /\ Preparable(a))
    /\ Goes(a, "read", "raised")
    /\ UNCHANGED <<lock, attempts>> /\ Unstored

PrepareIntent(a) ==
    /\ Unlocked
    /\ Admitted(a) /\ Preparable(a)
    /\ Goes(a, "read", "prepared")
    /\ lock' = "commit"
    /\ intents' = [intents EXCEPT ![attempts[a].res] =
                      [status |-> "prepared", base |-> pointer, by |-> a]]
    /\ UNCHANGED <<server, specs, task, attempts, bindings, pointer, late, restarts>>

\* The writes of a commit; recovery makes the same ones.
IntentTurns(r, status) == intents' = [intents EXCEPT ![r].status = status]
WriteBinding(r) == bindings' = Append(bindings, [res |-> r, by |-> intents[r].by])
Activated ==
    [task EXCEPT !.binding = pointer, !.stale = bindings[pointer].res.spec # task.spec]

RequestCommit(a) ==
    /\ Goes(a, "prepared", "requested")
    /\ IntentTurns(attempts[a].res, "requested")
    /\ UNCHANGED <<server, lock, specs, task, attempts, bindings, pointer, late, restarts>>

RecordBinding(a) ==
    /\ Goes(a, "requested", "recorded")
    /\ WriteBinding(attempts[a].res)
    /\ UNCHANGED <<server, lock, specs, task, attempts, intents, pointer, late, restarts>>

MovePointer(a) ==
    /\ Goes(a, "recorded", "pointed")
    /\ pointer' = pointer + 1
    /\ UNCHANGED <<server, lock, specs, task, attempts, intents, bindings, late, restarts>>

WriteReceipt(a) ==
    /\ Goes(a, "pointed", "receipted")
    /\ IntentTurns(attempts[a].res, "committed")
    /\ UNCHANGED <<server, lock, specs, task, attempts, bindings, pointer, late, restarts>>

ActivateBinding(a) ==
    /\ Goes(a, "receipted", "activated")
    /\ task' = Activated
    /\ UNCHANGED <<server, lock, specs, attempts, stored, restarts>>

CompleteAttempt(a) ==
    /\ Goes(a, "activated", "returned")
    /\ Turned(a, "completed")
    /\ lock' = "free"
    /\ Unstored

\* The binding is in force, and reading it back or clearing the blockers of
\* its stage raises: the lock is given up and the attempt is still running.
FinalizeFails(a) ==
    /\ Goes(a, "activated", "raised")
    /\ late' = late \cup {a}
    /\ lock' = "free"
    /\ UNCHANGED <<server, specs, task, attempts, intents, bindings, pointer, restarts>>

\* bind_model_source has returned: its attempt should have completed.
VerifyAttempt(a) ==
    /\ Goes(a, "returned", IF attempts[a].status = "completed" THEN "over" ELSE "raised")
    /\ UNCHANGED <<lock, attempts>> /\ Unstored

\* The handler reads the state of the attempt and then writes the failure,
\* which is refused when the attempt has been cancelled in between.
CatchError(a) ==
    /\ Goes(a, "raised", IF attempts[a].status \in Active THEN "failing" ELSE "over")
    /\ UNCHANGED <<lock, attempts>> /\ Unstored

FailAttempt(a) ==
    /\ Goes(a, "failing", "over")
    /\ IF attempts[a].status \in Active THEN Turned(a, "failed") ELSE UNCHANGED attempts
    /\ UNCHANGED lock /\ Unstored

-----------------------------------------------------------------------------
\* Death of the process, and what the next one repairs before it serves.
Crash ==
    /\ server \notin {"down", "broken"} /\ restarts < MaxRestarts
    /\ restarts' = restarts + 1
    /\ server' = "down"
    /\ lock' = "free"
    /\ job' = [a \in Attempts |-> IF job[a] = "none" THEN "none" ELSE "over"]
    /\ UNCHANGED <<specs, task, attempts, stored>>

Restart ==
    /\ server = "down"
    /\ server' = "attempts"
    /\ UNCHANGED <<lock, specs, task, attempts, job, stored, restarts>>

\* An attempt without a state is an integrity error, and stops the start.
Unreadable == attempts # <<>> /\ Last(attempts).status = "recorded"

\* Mutant of RecoverAttempts: an attempt that was still queued stays queued.
RecoverRunning ==
    /\ server = "attempts" /\ ~Unreadable
    /\ server' = "commits"
    /\ IF attempts # <<>> /\ Last(attempts).status = "running"
       THEN Turned(Len(attempts), "interrupted") ELSE UNCHANGED attempts
    /\ UNCHANGED <<lock, specs, task, job, stored, restarts>>

RecoverAttempts ==
    /\ server = "attempts" /\ ~Unreadable
    /\ server' = "commits"
    /\ IF attempts # <<>> /\ Last(attempts).status \in Active
       THEN Turned(Len(attempts), "interrupted") ELSE UNCHANGED attempts
    /\ UNCHANGED <<lock, specs, task, job, stored, restarts>>

RefuseToStart ==
    /\ server = "attempts" /\ Unreadable
    /\ server' = "broken"
    /\ UNCHANGED <<lock, specs, task, attempts, job, stored, restarts>>

\* Commits that were requested are carried out, from where they stopped.
Requested == {r \in Resolutions : intents[r].status = "requested"}

\* Mutant of RecoverCommit: a binding record that is there is written again.
RecoverCommitAnew(r) ==
    /\ server = "commits" /\ r \in Requested
    /\ \/ /\ intents[r].base = pointer
          /\ WriteBinding(r)
          /\ UNCHANGED <<intents, pointer>>
       \/ /\ intents[r].base = pointer /\ Len(bindings) > pointer
          /\ pointer' = pointer + 1
          /\ UNCHANGED <<intents, bindings>>
       \/ /\ intents[r].base + 1 = pointer
          /\ IntentTurns(r, "committed")
          /\ UNCHANGED <<bindings, pointer>>
    /\ UNCHANGED <<server, lock, specs, task, attempts, job, late, restarts>>

RecoverCommit(r) ==
    /\ server = "commits" /\ r \in Requested
    /\ \/ /\ intents[r].base = pointer /\ Len(bindings) = pointer
          /\ WriteBinding(r)
          /\ UNCHANGED <<intents, pointer>>
       \/ /\ intents[r].base = pointer /\ Len(bindings) > pointer
          /\ pointer' = pointer + 1
          /\ UNCHANGED <<intents, bindings>>
       \/ /\ intents[r].base + 1 = pointer
          /\ IntentTurns(r, "committed")
          /\ UNCHANGED <<bindings, pointer>>
    /\ UNCHANGED <<server, lock, specs, task, attempts, job, late, restarts>>

CommitsRecovered ==
    /\ server = "commits" /\ Requested = {}
    /\ server' = "projections"
    /\ UNCHANGED <<lock, specs, task, attempts, job, stored, restarts>>

\* Mutant of RestoreTask: the task keeps the binding it names.
RestoreNothing ==
    /\ server = "projections"
    /\ server' = "serving"
    /\ UNCHANGED <<lock, specs, task, attempts, job, stored, restarts>>

\* The same repair is made by GET .../model-bindings/current.
RestoreTask ==
    /\ server = "projections"
    /\ server' = "serving"
    /\ task' = IF pointer = task.binding THEN task ELSE Activated
    /\ UNCHANGED <<lock, specs, attempts, job, stored, restarts>>

-----------------------------------------------------------------------------
Request ==
    \/ \E s \in Sources : QueueBinding(s)
    \/ \E a \in DOMAIN attempts : CancelAttempt(a)
    \/ WriteSpec \/ ArchiveTask \/ RunStarts \/ RunEnds

Commit(a) ==
    \/ RequestCommit(a) \/ RecordBinding(a) \/ MovePointer(a) \/ WriteReceipt(a)
    \/ ActivateBinding(a) \/ CompleteAttempt(a) \/ FinalizeFails(a)

Thread(a) ==
    \/ Start(a) \/ MarkRunning(a) \/ MarkRefused(a) \/ OpenBinding(a) \/ ReadSource(a)
    \/ RefuseCommit(a) \/ PrepareIntent(a) \/ Commit(a)
    \/ VerifyAttempt(a) \/ CatchError(a) \/ FailAttempt(a)

Recovery ==
    \/ RecoverAttempts \/ RefuseToStart
    \/ \E r \in Resolutions : RecoverCommit(r)
    \/ CommitsRecovered \/ RestoreTask

Next ==
    \/ Request \/ SubmitBinding \/ ApplySpec
    \/ \E a \in DOMAIN attempts : Thread(a)
    \/ Crash \/ Restart \/ Recovery

Spec == Init /\ [][Next]_vars

-----------------------------------------------------------------------------
\* The state is well formed: the lock is held by the one thread that commits,
\* and the pointer is at the last binding or right before it.
TypeOK ==
    /\ server \in {"serving", "attempts", "commits", "projections", "down", "broken"}
    /\ lock \in {"free", "queue", "spec", "commit"}
    /\ specs \in 1..MaxSpecs
    /\ task \in [spec : 1..MaxSpecs, binding : Nat, stale : BOOLEAN,
                 running : BOOLEAN, archived : BOOLEAN]
    /\ attempts \in Seq([res : Resolutions, status : Statuses]) /\ Len(attempts) <= MaxAttempts
    /\ job \in [Attempts -> Places]
    /\ intents \in [Resolutions -> Intents]
    /\ bindings \in Seq(Bindings)
    /\ pointer \in Nat /\ Len(bindings) \in {pointer, pointer + 1}
    /\ late \in SUBSET Attempts
    /\ restarts \in 0..MaxRestarts

BoundBy(a) == \E n \in DOMAIN bindings : bindings[n].by = a

\* What an attempt says of itself is true of the bindings: a completed one is
\* bound, and one that was cancelled or failed in a live process left no
\* binding, whatever its thread was doing, unless it is one of those that
\* raised between the last write of the commit and their completion.  Those are
\* bound and never say so.  (One interrupted by a restart may be bound too: a
\* requested commit is carried out by recovery.)
AttemptTellsBinding ==
    \A a \in DOMAIN attempts :
        /\ attempts[a].status = "completed" => BoundBy(a) /\ a \notin late
        /\ attempts[a].status \in {"cancelled", "failed"} => (BoundBy(a) <=> a \in late)

\* While the task is served and nothing is being committed, the task names the
\* binding the pointer names, no requested commit is left over, and every
\* binding has its receipt, however often the process died on the way.
TaskFollowsPointer ==
    Unlocked =>
        /\ task.binding = pointer /\ Len(bindings) = pointer
        /\ Requested = {}
        /\ \A n \in DOMAIN bindings : intents[bindings[n].res].status = "committed"

\* A binding takes effect only on a task that is neither training nor archived
\* and for the TaskSpec revision it was resolved for, also when a later
\* process takes the last step.
BindsAnOpenTask ==
    [][task'.binding # task.binding =>
         /\ Mutable
         /\ bindings[task'.binding].res.spec = task.spec
         /\ ~task'.stale]_vars

\* An attempt that is shown as active blocks every other approval of the task:
\* it is the last one, and this process will settle it.
NoAttemptAbandoned ==
    server = "serving" =>
        \A a \in DOMAIN attempts : attempts[a].status \in Active =>
            a = Len(attempts) /\ job[a] \notin {"none", "over"}

-----------------------------------------------------------------------------
\* What the code says and does not keep.

\* A cancelled attempt leaves "zero binding result", and "once the final commit
\* wins, cancellation reports that the attempt is already terminal"
\* (workspace.py:2212).  Not so between an error after the commit and the
\* handler that records it, which fails an attempt whose binding stands.
FailureMeansUnbound ==
    \A a \in DOMAIN attempts :
        attempts[a].status \in {"cancelled", "failed"} => ~BoundBy(a)

\* When bind_model_source has returned a binding, its attempt has completed
\* (workspace.py:2258), if it was not cancelled.  Not so for an approval of the
\* binding that is already in force, after an attempt at another one failed.
ReturnMeansCompleted ==
    \A a \in Attempts : job[a] = "returned" => attempts[a].status # "running"

\* A source can be exchanged, and history is kept (closure-matrix.md:33): an
\* attempt that is admitted is not refused for the intent of an earlier one.
\* Not so for a source that was replaced and is chosen again.
SourceCanReturn ==
    \A a \in Attempts : job[a] = "read" /\ Admitted(a) /\ Unlocked => Preparable(a)

\* Recovery turns an interrupted attempt into a failed one and serves again.
\* Not so when the process died between the attempt and its first state.
StartsAgain == server # "broken"

\* The TaskSpec can be revised whenever the task is at rest.  Not so when the
\* process died between a revision's file and the task that names it.
SpecCanBeRevised == Unlocked => specs = task.spec
=============================================================================
