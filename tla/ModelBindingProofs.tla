-------------------------- MODULE ModelBindingProofs --------------------------
(* Proofs about ModelBinding for any sources, bounds and pool.               *)
EXTENDS ModelBinding, SequenceTheorems, TLAPS

\* The parts of TypeOK.
ServerTyped ==
    /\ server \in {"serving", "attempts", "commits", "projections", "down", "broken"}
    /\ lock \in {"free", "queue", "spec", "commit"}
    /\ specs \in 1..MaxSpecs
    /\ restarts \in 0..MaxRestarts
TaskTyped == task \in [spec : 1..MaxSpecs, binding : Nat, stale : BOOLEAN,
                       running : BOOLEAN, archived : BOOLEAN]
AttemptsTyped ==
    /\ attempts \in Seq([res : Resolutions, status : Statuses])
    /\ Len(attempts) <= MaxAttempts
    /\ job \in [Attempts -> Places]
StoreTyped ==
    /\ intents \in [Resolutions -> Intents]
    /\ bindings \in Seq(Bindings)
    /\ pointer \in Nat /\ Len(bindings) \in {pointer, pointer + 1}
    /\ late \in SUBSET Attempts

\* A thread exists for an attempt of this process, and has not run it before
\* the attempt is marked as running.
JobOK ==
    /\ \A a \in Attempts \ DOMAIN attempts : job[a] = "none"
    /\ server # "serving" => /\ lock = "free"
                             /\ \A a \in Attempts : job[a] \in {"none", "over"}
    /\ \A a \in DOMAIN attempts :
           job[a] \in {"submitted", "marking"} => attempts[a].status \in {"queued", "cancelled"}

\* Only the last attempt is active, or without a state.
AttemptOK ==
    /\ \A a \in DOMAIN attempts :
           /\ attempts[a].status \in Active =>
                  /\ a = Len(attempts)
                  /\ server = "serving" => job[a] \notin {"none", "over"}
                  /\ server \notin {"commits", "projections"}
           /\ attempts[a].status = "recorded" =>
                  /\ a = Len(attempts) /\ job[a] = "none"
                  /\ lock = "queue" \/ server \in {"down", "attempts", "broken"}
    /\ lock = "queue" =>
           attempts # <<>> /\ attempts[Len(attempts)].status = "recorded"

\* Where a commit is, and what it has written so far.
Written(a) == [res |-> attempts[a].res, by |-> a]
Progress(a) ==
    LET i == intents[attempts[a].res]
    IN  \/ /\ job[a] = "prepared" /\ i.status = "prepared"
           /\ i.base = pointer /\ Len(bindings) = pointer
        \/ /\ job[a] = "requested" /\ i.status = "requested"
           /\ i.base = pointer /\ Len(bindings) = pointer
        \/ /\ job[a] = "recorded" /\ i.status = "requested"
           /\ i.base = pointer /\ Len(bindings) = pointer + 1
           /\ bindings[pointer + 1] = Written(a)
        \/ /\ job[a] = "pointed" /\ i.status = "requested"
           /\ i.base + 1 = pointer /\ Len(bindings) = pointer
           /\ bindings[pointer] = Written(a)
        \/ /\ job[a] \in {"receipted", "activated"} /\ i.status = "committed"
           /\ i.base + 1 = pointer /\ Len(bindings) = pointer
           /\ bindings[pointer] = Written(a)
CommitOK ==
    /\ lock = "commit" => \E a \in DOMAIN attempts : job[a] \in Committing
    /\ \A a \in DOMAIN attempts : job[a] \in Committing =>
           /\ lock = "commit"
           /\ attempts[a].status = "running"
           /\ attempts[a].res.spec = task.spec /\ Mutable
           /\ intents[attempts[a].res].by = a
           /\ Progress(a)

\* A requested commit is the only one; a thread or recovery carries it out.
Pending(r) ==
    /\ intents[r].by \in DOMAIN attempts
    /\ attempts[intents[r].by].status \in {"running", "interrupted"}
    /\ server = "serving" =>
           /\ job[intents[r].by] \in {"requested", "recorded", "pointed"}
           /\ attempts[intents[r].by].res = r
    /\ Mutable /\ r.spec = task.spec
    /\ \A q \in Requested : q = r
    /\ \/ intents[r].base = pointer
       \/ intents[r].base + 1 = pointer /\ Len(bindings) = pointer
    /\ Len(bindings) > intents[r].base =>
           bindings[intents[r].base + 1] = [res |-> r, by |-> intents[r].by]
IntentOK ==
    /\ \A r \in Resolutions :
           /\ intents[r].status = "committed" => intents[r].base < pointer
           /\ intents[r].status = "requested" => Pending(r)
    /\ Len(bindings) > pointer => \E r \in Requested : intents[r].base = pointer
    /\ server = "projections" => Requested = {}

\* A binding belongs to an attempt that cannot be cancelled nor fail any more,
\* or to one that has raised after its binding was written.
BindingOK ==
    /\ \A n \in DOMAIN bindings :
           LET b == bindings[n] IN
           /\ b.by \in DOMAIN attempts
           /\ \/ b.by \in late
              \/ attempts[b.by].status \in {"completed", "interrupted"}
              \/ /\ attempts[b.by].status = "running"
                 /\ server = "serving" => job[b.by] \in Committing \ {"prepared", "requested"}
           /\ \/ intents[b.res].status = "committed"
              \/ intents[b.res].status = "requested" /\ n = intents[b.res].base + 1
    /\ \A a \in DOMAIN attempts : attempts[a].status = "completed" => BoundBy(a)
LateOK ==
    \A a \in late :
        /\ a \in DOMAIN attempts /\ BoundBy(a)
        /\ job[a] \in {"raised", "failing", "over"}
        /\ attempts[a].status \in {"running", "cancelled", "failed", "interrupted"}

\* A task that does not name the binding in force is about to.
TaskOK ==
    task.binding # pointer =>
        /\ Mutable /\ pointer > 0
        /\ bindings[pointer].res.spec = task.spec
        /\ server = "serving" =>
               \E a \in DOMAIN attempts : job[a] \in {"pointed", "receipted"}

\* A TaskSpec revision is at most one file ahead of the task.
SpecOK ==
    /\ specs \in {task.spec, task.spec + 1}
    /\ lock = "spec" => specs = task.spec + 1

IInv ==
    /\ TypeOK /\ SpecOK /\ JobOK /\ AttemptOK /\ CommitOK /\ IntentOK
    /\ BindingOK /\ LateOK /\ TaskOK

-----------------------------------------------------------------------------
\* TypeOK, before a step and after it, is the sum of its parts.
LEMMA TypeParts ==
    /\ TypeOK <=> ServerTyped /\ TaskTyped /\ AttemptsTyped /\ StoreTyped
    /\ TypeOK' <=> ServerTyped' /\ TaskTyped' /\ AttemptsTyped' /\ StoreTyped'
BY DEF TypeOK, ServerTyped, TaskTyped, AttemptsTyped, StoreTyped

\* The attempts are numbered from 1 on.
LEMMA AttemptsFacts ==
    ASSUME AttemptsTyped
    PROVE  /\ Len(attempts) \in Nat
           /\ DOMAIN attempts = 1..Len(attempts)
           /\ DOMAIN attempts \subseteq Attempts
           /\ \A a \in DOMAIN attempts :
                  attempts[a] \in [res : Resolutions, status : Statuses]
<1> DEFINE S == [res : Resolutions, status : Statuses]
<1>1. attempts \in Seq(S) /\ Len(attempts) <= MaxAttempts
  BY DEF AttemptsTyped
<1> HIDE DEF S
<1>2. /\ Len(attempts) \in Nat /\ DOMAIN attempts = 1..Len(attempts)
      /\ \A a \in DOMAIN attempts : attempts[a] \in S
  BY <1>1
<1>3. DOMAIN attempts \subseteq Attempts
  BY <1>1, <1>2, ModelBindingAssumption DEF Attempts
<1> QED
  BY <1>2, <1>3 DEF S

\* A new state of one attempt changes nothing else in the list.
LEMMA TurnedFacts ==
    ASSUME AttemptsTyped, NEW a \in DOMAIN attempts, NEW st \in Statuses, Turned(a, st)
    PROVE  /\ attempts' \in Seq([res : Resolutions, status : Statuses])
           /\ Len(attempts') = Len(attempts)
           /\ DOMAIN attempts' = DOMAIN attempts
           /\ \A b \in DOMAIN attempts :
                  /\ attempts'[b].res = attempts[b].res
                  /\ attempts'[b].status = IF b = a THEN st ELSE attempts[b].status
<1> DEFINE S == [res : Resolutions, status : Statuses]
           new == [attempts[a] EXCEPT !.status = st]
<1>1. attempts' = [attempts EXCEPT ![a] = new]
  BY DEF Turned
<1>2. attempts[a] \in S
  BY AttemptsFacts
<1>3. new \in S /\ new.res = attempts[a].res /\ new.status = st
  BY <1>2
<1>4. attempts \in Seq(S) /\ a \in 1..Len(attempts)
  BY AttemptsFacts DEF AttemptsTyped
<1> HIDE DEF new, S
<1>5. /\ attempts' \in Seq(S) /\ Len(attempts') = Len(attempts)
      /\ DOMAIN attempts' = DOMAIN attempts
      /\ \A b \in DOMAIN attempts : attempts'[b] = IF b = a THEN new ELSE attempts[b]
  BY <1>1, <1>3, <1>4
<1> QED
  BY <1>3, <1>5 DEF S

\* Places of threads are what they are called.
LEMMA PlaceFacts ==
    /\ Committing \subseteq Places
    /\ "none" \in Places \ Committing /\ "over" \in Places \ Committing
BY DEF Committing, Places, Threading

\* While nothing is being committed, nothing is half written.
LEMMA AtRest ==
    ASSUME IInv, server = "serving", lock # "commit"
    PROVE  /\ \A a \in DOMAIN attempts : job[a] \notin Committing
           /\ Requested = {}
           /\ Len(bindings) = pointer
           /\ task.binding = pointer
           /\ \A n \in DOMAIN bindings :
                  /\ intents[bindings[n].res].status = "committed"
                  /\ \/ bindings[n].by \in late
                     \/ attempts[bindings[n].by].status \in {"completed", "interrupted"}
<1>1. \A a \in DOMAIN attempts : job[a] \notin Committing
  BY DEF IInv, CommitOK
<1>2. Requested = {}
  BY <1>1 DEF IInv, IntentOK, Pending, Requested, Committing
<1>3. Len(bindings) = pointer
  BY <1>2 DEF IInv, IntentOK, TypeOK
<1>4. task.binding = pointer
  BY <1>1 DEF IInv, TaskOK, Committing
<1>5. ASSUME NEW n \in DOMAIN bindings
      PROVE  /\ intents[bindings[n].res].status = "committed"
             /\ \/ bindings[n].by \in late
                \/ attempts[bindings[n].by].status \in {"completed", "interrupted"}
  <2>1. bindings[n] \in Bindings
    BY DEF IInv, TypeOK
  <2>2. bindings[n].res \in Resolutions
    BY <2>1 DEF Bindings
  <2> QED
    BY <1>1, <1>2, <2>2 DEF IInv, BindingOK, Requested
<1> QED
  BY <1>1, <1>2, <1>3, <1>4, <1>5

\* The steps of a thread that write nothing.
LEMMA JobStep ==
    ASSUME IInv, NEW a \in DOMAIN attempts, NEW to \in Places \ Committing,
           job[a] \notin Committing \cup {"none", "over"}, to # "none",
           job[a] \in {"raised", "failing"} => to \in {"failing", "over"},
           to = "over" => attempts[a].status \notin Active,
           to \in {"submitted", "marking"} => attempts[a].status \in {"queued", "cancelled"},
           job' = [job EXCEPT ![a] = to],
           UNCHANGED <<lock, attempts>>, Unstored
    PROVE  IInv'
<1> a \in Attempts
  BY TypeParts, AttemptsFacts DEF IInv
<1> USE DEF Unstored, stored
<1>0. job \in [Attempts -> Places]
  BY DEF IInv, TypeOK
<1>1. TypeOK'
  BY <1>0, TypeParts DEF IInv, ServerTyped, TaskTyped, AttemptsTyped, StoreTyped
<1>2. SpecOK'
  BY DEF IInv, SpecOK
<1>3. JobOK'
  BY <1>0, PlaceFacts DEF IInv, JobOK
<1>4. AttemptOK'
  BY <1>0 DEF IInv, AttemptOK
<1>5. \A b \in DOMAIN attempts : job'[b] = job[b] \/ (b = a /\ job'[b] \notin Committing)
  BY <1>0 DEF IInv, TypeOK, Attempts
<1>6. CommitOK'
  BY <1>5 DEF IInv, CommitOK, Progress, Written, Mutable
<1>7. IntentOK'
  BY <1>5 DEF IInv, IntentOK, Pending, Requested, Mutable, Committing
<1>8. BindingOK'
  BY <1>5 DEF IInv, BindingOK, BoundBy
<1>9. TaskOK'
  BY <1>5 DEF IInv, TaskOK, Mutable, Committing
<1>10. LateOK'
  BY <1>0, <1>5 DEF IInv, LateOK, BoundBy
<1> QED
  BY <1>1, <1>10, <1>2, <1>3, <1>4, <1>6, <1>7, <1>8, <1>9 DEF IInv

\* The steps that give an active attempt another state, outside of a commit.
LEMMA TurnStep ==
    ASSUME IInv, server = "serving", NEW a \in DOMAIN attempts,
           attempts[a].status \in Active, job[a] \notin Committing,
           NEW st \in {"running", "cancelled", "failed"}, Turned(a, st),
           NEW to \in Places \ Committing, to # "none", job' = [job EXCEPT ![a] = to],
           st = "running" => to \notin {"over", "submitted", "marking"},
           job[a] \in {"raised", "failing"} => to \in {"raised", "failing", "over"},
           to \in {"submitted", "marking"} => st = "cancelled",
           UNCHANGED lock, Unstored
    PROVE  IInv'
<1>1. AttemptsTyped /\ ServerTyped /\ TaskTyped /\ StoreTyped
  BY TypeParts DEF IInv
<1>2. a \in Attempts /\ job \in [Attempts -> Places]
  BY <1>1, AttemptsFacts DEF AttemptsTyped
<1> st \in Statuses
  BY DEF Statuses, Active
<1>3. /\ attempts' \in Seq([res : Resolutions, status : Statuses])
      /\ Len(attempts') = Len(attempts)
      /\ DOMAIN attempts' = DOMAIN attempts
      /\ \A b \in DOMAIN attempts :
             /\ attempts'[b].res = attempts[b].res
             /\ attempts'[b].status = IF b = a THEN st ELSE attempts[b].status
  BY <1>1, TurnedFacts
<1>4. \A b \in Attempts : job'[b] = IF b = a THEN to ELSE job[b]
  BY <1>2
<1>5. DOMAIN attempts \subseteq Attempts
  BY <1>1, AttemptsFacts
<1> USE DEF Unstored, stored
<1>6. TypeOK'
  <2>1. AttemptsTyped'
    BY <1>1, <1>2, <1>3 DEF AttemptsTyped
  <2>2. (ServerTyped /\ TaskTyped /\ StoreTyped)'
    BY <1>1 DEF ServerTyped, TaskTyped, StoreTyped
  <2> QED
    BY <2>1, <2>2, TypeParts
<1>7. SpecOK'
  BY DEF IInv, SpecOK
<1>8. JobOK'
  BY <1>3, <1>4, <1>5 DEF IInv, JobOK
<1>9. AttemptOK'
  <2>1. a = Len(attempts) /\ attempts[a].status # "recorded"
    BY DEF IInv, AttemptOK, Active
  <2>2. lock # "queue"
    BY <2>1 DEF IInv, AttemptOK
  <2> QED
    BY <1>3, <1>4, <1>5, <2>1, <2>2 DEF IInv, AttemptOK, Active
<1>10. CommitOK'
  BY <1>3, <1>4, <1>5 DEF IInv, CommitOK, Progress, Written, Mutable
<1>11. IntentOK'
  <2>1. ASSUME NEW r \in Requested
        PROVE  intents[r].by # a
    <3>1. Pending(r)
      BY DEF IInv, IntentOK, Requested
    <3> QED
      BY <3>1 DEF Pending, Committing
  <2> QED
    BY <1>3, <1>4, <1>5, <2>1 DEF IInv, IntentOK, Pending, Requested, Mutable
<1>12. BindingOK'
  <2>1. \A n \in DOMAIN bindings : bindings[n].by = a => a \in late
    BY DEF IInv, BindingOK, Active
  <2>2. \A b \in DOMAIN attempts \ {a} :
           job'[b] = job[b] /\ attempts'[b].status = attempts[b].status
    BY <1>3, <1>4, <1>5
  <2>3. attempts'[a].status # "completed" /\ DOMAIN attempts' = DOMAIN attempts
    BY <1>3
  <2>4. late' = late /\ bindings' = bindings /\ intents' = intents /\ server' = server
    OBVIOUS
  <2>5. BindingOK
    BY DEF IInv
  <2> QED
    BY <2>1, <2>2, <2>3, <2>4, <2>5 DEF BindingOK, BoundBy
<1>13. TaskOK'
  BY <1>3, <1>4, <1>5 DEF IInv, TaskOK, Mutable, Committing
<1>14. LateOK'
  <2>1. a \in late => job[a] \in {"raised", "failing", "over"}
    BY DEF IInv, LateOK
  <2>2. job[a] # "over"
    BY DEF IInv, AttemptOK
  <2> QED
    BY <1>3, <1>4, <1>5, <2>1, <2>2 DEF IInv, LateOK, BoundBy
<1> QED
  BY <1>14, <1>6, <1>7, <1>8, <1>9, <1>10, <1>11, <1>12, <1>13 DEF IInv

\* The steps of the task itself, which leave its binding alone.
LEMMA TaskStep ==
    ASSUME IInv, server = "serving", lock \in {"free", "spec"}, lock' \in {"free", "spec"},
           TaskTyped', specs' \in 1..MaxSpecs, SpecOK', task'.binding = task.binding,
           UNCHANGED <<server, attempts, job, stored, restarts>>
    PROVE  IInv'
<1> USE DEF stored
<1>1. /\ \A a \in DOMAIN attempts : job[a] \notin Committing
      /\ Requested = {} /\ Len(bindings) = pointer /\ task.binding = pointer
  BY AtRest
<1>2. TypeOK'
  BY TypeParts DEF IInv, ServerTyped, TaskTyped, AttemptsTyped, StoreTyped
<1>3. JobOK'
  BY DEF IInv, JobOK
<1>4. AttemptOK'
  BY DEF IInv, AttemptOK
<1>5. CommitOK'
  BY <1>1 DEF CommitOK
<1>6. IntentOK'
  BY <1>1 DEF IInv, IntentOK, Requested, TypeOK
<1>7. BindingOK'
  BY DEF IInv, BindingOK, BoundBy
<1>8. TaskOK'
  BY <1>1 DEF TaskOK
<1>9. LateOK'
  BY DEF IInv, LateOK, BoundBy
<1> QED
  BY <1>9, <1>2, <1>3, <1>4, <1>5, <1>6, <1>7, <1>8 DEF IInv

\* The steps of threads that write nothing.
LEMMA IdleSteps ==
    ASSUME IInv, NEW a \in DOMAIN attempts,
           \/ Start(a) \/ MarkRefused(a) \/ OpenBinding(a) \/ ReadSource(a)
           \/ RefuseCommit(a) \/ VerifyAttempt(a) \/ CatchError(a)
    PROVE  IInv'
<1> USE DEF Goes
<1>1. ASSUME NEW to, to \in Places \ (Committing \cup {"none"}),
             job[a] \notin Committing \cup {"none", "over"},
             job[a] \in {"raised", "failing"} => to \in {"failing", "over"},
             to = "over" => attempts[a].status \notin Active,
             to \in {"submitted", "marking"} => attempts[a].status \in {"queued", "cancelled"},
             job' = [job EXCEPT ![a] = to],
             UNCHANGED <<lock, attempts>>, Unstored
      PROVE  IInv'
  BY <1>1, JobStep
<1> USE DEF Places, Threading, Committing
<1>2. CASE Start(a)
  <2>1. attempts[a].status \in {"queued", "cancelled"}
    BY <1>2 DEF Start, IInv, JobOK
  <2> QED
    BY <1>1, <1>2, <2>1 DEF Start, Active
<1>3. CASE MarkRefused(a)
  BY <1>1, <1>3 DEF MarkRefused
<1>4. CASE OpenBinding(a)
  BY <1>1, <1>4 DEF OpenBinding
<1>5. CASE ReadSource(a)
  BY <1>1, <1>5 DEF ReadSource
<1>6. CASE RefuseCommit(a)
  BY <1>1, <1>6 DEF RefuseCommit
<1>7. CASE VerifyAttempt(a)
  BY <1>1, <1>7 DEF VerifyAttempt, Active
<1>8. CASE CatchError(a)
  BY <1>1, <1>8 DEF CatchError
<1> QED
  BY <1>2, <1>3, <1>4, <1>5, <1>6, <1>7, <1>8

\* An attempt starts to run, is cancelled, or fails.
LEMMA StateSteps ==
    ASSUME IInv, NEW a \in DOMAIN attempts,
           MarkRunning(a) \/ CancelAttempt(a) \/ FailAttempt(a)
    PROVE  IInv'
<1>0. a \in Attempts /\ job \in [Attempts -> Places]
  BY TypeParts, AttemptsFacts DEF IInv, AttemptsTyped
<1> USE DEF Goes
<1>1. CASE MarkRunning(a)
  <2>1. server = "serving"
    BY <1>0, <1>1 DEF MarkRunning, IInv, JobOK
  <2> QED
    BY <1>1, <2>1, TurnStep DEF MarkRunning, Active, Places, Threading, Committing
<1>2. CASE CancelAttempt(a)
  <2> DEFINE to == IF job[a] = "submitted" THEN "over" ELSE job[a]
  <2>1. server = "serving" /\ attempts[a].status \in Active /\ job[a] # "none"
    BY <1>2 DEF CancelAttempt, Unlocked, IInv, AttemptOK
  <2>2. job[a] \notin Committing
    BY <1>2, AtRest DEF CancelAttempt, Unlocked
  <2>3. to \in Places \ Committing /\ to # "none"
    BY <1>0, <2>1, <2>2, PlaceFacts
  <2>4. job' = [job EXCEPT ![a] = to]
    BY <1>0, <1>2 DEF CancelAttempt
  <2>5. Turned(a, "cancelled") /\ UNCHANGED lock /\ Unstored
    BY <1>2 DEF CancelAttempt, Unstored
  <2>6. job[a] \in {"raised", "failing"} => to \in {"raised", "failing", "over"}
    OBVIOUS
  <2> HIDE DEF to
  <2> QED
    BY <2>1, <2>2, <2>3, <2>4, <2>5, <2>6, TurnStep
<1>3. CASE FailAttempt(a)
  <2>1. server = "serving"
    BY <1>0, <1>3 DEF FailAttempt, IInv, JobOK
  <2>2. CASE attempts[a].status \in Active
    BY <1>3, <2>1, <2>2, TurnStep DEF FailAttempt, Places, Threading, Committing
  <2>3. CASE attempts[a].status \notin Active
    BY <1>3, <2>3, JobStep DEF FailAttempt, Places, Threading, Committing
  <2> QED
    BY <2>2, <2>3
<1> QED
  BY <1>1, <1>2, <1>3

\* The TaskSpec is revised, the task is archived, a Run starts or ends.
LEMMA TaskSteps ==
    ASSUME IInv, WriteSpec \/ ApplySpec \/ ArchiveTask \/ RunStarts \/ RunEnds
    PROVE  IInv'
<1>1. TaskTyped /\ ServerTyped /\ SpecOK
  BY TypeParts DEF IInv
<1>2. CASE WriteSpec
  BY <1>1, <1>2, TaskStep, ModelBindingAssumption
     DEF WriteSpec, Unlocked, SpecOK, TaskTyped, ServerTyped
<1>3. CASE ApplySpec
  <2>1. server = "serving"
    BY <1>3 DEF ApplySpec, IInv, JobOK
  <2> QED
    BY <1>1, <1>3, <2>1, TaskStep, ModelBindingAssumption
       DEF ApplySpec, SpecOK, TaskTyped, ServerTyped
<1>4. CASE ArchiveTask \/ RunStarts \/ RunEnds
  BY <1>1, <1>4, TaskStep
     DEF ArchiveTask, RunStarts, RunEnds, Unlocked, SpecOK, TaskTyped, ServerTyped
<1> QED
  BY <1>2, <1>3, <1>4

\* Only the last attempt is at work on a commit.
LEMMA OneCommit ==
    ASSUME IInv, NEW a \in DOMAIN attempts, job[a] \in Committing
    PROVE  /\ server = "serving" /\ lock = "commit" /\ a \in Attempts
           /\ attempts[a].status = "running" /\ a = Len(attempts)
           /\ attempts[a].res \in Resolutions /\ attempts[a].res.spec = task.spec
           /\ Mutable /\ intents[attempts[a].res].by = a /\ Progress(a)
           /\ \A b \in DOMAIN attempts : job[b] \in Committing => b = a
<1>1. a \in Attempts /\ attempts[a].res \in Resolutions
  BY TypeParts, AttemptsFacts DEF IInv
<1>2. \A b \in DOMAIN attempts : job[b] \in Committing =>
         attempts[b].status = "running" /\ b = Len(attempts)
  BY DEF IInv, CommitOK, AttemptOK, Active
<1>3. server = "serving"
  BY <1>1 DEF IInv, JobOK, Committing
<1> QED
  BY <1>1, <1>2, <1>3 DEF IInv, CommitOK

\* The approval becomes an attempt.
LEMMA QueueStep ==
    ASSUME IInv, NEW s \in Sources, QueueBinding(s)
    PROVE  IInv'
<1> DEFINE r == [source |-> s, spec |-> task.spec]
           new == [res |-> r, status |-> "recorded"]
           N == Len(attempts)
<1>1. AttemptsTyped /\ ServerTyped /\ TaskTyped /\ StoreTyped
  BY TypeParts DEF IInv
<1>2. /\ N \in Nat /\ N < MaxAttempts /\ DOMAIN attempts = 1..N
      /\ job \in [Attempts -> Places]
  BY <1>1, AttemptsFacts DEF QueueBinding, AttemptsTyped
<1>3. new \in [res : Resolutions, status : Statuses]
  BY <1>1 DEF TaskTyped, Resolutions, Statuses
<1>4. /\ attempts' = Append(attempts, new) /\ lock' = "queue"
      /\ Unlocked /\ Fresh(r)
      /\ UNCHANGED <<server, specs, task, job, stored, restarts>>
  BY DEF QueueBinding
<1> HIDE DEF new
<1>5. /\ attempts' \in Seq([res : Resolutions, status : Statuses])
      /\ Len(attempts') = N + 1 /\ DOMAIN attempts' = 1..(N + 1)
      /\ \A a \in 1..N : attempts'[a] = attempts[a]
      /\ attempts'[N + 1] = new
  BY <1>1, <1>3, <1>4, AppendProperties DEF AttemptsTyped
<1>6. /\ \A a \in 1..N : job[a] \notin Committing
      /\ Requested = {} /\ Len(bindings) = pointer /\ task.binding = pointer
  BY <1>2, <1>4, AtRest DEF Unlocked
<1> USE DEF stored
<1>7. TypeOK'
  <2>1. AttemptsTyped'
    BY <1>1, <1>2, <1>4, <1>5, ModelBindingAssumption DEF AttemptsTyped
  <2>2. (ServerTyped /\ TaskTyped /\ StoreTyped)'
    BY <1>1, <1>4 DEF ServerTyped, TaskTyped, StoreTyped
  <2> QED
    BY <2>1, <2>2, TypeParts
<1>8. SpecOK'
  BY <1>4 DEF IInv, SpecOK, Unlocked
<1>9. N + 1 \in Attempts \ DOMAIN attempts /\ job[N + 1] = "none"
  BY <1>2, ModelBindingAssumption DEF IInv, JobOK, Attempts
<1>10. JobOK'
  BY <1>2, <1>4, <1>5, <1>9 DEF IInv, JobOK, Unlocked
<1>11. \A a \in 1..N : attempts[a].status \notin Active \cup {"recorded"}
  BY <1>2, <1>4 DEF IInv, AttemptOK, Fresh, Unlocked, Last
<1>12. AttemptOK'
  <2>1. new.status = "recorded"
    BY DEF new
  <2> QED
    BY <1>2, <1>4, <1>5, <1>9, <1>11, <2>1 DEF AttemptOK, Active
<1>13. CommitOK'
  BY <1>2, <1>4, <1>5, <1>6, <1>9 DEF CommitOK, Committing
<1>14. IntentOK'
  BY <1>4, <1>6, <1>1 DEF IInv, IntentOK, Requested, StoreTyped, Unlocked
<1>15. BindingOK'
  <2>1. new.status = "recorded"
    BY DEF new
  <2> QED
    BY <1>2, <1>4, <1>5, <2>1 DEF IInv, BindingOK, BoundBy
<1>16. TaskOK'
  BY <1>4, <1>6 DEF TaskOK
<1>17. LateOK'
  BY <1>2, <1>4, <1>5 DEF IInv, LateOK, BoundBy
<1> QED
  BY <1>17, <1>7, <1>8, <1>10, <1>12, <1>13, <1>14, <1>15, <1>16 DEF IInv

\* It is given its first state and handed to the pool.
LEMMA SubmitStep ==
    ASSUME IInv, SubmitBinding
    PROVE  IInv'
<1> DEFINE a == Len(attempts)
<1>1. AttemptsTyped /\ ServerTyped /\ TaskTyped /\ StoreTyped
  BY TypeParts DEF IInv
<1>2. /\ a \in DOMAIN attempts /\ a \in Attempts /\ DOMAIN attempts \subseteq Attempts
      /\ attempts[a].status = "recorded" /\ job \in [Attempts -> Places]
  <2>1. attempts # <<>> /\ attempts[a].status = "recorded"
    BY DEF SubmitBinding, IInv, AttemptOK
  <2>2. attempts \in Seq([res : Resolutions, status : Statuses])
    BY <1>1 DEF AttemptsTyped
  <2>3. Len(attempts) > 0
    BY <2>1, <2>2, EmptySeq
  <2> QED
    BY <1>1, <2>1, <2>3, AttemptsFacts DEF AttemptsTyped
<1>3. /\ lock = "queue" /\ lock' = "free" /\ Turned(a, "queued")
      /\ job[a] = "none" /\ job' = [job EXCEPT ![a] = "submitted"]
      /\ UNCHANGED <<server, specs, task, stored, restarts>>
  BY DEF SubmitBinding, Goes
<1> HIDE DEF a
<1>4. server = "serving"
  BY <1>3 DEF IInv, JobOK
<1>5. /\ \A b \in DOMAIN attempts : job[b] \notin Committing
      /\ Requested = {} /\ Len(bindings) = pointer /\ task.binding = pointer
  BY <1>3, <1>4, AtRest
<1>6. /\ attempts' \in Seq([res : Resolutions, status : Statuses])
      /\ Len(attempts') = Len(attempts)
      /\ DOMAIN attempts' = DOMAIN attempts
      /\ \A b \in DOMAIN attempts :
             /\ attempts'[b].res = attempts[b].res
             /\ attempts'[b].status = IF b = a THEN "queued" ELSE attempts[b].status
  <2>1. "queued" \in Statuses
    BY DEF Statuses, Active
  <2> QED
    BY <1>1, <1>2, <1>3, <2>1, TurnedFacts
<1>7. \A b \in Attempts : job'[b] = IF b = a THEN "submitted" ELSE job[b]
  BY <1>2, <1>3
<1> USE DEF stored
<1>8. TypeOK'
  <2>1. AttemptsTyped'
    BY <1>1, <1>2, <1>3, <1>6 DEF AttemptsTyped, Places
  <2>2. (ServerTyped /\ TaskTyped /\ StoreTyped)'
    BY <1>1, <1>3 DEF ServerTyped, TaskTyped, StoreTyped
  <2> QED
    BY <2>1, <2>2, TypeParts
<1>9. SpecOK'
  BY <1>3 DEF IInv, SpecOK
<1>10. JobOK'
  BY <1>2, <1>3, <1>4, <1>6, <1>7 DEF IInv, JobOK
<1>11. AttemptOK'
  BY <1>2, <1>3, <1>4, <1>6, <1>7 DEF IInv, AttemptOK, Active, a
<1>12. CommitOK'
  BY <1>2, <1>3, <1>5, <1>6, <1>7 DEF CommitOK, Committing
<1>13. IntentOK'
  BY <1>1, <1>3, <1>4, <1>5 DEF IInv, IntentOK, Requested, StoreTyped
<1>14. BindingOK'
  <2>1. a \notin late /\ \A n \in DOMAIN bindings : bindings[n].by # a
    BY <1>2 DEF IInv, BindingOK, LateOK
  <2>2. \A b \in DOMAIN attempts \ {a} :
           job'[b] = job[b] /\ attempts'[b].status = attempts[b].status
    BY <1>2, <1>6, <1>7
  <2>3. BindingOK
    BY DEF IInv
  <2>4. attempts'[a].status = "queued"
    BY <1>2, <1>6
  <2>5. late' = late /\ bindings' = bindings /\ intents' = intents /\ server' = server
    BY <1>3
  <2>6. DOMAIN attempts' = DOMAIN attempts
    BY <1>6
  <2> QED
    BY <2>1, <2>2, <2>3, <2>4, <2>5, <2>6 DEF BindingOK, BoundBy
<1>15. TaskOK'
  BY <1>3, <1>5 DEF TaskOK
<1>16. LateOK'
  <2>1. a \notin late
    BY <1>2 DEF IInv, LateOK
  <2> QED
    BY <1>2, <1>3, <1>6, <1>7, <2>1 DEF IInv, LateOK, BoundBy
<1> QED
  BY <1>16, <1>8, <1>9, <1>10, <1>11, <1>12, <1>13, <1>14, <1>15 DEF IInv

\* A commit begins: the intent is prepared and the lock is kept.
LEMMA PrepareStep ==
    ASSUME IInv, NEW a \in DOMAIN attempts, PrepareIntent(a)
    PROVE  IInv'
<1> DEFINE r == attempts[a].res
           i == [status |-> "prepared", base |-> pointer, by |-> a]
<1>1. AttemptsTyped /\ ServerTyped /\ TaskTyped /\ StoreTyped
  BY TypeParts DEF IInv
<1>2. a \in Nat /\ a \in Attempts /\ r \in Resolutions /\ DOMAIN attempts \subseteq Attempts
  BY <1>1, AttemptsFacts
<1>3. /\ server = "serving" /\ lock = "free" /\ lock' = "commit"
      /\ attempts[a].status = "running" /\ Mutable /\ r.spec = task.spec
      /\ intents[r].status # "none" => intents[r].base = pointer
      /\ job[a] = "read" /\ job' = [job EXCEPT ![a] = "prepared"]
      /\ intents' = [intents EXCEPT ![r] = i]
      /\ UNCHANGED <<server, specs, task, attempts, bindings, pointer, late, restarts>>
  BY DEF PrepareIntent, Unlocked, Admitted, Refused, Preparable, Goes
<1> HIDE DEF r, i
<1>4. /\ \A b \in DOMAIN attempts : job[b] \notin Committing
      /\ Requested = {} /\ Len(bindings) = pointer /\ task.binding = pointer
      /\ \A n \in DOMAIN bindings :
             /\ intents[bindings[n].res].status = "committed"
             /\ \/ bindings[n].by \in late
                \/ attempts[bindings[n].by].status \in {"completed", "interrupted"}
  BY <1>3, AtRest
<1>5. \A b \in Attempts : job'[b] = IF b = a THEN "prepared" ELSE job[b]
  BY <1>1, <1>2, <1>3 DEF AttemptsTyped
<1>6. i \in Intents /\ i.status = "prepared" /\ i.base = pointer /\ i.by = a
  BY <1>1, <1>2 DEF i, Intents, StoreTyped
<1>7. \A q \in Resolutions : intents'[q] = IF q = r THEN i ELSE intents[q]
  BY <1>1, <1>2, <1>3 DEF StoreTyped
<1>8. intents[r].status # "committed" /\ intents[r].base \in Nat
  BY <1>1, <1>2, <1>3 DEF IInv, IntentOK, StoreTyped, Intents
<1>9. TypeOK'
  <2>1. AttemptsTyped'
    BY <1>1, <1>2, <1>3, PlaceFacts DEF AttemptsTyped, Committing
  <2>2. StoreTyped'
    BY <1>1, <1>2, <1>3, <1>6 DEF StoreTyped
  <2>3. (ServerTyped /\ TaskTyped)'
    BY <1>1, <1>3 DEF ServerTyped, TaskTyped
  <2> QED
    BY <2>1, <2>2, <2>3, TypeParts
<1>10. SpecOK'
  BY <1>3 DEF IInv, SpecOK
<1>11. JobOK'
  BY <1>2, <1>3, <1>5 DEF IInv, JobOK
<1>12. AttemptOK'
  BY <1>2, <1>3, <1>5 DEF IInv, AttemptOK
<1>13. CommitOK'
  <2>1. lock' = "commit" /\ Mutable' /\ intents'[r].by = a /\ r.spec = task'.spec
    BY <1>2, <1>3, <1>6, <1>7 DEF Mutable
  <2>2. Progress(a)'
    BY <1>2, <1>3, <1>4, <1>5, <1>6, <1>7 DEF Progress, r
  <2>3. \A b \in DOMAIN attempts : job'[b] \in Committing => b = a
    BY <1>2, <1>4, <1>5
  <2>4. job'[a] \in Committing
    BY <1>2, <1>5 DEF Committing
  <2> QED
    BY <1>3, <2>1, <2>2, <2>3, <2>4 DEF CommitOK, r
<1>14. IntentOK'
  BY <1>1, <1>3, <1>4, <1>6, <1>7 DEF IInv, IntentOK, Requested, StoreTyped
<1>15. BindingOK'
  <2>1. \A n \in DOMAIN bindings :
           bindings[n].res \in Resolutions /\ bindings[n].by \in DOMAIN attempts
    <3>1. \A n \in DOMAIN bindings : bindings[n] \in Bindings
      BY <1>1 DEF StoreTyped
    <3> QED
      BY <3>1 DEF Bindings, IInv, BindingOK
  <2>2. \A n \in DOMAIN bindings : bindings[n].res # r
    BY <1>4, <1>8
  <2> QED
    BY <1>2, <1>3, <1>4, <1>5, <1>7, <2>1, <2>2 DEF IInv, BindingOK, BoundBy
<1>16. TaskOK'
  BY <1>3, <1>4 DEF TaskOK
<1>17. LateOK'
  BY <1>2, <1>3, <1>5 DEF IInv, LateOK, BoundBy
<1> QED
  BY <1>9, <1>10, <1>11, <1>12, <1>13, <1>14, <1>15, <1>16, <1>17 DEF IInv

\* What the steps of a commit have in common: the thread goes on to another
\* place, and the attempts and the lock stay.
LEMMA CommitFrame ==
    ASSUME IInv, NEW a \in DOMAIN attempts, job[a] \in Committing,
           NEW to \in Committing, job' = [job EXCEPT ![a] = to],
           UNCHANGED <<server, lock, specs, attempts, late, restarts>>,
           TaskTyped', StoreTyped', task'.spec = task.spec, Mutable',
           intents'[attempts[a].res].by = a, Progress(a)',
           \A b \in DOMAIN attempts : BoundBy(b) => BoundBy(b)'
    PROVE  /\ TypeOK' /\ SpecOK' /\ JobOK' /\ AttemptOK' /\ CommitOK' /\ LateOK'
           /\ \A b \in Attempts : job'[b] = IF b = a THEN to ELSE job[b]
<1>1. AttemptsTyped /\ ServerTyped
  BY TypeParts DEF IInv
<1>2. DOMAIN attempts \subseteq Attempts /\ job \in [Attempts -> Places]
  BY <1>1, AttemptsFacts DEF AttemptsTyped
<1>3. \A b \in Attempts : job'[b] = IF b = a THEN to ELSE job[b]
  BY <1>2
<1>4. TypeOK'
  <2>1. AttemptsTyped' /\ ServerTyped'
    BY <1>1, PlaceFacts DEF AttemptsTyped, ServerTyped
  <2> QED
    BY <2>1, TypeParts
<1>5. SpecOK'
  BY DEF IInv, SpecOK
<1>6. /\ server = "serving" /\ lock = "commit" /\ attempts[a].status = "running"
      /\ attempts[a].res.spec = task.spec
      /\ \A b \in DOMAIN attempts : job[b] \in Committing => b = a
  BY OneCommit
<1>7. JobOK'
  BY <1>2, <1>3, <1>6 DEF IInv, JobOK, Committing
<1>8. AttemptOK'
  BY <1>2, <1>3, <1>6, PlaceFacts DEF IInv, AttemptOK
<1>9. CommitOK'
  BY <1>2, <1>3, <1>6 DEF CommitOK
<1>10. LateOK'
  <2>1. a \notin late
    BY DEF IInv, LateOK, Committing
  <2> QED
    BY <1>2, <1>3, <2>1 DEF IInv, LateOK
<1> QED
  BY <1>10, <1>3, <1>4, <1>5, <1>7, <1>8, <1>9

\* During a commit nothing but it is requested, and the task names the binding
\* in force except between the pointer and the activation.
LEMMA CommitFacts ==
    ASSUME IInv, NEW a \in DOMAIN attempts, job[a] \in Committing
    PROVE  /\ Requested = IF job[a] \in {"requested", "recorded", "pointed"}
                          THEN {attempts[a].res} ELSE {}
           /\ job[a] \notin {"pointed", "receipted"} => task.binding = pointer
<1>1. /\ server = "serving" /\ attempts[a].res \in Resolutions /\ Progress(a)
      /\ \A b \in DOMAIN attempts : job[b] \in Committing => b = a
  BY OneCommit
<1>2. ASSUME NEW q \in Requested
      PROVE  q = attempts[a].res /\ job[a] \in {"requested", "recorded", "pointed"}
  <2>1. Pending(q)
    BY DEF IInv, IntentOK, Requested
  <2>2. intents[q].by = a
    BY <1>1, <2>1 DEF Pending, Committing
  <2> QED
    BY <1>1, <2>1, <2>2 DEF Pending
<1>3. job[a] \in {"requested", "recorded", "pointed"} => attempts[a].res \in Requested
  BY <1>1 DEF Progress, Requested
<1>4. job[a] \notin {"pointed", "receipted"} => task.binding = pointer
  BY <1>1 DEF IInv, TaskOK, Committing
<1> QED
  BY <1>2, <1>3, <1>4

\* The commit is requested: from now on recovery would carry it out.
LEMMA RequestStep ==
    ASSUME IInv, NEW a \in DOMAIN attempts, RequestCommit(a)
    PROVE  IInv'
<1> DEFINE r == attempts[a].res
<1>1. AttemptsTyped /\ ServerTyped /\ TaskTyped /\ StoreTyped
  BY TypeParts DEF IInv
<1>2. /\ job[a] = "prepared" /\ job' = [job EXCEPT ![a] = "requested"]
      /\ intents' = [intents EXCEPT ![r].status = "requested"]
      /\ UNCHANGED <<server, lock, specs, task, attempts, bindings, pointer, late, restarts>>
  BY DEF RequestCommit, Goes, IntentTurns
<1>3. /\ job[a] \in Committing /\ "requested" \in Committing
      /\ server = "serving" /\ r \in Resolutions /\ r.spec = task.spec /\ Mutable
      /\ intents[r].by = a /\ Progress(a) /\ a \in Attempts /\ attempts[a].status = "running"
      /\ \A b \in DOMAIN attempts : job[b] \in Committing => b = a
  BY <1>2, OneCommit DEF Committing
<1>4. Requested = {} /\ task.binding = pointer
  BY <1>2, <1>3, CommitFacts
<1>5. /\ intents' \in [Resolutions -> Intents]
      /\ \A q \in Resolutions :
             /\ intents'[q].status = IF q = r THEN "requested" ELSE intents[q].status
             /\ intents'[q].base = intents[q].base /\ intents'[q].by = intents[q].by
  BY <1>1, <1>2, <1>3 DEF StoreTyped, Intents
<1>6. intents[r].status = "prepared" /\ intents[r].base = pointer /\ Len(bindings) = pointer
  BY <1>2, <1>3 DEF Progress
<1>7. job'[a] = "requested"
  BY <1>1, <1>2, <1>3 DEF AttemptsTyped
<1>8. /\ TypeOK' /\ SpecOK' /\ JobOK' /\ AttemptOK' /\ CommitOK' /\ LateOK'
      /\ \A b \in Attempts : job'[b] = IF b = a THEN "requested" ELSE job[b]
  <2>1. TaskTyped' /\ StoreTyped' /\ Mutable'
    BY <1>1, <1>2, <1>3, <1>5 DEF TaskTyped, StoreTyped, Mutable
  <2>2. Progress(a)'
    BY <1>2, <1>3, <1>5, <1>6, <1>7 DEF Progress
  <2>3. intents'[r].by = a
    BY <1>3, <1>5
  <2>4. \A b \in DOMAIN attempts : BoundBy(b) => BoundBy(b)'
    BY <1>2 DEF BoundBy
  <2> QED
    BY <1>2, <1>3, <2>1, <2>2, <2>3, <2>4, CommitFrame
<1>9. Requested' = {r}
  BY <1>3, <1>4, <1>5 DEF Requested
<1>10. ASSUME NEW q \in Resolutions, intents'[q].status = "requested"
       PROVE  Pending(q)'
  <2>1. q = r
    BY <1>9, <1>10 DEF Requested
  <2> QED
    BY <1>1, <1>2, <1>3, <1>5, <1>6, <1>7, <1>9, <2>1 DEF Pending, Mutable, StoreTyped
<1>11. IntentOK'
  <2>1. \A q \in Resolutions : intents'[q].status = "committed" => intents'[q].base < pointer'
    BY <1>2, <1>5 DEF IInv, IntentOK
  <2>2. \A q \in Resolutions : intents'[q].status = "requested" => Pending(q)'
    BY <1>10
  <2> QED
    BY <1>1, <1>2, <1>3, <1>6, <2>1, <2>2 DEF IntentOK, StoreTyped
<1>12. BindingOK'
  <2>1. \A n \in DOMAIN bindings : bindings[n].res \in Resolutions
    <3>1. \A n \in DOMAIN bindings : bindings[n] \in Bindings
      BY <1>1 DEF StoreTyped
    <3> QED
      BY <3>1 DEF Bindings
  <2>2. \A n \in DOMAIN bindings : bindings[n].res # r
    BY <1>4, <1>6, <2>1 DEF IInv, BindingOK, Requested
  <2>3. \A n \in DOMAIN bindings : bindings[n].by # a
    BY <1>2, <1>3 DEF IInv, BindingOK, LateOK
  <2>4. DOMAIN attempts \subseteq Attempts
    BY <1>1, AttemptsFacts
  <2> QED
    BY <1>2, <1>5, <1>8, <2>1, <2>2, <2>3, <2>4 DEF IInv, BindingOK, BoundBy
<1>13. TaskOK'
  BY <1>2, <1>4 DEF TaskOK
<1> QED
  BY <1>8, <1>11, <1>12, <1>13 DEF IInv

\* The binding is written.
LEMMA RecordStep ==
    ASSUME IInv, NEW a \in DOMAIN attempts, RecordBinding(a)
    PROVE  IInv'
<1> DEFINE r == attempts[a].res
           new == [res |-> r, by |-> a]
<1>1. AttemptsTyped /\ ServerTyped /\ TaskTyped /\ StoreTyped
  BY TypeParts DEF IInv
<1>2. /\ job[a] = "requested" /\ job' = [job EXCEPT ![a] = "recorded"]
      /\ bindings' = Append(bindings, [res |-> r, by |-> intents[r].by])
      /\ UNCHANGED <<server, lock, specs, task, attempts, intents, pointer, late, restarts>>
  BY DEF RecordBinding, Goes, WriteBinding
<1>3. /\ job[a] \in Committing /\ "recorded" \in Committing
      /\ server = "serving" /\ r \in Resolutions /\ r.spec = task.spec /\ Mutable
      /\ intents[r].by = a /\ Progress(a) /\ a \in Attempts /\ attempts[a].status = "running"
      /\ \A b \in DOMAIN attempts : job[b] \in Committing => b = a
  BY <1>2, OneCommit DEF Committing
<1>4. Requested = {r} /\ task.binding = pointer
  BY <1>2, <1>3, CommitFacts
<1>5. intents[r].status = "requested" /\ intents[r].base = pointer /\ Len(bindings) = pointer
  BY <1>2, <1>3 DEF Progress
<1>6. /\ bindings' \in Seq(Bindings) /\ Len(bindings') = pointer + 1
      /\ DOMAIN bindings' = 1..(pointer + 1) /\ DOMAIN bindings = 1..pointer
      /\ \A n \in 1..pointer : bindings'[n] = bindings[n]
      /\ bindings'[pointer + 1] = new
  <2>1. new \in Bindings /\ bindings' = Append(bindings, new)
    BY <1>1, <1>2, <1>3, AttemptsFacts DEF Bindings
  <2> HIDE DEF new
  <2> QED
    BY <1>1, <1>5, <2>1, AppendProperties DEF StoreTyped
<1>7. job'[a] = "recorded"
  BY <1>1, <1>2, <1>3 DEF AttemptsTyped
<1> HIDE DEF new
<1>8. /\ TypeOK' /\ SpecOK' /\ JobOK' /\ AttemptOK' /\ CommitOK' /\ LateOK'
      /\ \A b \in Attempts : job'[b] = IF b = a THEN "recorded" ELSE job[b]
  <2>1. TaskTyped' /\ StoreTyped' /\ Mutable'
    BY <1>1, <1>2, <1>3, <1>6 DEF TaskTyped, StoreTyped, Mutable
  <2>2. Progress(a)'
    BY <1>2, <1>3, <1>5, <1>6, <1>7 DEF Progress, Written, new
  <2>3. intents'[r].by = a
    BY <1>2, <1>3
  <2>4. \A b \in DOMAIN attempts : BoundBy(b) => BoundBy(b)'
    BY <1>1, <1>2, <1>6 DEF BoundBy, StoreTyped
  <2> QED
    BY <1>2, <1>3, <2>1, <2>2, <2>3, <2>4, CommitFrame
<1>9. Requested' = {r}
  BY <1>2, <1>4 DEF Requested
<1>10. ASSUME NEW q \in Resolutions, intents'[q].status = "requested"
       PROVE  Pending(q)'
  <2>1. q = r
    BY <1>9, <1>10 DEF Requested
  <2> QED
    BY <1>1, <1>2, <1>3, <1>5, <1>6, <1>7, <1>9, <2>1 DEF Pending, Mutable, StoreTyped, new
<1>11. IntentOK'
  <2>1. \A q \in Resolutions : intents'[q].status = "committed" => intents'[q].base < pointer'
    BY <1>2 DEF IInv, IntentOK
  <2>2. \A q \in Resolutions : intents'[q].status = "requested" => Pending(q)'
    BY <1>10
  <2> QED
    BY <1>2, <1>3, <1>5, <1>9, <2>1, <2>2 DEF IntentOK
<1>12. BindingOK'
  <2>1. DOMAIN attempts \subseteq Attempts
    BY <1>1, AttemptsFacts
  <2>2. ASSUME NEW n \in 1..pointer
        PROVE  /\ bindings[n].by \in DOMAIN attempts
               /\ \/ bindings[n].by \in late
                  \/ attempts[bindings[n].by].status \in {"completed", "interrupted"}
               /\ intents[bindings[n].res].status = "committed"
    <3>1. bindings[n].res \in Resolutions
      <4>1. bindings[n] \in Bindings
        BY <1>1, <1>6 DEF StoreTyped
      <4> QED
        BY <4>1 DEF Bindings
    <3>2. intents[bindings[n].res].status = "committed"
      BY <1>1, <1>4, <1>5, <1>6, <3>1 DEF IInv, BindingOK, Requested, StoreTyped
    <3>3. bindings[n].by \in DOMAIN attempts
      BY <1>6 DEF IInv, BindingOK
    <3>4. \/ bindings[n].by \in late
          \/ attempts[bindings[n].by].status \in {"completed", "interrupted"}
      BY <1>2, <1>3, <1>6, <3>3 DEF IInv, BindingOK
    <3> QED
      BY <3>2, <3>3, <3>4
  <2> QED
    BY <1>2, <1>3, <1>5, <1>6, <1>7, <1>8, <2>1, <2>2
       DEF IInv, BindingOK, BoundBy, new, Committing
<1>13. TaskOK'
  BY <1>2, <1>4 DEF TaskOK
<1> QED
  BY <1>8, <1>11, <1>12, <1>13 DEF IInv

\* The binding comes into force.
LEMMA PointStep ==
    ASSUME IInv, NEW a \in DOMAIN attempts, MovePointer(a)
    PROVE  IInv'
<1> DEFINE r == attempts[a].res
<1>1. AttemptsTyped /\ ServerTyped /\ TaskTyped /\ StoreTyped
  BY TypeParts DEF IInv
<1>2. /\ job[a] = "recorded" /\ job' = [job EXCEPT ![a] = "pointed"]
      /\ pointer' = pointer + 1 /\ pointer \in Nat
      /\ UNCHANGED <<server, lock, specs, task, attempts, intents, bindings, late, restarts>>
  BY <1>1 DEF MovePointer, Goes, StoreTyped
<1>3. /\ job[a] \in Committing /\ "pointed" \in Committing
      /\ server = "serving" /\ r \in Resolutions /\ r.spec = task.spec /\ Mutable
      /\ intents[r].by = a /\ Progress(a) /\ a \in Attempts /\ attempts[a].status = "running"
      /\ \A b \in DOMAIN attempts : job[b] \in Committing => b = a
  BY <1>2, OneCommit DEF Committing
<1>4. Requested = {r}
  BY <1>2, <1>3, CommitFacts
<1>5. /\ intents[r].status = "requested" /\ intents[r].base = pointer
      /\ Len(bindings) = pointer + 1 /\ bindings[pointer + 1] = Written(a)
  BY <1>2, <1>3 DEF Progress
<1>6. job'[a] = "pointed"
  BY <1>1, <1>2, <1>3 DEF AttemptsTyped
<1>7. /\ TypeOK' /\ SpecOK' /\ JobOK' /\ AttemptOK' /\ CommitOK' /\ LateOK'
      /\ \A b \in Attempts : job'[b] = IF b = a THEN "pointed" ELSE job[b]
  <2>1. TaskTyped' /\ StoreTyped' /\ Mutable'
    BY <1>1, <1>2, <1>3, <1>5 DEF TaskTyped, StoreTyped, Mutable
  <2>2. Progress(a)'
    BY <1>2, <1>5, <1>6 DEF Progress, Written
  <2>3. intents'[r].by = a
    BY <1>2, <1>3
  <2>4. \A b \in DOMAIN attempts : BoundBy(b) => BoundBy(b)'
    BY <1>2 DEF BoundBy
  <2> QED
    BY <1>2, <1>3, <2>1, <2>2, <2>3, <2>4, CommitFrame
<1>8. IntentOK'
  <2>1. \A q \in Resolutions : intents'[q].status = "committed" => intents'[q].base < pointer'
    BY <1>1, <1>2 DEF IInv, IntentOK, StoreTyped, Intents
  <2>2. ASSUME NEW q \in Resolutions, intents'[q].status = "requested"
        PROVE  Pending(q)'
    <3>1. q = r /\ Requested' = {r}
      BY <1>2, <1>4, <2>2 DEF Requested
    <3> QED
      BY <1>2, <1>3, <1>5, <1>6, <3>1 DEF Pending, Mutable, Written
  <2> QED
    BY <1>2, <1>3, <1>5, <2>1, <2>2 DEF IntentOK
<1>9. BindingOK'
  <2>1. DOMAIN attempts \subseteq Attempts /\ "pointed" \in Committing \ {"prepared", "requested"}
    BY <1>1, AttemptsFacts DEF Committing
  <2> QED
    BY <1>2, <1>7, <2>1 DEF IInv, BindingOK, BoundBy
<1>10. TaskOK'
  BY <1>2, <1>3, <1>5, <1>6 DEF TaskOK, Mutable, Written
<1> QED
  BY <1>7, <1>8, <1>9, <1>10 DEF IInv

\* The receipt closes the intent.
LEMMA ReceiptStep ==
    ASSUME IInv, NEW a \in DOMAIN attempts, WriteReceipt(a)
    PROVE  IInv'
<1> DEFINE r == attempts[a].res
<1>1. AttemptsTyped /\ ServerTyped /\ TaskTyped /\ StoreTyped
  BY TypeParts DEF IInv
<1>2. /\ job[a] = "pointed" /\ job' = [job EXCEPT ![a] = "receipted"]
      /\ intents' = [intents EXCEPT ![r].status = "committed"]
      /\ UNCHANGED <<server, lock, specs, task, attempts, bindings, pointer, late, restarts>>
  BY DEF WriteReceipt, Goes, IntentTurns
<1>3. /\ job[a] \in Committing /\ "receipted" \in Committing
      /\ server = "serving" /\ r \in Resolutions /\ r.spec = task.spec /\ Mutable
      /\ intents[r].by = a /\ Progress(a) /\ a \in Attempts /\ attempts[a].status = "running"
      /\ \A b \in DOMAIN attempts : job[b] \in Committing => b = a
  BY <1>2, OneCommit DEF Committing
<1>4. Requested = {r}
  BY <1>2, <1>3, CommitFacts
<1>5. /\ intents' \in [Resolutions -> Intents]
      /\ \A q \in Resolutions :
             /\ intents'[q].status = IF q = r THEN "committed" ELSE intents[q].status
             /\ intents'[q].base = intents[q].base /\ intents'[q].by = intents[q].by
  BY <1>1, <1>2, <1>3 DEF StoreTyped, Intents
<1>6. /\ intents[r].base + 1 = pointer /\ Len(bindings) = pointer
      /\ bindings[pointer] = Written(a) /\ intents[r].base \in Nat /\ pointer \in Nat
  BY <1>1, <1>2, <1>3 DEF Progress, StoreTyped, Intents
<1>7. job'[a] = "receipted"
  BY <1>1, <1>2, <1>3 DEF AttemptsTyped
<1>8. /\ TypeOK' /\ SpecOK' /\ JobOK' /\ AttemptOK' /\ CommitOK' /\ LateOK'
      /\ \A b \in Attempts : job'[b] = IF b = a THEN "receipted" ELSE job[b]
  <2>1. TaskTyped' /\ StoreTyped' /\ Mutable'
    BY <1>1, <1>2, <1>3, <1>5 DEF TaskTyped, StoreTyped, Mutable
  <2>2. Progress(a)'
    BY <1>2, <1>3, <1>5, <1>6, <1>7 DEF Progress, Written
  <2>3. intents'[r].by = a
    BY <1>3, <1>5
  <2>4. \A b \in DOMAIN attempts : BoundBy(b) => BoundBy(b)'
    BY <1>2 DEF BoundBy
  <2> QED
    BY <1>2, <1>3, <2>1, <2>2, <2>3, <2>4, CommitFrame
<1>9. Requested' = {}
  BY <1>4, <1>5 DEF Requested
<1>10. IntentOK'
  <2>1. \A q \in Resolutions : intents'[q].status = "committed" => intents'[q].base < pointer'
    BY <1>2, <1>5, <1>6 DEF IInv, IntentOK
  <2>2. \A q \in Resolutions : intents'[q].status # "requested"
    BY <1>9 DEF Requested
  <2> QED
    BY <1>2, <1>6, <1>9, <2>1, <2>2 DEF IntentOK
<1>11. BindingOK'
  <2>1. /\ DOMAIN attempts \subseteq Attempts
        /\ "receipted" \in Committing \ {"prepared", "requested"}
    BY <1>1, AttemptsFacts DEF Committing
  <2>2. \A n \in DOMAIN bindings : bindings[n].res \in Resolutions
    <3>1. \A n \in DOMAIN bindings : bindings[n] \in Bindings
      BY <1>1 DEF StoreTyped
    <3> QED
      BY <3>1 DEF Bindings
  <2> QED
    BY <1>2, <1>5, <1>8, <2>1, <2>2 DEF IInv, BindingOK, BoundBy
<1>12. TaskOK'
  BY <1>2, <1>3, <1>6, <1>7 DEF TaskOK, Mutable, Written
<1> QED
  BY <1>8, <1>10, <1>11, <1>12 DEF IInv

\* The task names the binding in force.
LEMMA ActivateStep ==
    ASSUME IInv, NEW a \in DOMAIN attempts, ActivateBinding(a)
    PROVE  IInv'
<1> DEFINE r == attempts[a].res
<1>1. AttemptsTyped /\ ServerTyped /\ TaskTyped /\ StoreTyped
  BY TypeParts DEF IInv
<1>2. /\ job[a] = "receipted" /\ job' = [job EXCEPT ![a] = "activated"]
      /\ task' = Activated
      /\ UNCHANGED <<server, lock, specs, attempts, stored, restarts>>
  BY DEF ActivateBinding, Goes
<1>3. /\ job[a] \in Committing /\ "activated" \in Committing
      /\ server = "serving" /\ r \in Resolutions /\ r.spec = task.spec /\ Mutable
      /\ intents[r].by = a /\ Progress(a) /\ a \in Attempts /\ attempts[a].status = "running"
      /\ \A b \in DOMAIN attempts : job[b] \in Committing => b = a
  BY <1>2, OneCommit DEF Committing
<1>4. Requested = {}
  BY <1>2, <1>3, CommitFacts
<1>5. /\ task'.binding = pointer /\ task'.spec = task.spec
      /\ task'.archived = task.archived /\ task'.running = task.running /\ TaskTyped'
  BY <1>1, <1>2 DEF Activated, TaskTyped, StoreTyped
<1>6. job'[a] = "activated"
  BY <1>1, <1>2, <1>3 DEF AttemptsTyped
<1> USE DEF stored
<1>7. /\ TypeOK' /\ SpecOK' /\ JobOK' /\ AttemptOK' /\ CommitOK' /\ LateOK'
      /\ \A b \in Attempts : job'[b] = IF b = a THEN "activated" ELSE job[b]
  <2>1. TaskTyped' /\ StoreTyped' /\ Mutable'
    BY <1>1, <1>2, <1>3, <1>5 DEF StoreTyped, Mutable
  <2>2. Progress(a)'
    BY <1>2, <1>3, <1>6 DEF Progress, Written
  <2>3. intents'[r].by = a
    BY <1>2, <1>3
  <2>4. \A b \in DOMAIN attempts : BoundBy(b) => BoundBy(b)'
    BY <1>2 DEF BoundBy
  <2> QED
    BY <1>2, <1>3, <1>5, <2>1, <2>2, <2>3, <2>4, CommitFrame
<1>8. IntentOK'
  BY <1>1, <1>2, <1>3, <1>4 DEF IInv, IntentOK, Requested, StoreTyped
<1>9. BindingOK'
  <2>1. /\ DOMAIN attempts \subseteq Attempts
        /\ "activated" \in Committing \ {"prepared", "requested"}
    BY <1>1, AttemptsFacts DEF Committing
  <2> QED
    BY <1>2, <1>7, <2>1 DEF IInv, BindingOK, BoundBy
<1>10. TaskOK'
  BY <1>2, <1>5 DEF TaskOK
<1> QED
  BY <1>7, <1>8, <1>9, <1>10 DEF IInv

\* The attempt completes and the lock is let go.
LEMMA CompleteStep ==
    ASSUME IInv, NEW a \in DOMAIN attempts, CompleteAttempt(a)
    PROVE  IInv'
<1>1. AttemptsTyped /\ ServerTyped /\ TaskTyped /\ StoreTyped
  BY TypeParts DEF IInv
<1>2. /\ job[a] = "activated" /\ job' = [job EXCEPT ![a] = "returned"]
      /\ Turned(a, "completed") /\ lock' = "free"
      /\ UNCHANGED <<server, specs, task, stored, restarts>>
  BY DEF CompleteAttempt, Goes, Unstored
<1>3. /\ job[a] \in Committing
      /\ server = "serving" /\ lock = "commit" /\ Progress(a)
      /\ a \in Attempts /\ attempts[a].status = "running" /\ a = Len(attempts)
      /\ \A b \in DOMAIN attempts : job[b] \in Committing => b = a
  BY <1>2, OneCommit DEF Committing
<1>4. Requested = {} /\ task.binding = pointer
  BY <1>2, <1>3, CommitFacts
<1>5. /\ attempts' \in Seq([res : Resolutions, status : Statuses])
      /\ Len(attempts') = Len(attempts)
      /\ DOMAIN attempts' = DOMAIN attempts /\ DOMAIN attempts \subseteq Attempts
      /\ \A b \in DOMAIN attempts :
             /\ attempts'[b].res = attempts[b].res
             /\ attempts'[b].status = IF b = a THEN "completed" ELSE attempts[b].status
  <2>1. "completed" \in Statuses
    BY DEF Statuses
  <2> QED
    BY <1>1, <1>2, <2>1, TurnedFacts, AttemptsFacts
<1>6. \A b \in Attempts : job'[b] = IF b = a THEN "returned" ELSE job[b]
  BY <1>1, <1>2, <1>3 DEF AttemptsTyped
<1> USE DEF stored
<1>7. /\ Len(bindings) = pointer /\ bindings[pointer].by = a /\ pointer \in DOMAIN bindings
      /\ pointer \in Nat
  <2>1. intents[attempts[a].res].base \in Nat /\ pointer \in Nat
    BY <1>1, <1>3, OneCommit DEF StoreTyped, Intents
  <2>2. intents[attempts[a].res].base + 1 = pointer /\ Len(bindings) = pointer
    BY <1>2, <1>3 DEF Progress
  <2>3. bindings[pointer].by = a
    BY <1>2, <1>3 DEF Progress, Written
  <2>4. DOMAIN bindings = 1..Len(bindings)
    BY <1>1 DEF StoreTyped
  <2> QED
    BY <2>1, <2>2, <2>3, <2>4
<1>8. TypeOK'
  <2>1. AttemptsTyped'
    BY <1>1, <1>2, <1>3, <1>5 DEF AttemptsTyped, Places, Threading
  <2>2. (ServerTyped /\ TaskTyped /\ StoreTyped)'
    BY <1>1, <1>2 DEF ServerTyped, TaskTyped, StoreTyped
  <2> QED
    BY <2>1, <2>2, TypeParts
<1>9. SpecOK'
  BY <1>2 DEF IInv, SpecOK
<1>10. JobOK'
  BY <1>2, <1>3, <1>5, <1>6 DEF IInv, JobOK
<1>11. AttemptOK'
  BY <1>2, <1>3, <1>5, <1>6 DEF IInv, AttemptOK, Active
<1>12. CommitOK'
  BY <1>2, <1>3, <1>5, <1>6 DEF CommitOK, Committing
<1>13. IntentOK'
  BY <1>2, <1>3, <1>4, <1>7 DEF IInv, IntentOK, Requested
<1>14. BindingOK'
  <2>1. \A b \in DOMAIN attempts \ {a} :
           job'[b] = job[b] /\ attempts'[b].status = attempts[b].status
    BY <1>5, <1>6
  <2>2. BindingOK
    BY DEF IInv
  <2>3. attempts'[a].status = "completed" /\ DOMAIN attempts' = DOMAIN attempts
    BY <1>5
  <2>4. late' = late /\ bindings' = bindings /\ intents' = intents /\ server' = server
    BY <1>2
  <2> QED
    BY <1>7, <2>1, <2>2, <2>3, <2>4 DEF BindingOK, BoundBy
<1>15. TaskOK'
  BY <1>2, <1>4 DEF TaskOK
<1>16. LateOK'
  <2>1. a \notin late
    BY <1>2 DEF IInv, LateOK
  <2> QED
    BY <1>2, <1>5, <1>6, <2>1 DEF IInv, LateOK, BoundBy
<1> QED
  BY <1>16, <1>8, <1>9, <1>10, <1>11, <1>12, <1>13, <1>14, <1>15 DEF IInv

\* The thread raises after the commit: the attempt is bound and still running.
LEMMA FinalizeStep ==
    ASSUME IInv, NEW a \in DOMAIN attempts, FinalizeFails(a)
    PROVE  IInv'
<1>1. AttemptsTyped /\ ServerTyped /\ TaskTyped /\ StoreTyped
  BY TypeParts DEF IInv
<1>2. /\ job[a] = "activated" /\ job' = [job EXCEPT ![a] = "raised"]
      /\ late' = late \cup {a} /\ lock' = "free"
      /\ UNCHANGED <<server, specs, task, attempts, intents, bindings, pointer, restarts>>
  BY DEF FinalizeFails, Goes
<1>3. /\ job[a] \in Committing
      /\ server = "serving" /\ lock = "commit" /\ Progress(a)
      /\ a \in Attempts /\ attempts[a].status = "running" /\ a = Len(attempts)
      /\ \A b \in DOMAIN attempts : job[b] \in Committing => b = a
  BY <1>2, OneCommit DEF Committing
<1>4. Requested = {} /\ task.binding = pointer
  BY <1>2, <1>3, CommitFacts
<1>5. DOMAIN attempts \subseteq Attempts
  BY <1>1, AttemptsFacts
<1>6. \A b \in Attempts : job'[b] = IF b = a THEN "raised" ELSE job[b]
  BY <1>1, <1>2, <1>3 DEF AttemptsTyped
<1>7. /\ Len(bindings) = pointer /\ bindings[pointer].by = a /\ pointer \in DOMAIN bindings
      /\ pointer \in Nat
  <2>1. intents[attempts[a].res].base \in Nat /\ pointer \in Nat
    BY <1>1, <1>3, OneCommit DEF StoreTyped, Intents
  <2>2. intents[attempts[a].res].base + 1 = pointer /\ Len(bindings) = pointer
    BY <1>2, <1>3 DEF Progress
  <2>3. bindings[pointer].by = a
    BY <1>2, <1>3 DEF Progress, Written
  <2>4. DOMAIN bindings = 1..Len(bindings)
    BY <1>1 DEF StoreTyped
  <2> QED
    BY <2>1, <2>2, <2>3, <2>4
<1>8. TypeOK'
  <2>1. AttemptsTyped'
    BY <1>1, <1>2, <1>3 DEF AttemptsTyped, Places, Threading
  <2>2. (ServerTyped /\ TaskTyped /\ StoreTyped)'
    BY <1>1, <1>2, <1>3 DEF ServerTyped, TaskTyped, StoreTyped
  <2> QED
    BY <2>1, <2>2, TypeParts
<1>9. SpecOK'
  BY <1>2 DEF IInv, SpecOK
<1>10. JobOK'
  BY <1>2, <1>3, <1>5, <1>6 DEF IInv, JobOK
<1>11. AttemptOK'
  BY <1>2, <1>3, <1>5, <1>6 DEF IInv, AttemptOK, Active
<1>12. CommitOK'
  BY <1>2, <1>3, <1>5, <1>6 DEF CommitOK, Committing
<1>13. IntentOK'
  BY <1>2, <1>3, <1>4, <1>7 DEF IInv, IntentOK, Requested
<1>14. BindingOK'
  BY <1>2, <1>5, <1>6 DEF IInv, BindingOK, BoundBy
<1>15. TaskOK'
  BY <1>2, <1>4 DEF TaskOK
<1>16. LateOK'
  <2>1. BoundBy(a)'
    BY <1>2, <1>7 DEF BoundBy
  <2>2. ASSUME NEW b \in late, b # a
        PROVE  /\ b \in DOMAIN attempts' /\ BoundBy(b)'
               /\ job'[b] \in {"raised", "failing", "over"}
               /\ attempts'[b].status \in {"running", "cancelled", "failed", "interrupted"}
    BY <1>2, <1>5, <1>6, <2>2 DEF IInv, LateOK, BoundBy
  <2> QED
    BY <1>2, <1>3, <1>6, <2>1, <2>2 DEF LateOK
<1> QED
  BY <1>16, <1>8, <1>9, <1>10, <1>11, <1>12, <1>13, <1>14, <1>15 DEF IInv

\* The process dies.
LEMMA CrashStep ==
    ASSUME IInv, Crash
    PROVE  IInv'
<1>1. AttemptsTyped /\ ServerTyped /\ TaskTyped /\ StoreTyped
  BY TypeParts DEF IInv
<1>2. /\ server' = "down" /\ lock' = "free" /\ restarts' = restarts + 1
      /\ restarts < MaxRestarts
      /\ job' = [a \in Attempts |-> IF job[a] = "none" THEN "none" ELSE "over"]
      /\ UNCHANGED <<specs, task, attempts, stored>>
  BY DEF Crash
<1>3. \A a \in Attempts : job'[a] = IF job[a] = "none" THEN "none" ELSE "over"
  BY <1>2
<1>4. DOMAIN attempts \subseteq Attempts
  BY <1>1, AttemptsFacts
<1> USE DEF stored
<1>5. TypeOK'
  <2>1. AttemptsTyped'
    BY <1>1, <1>2 DEF AttemptsTyped, Places
  <2>2. ServerTyped'
    BY <1>1, <1>2, ModelBindingAssumption DEF ServerTyped
  <2>3. (TaskTyped /\ StoreTyped)'
    BY <1>1, <1>2 DEF TaskTyped, StoreTyped
  <2> QED
    BY <2>1, <2>2, <2>3, TypeParts
<1>6. SpecOK'
  BY <1>2 DEF IInv, SpecOK
<1>7. JobOK'
  BY <1>2, <1>3, <1>4 DEF IInv, JobOK
<1>8. AttemptOK'
  BY <1>2, <1>3, <1>4 DEF IInv, AttemptOK
<1>9. CommitOK'
  BY <1>2, <1>3, <1>4 DEF CommitOK, Committing
<1>10. IntentOK'
  BY <1>2 DEF IInv, IntentOK, Pending, Requested, Mutable
<1>11. BindingOK'
  BY <1>2 DEF IInv, BindingOK, BoundBy
<1>12. TaskOK'
  BY <1>2 DEF IInv, TaskOK, Mutable
<1>13. LateOK'
  <2>1. \A b \in late : b \in Attempts /\ job[b] # "none"
    BY <1>4 DEF IInv, LateOK
  <2> QED
    BY <1>2, <1>3, <2>1 DEF IInv, LateOK, BoundBy
<1> QED
  BY <1>13, <1>5, <1>6, <1>7, <1>8, <1>9, <1>10, <1>11, <1>12 DEF IInv

\* The next process starts, settles the attempts, or refuses to start.
LEMMA StartSteps ==
    ASSUME IInv, Restart \/ RefuseToStart \/ CommitsRecovered
    PROVE  IInv'
<1>1. AttemptsTyped /\ ServerTyped /\ TaskTyped /\ StoreTyped
  BY TypeParts DEF IInv
<1>2. /\ \/ server = "down" /\ server' = "attempts"
         \/ server = "attempts" /\ server' = "broken"
         \/ server = "commits" /\ server' = "projections" /\ Requested = {}
      /\ UNCHANGED <<lock, specs, task, attempts, job, stored, restarts>>
  BY DEF Restart, RefuseToStart, CommitsRecovered
<1> USE DEF stored
<1>3. TypeOK'
  BY <1>1, <1>2, TypeParts DEF ServerTyped, TaskTyped, AttemptsTyped, StoreTyped
<1>4. SpecOK' /\ JobOK'
  BY <1>2 DEF IInv, SpecOK, JobOK
<1>5. AttemptOK'
  BY <1>2 DEF IInv, AttemptOK
<1>6. CommitOK'
  BY <1>2 DEF IInv, CommitOK, Progress, Written, Mutable
<1>7. IntentOK'
  BY <1>2 DEF IInv, IntentOK, Pending, Requested, Mutable
<1>8. BindingOK'
  BY <1>2 DEF IInv, BindingOK, BoundBy
<1>9. TaskOK'
  BY <1>2 DEF IInv, TaskOK, Mutable
<1>10. LateOK'
  BY <1>2 DEF IInv, LateOK, BoundBy
<1> QED
  BY <1>10, <1>3, <1>4, <1>5, <1>6, <1>7, <1>8, <1>9 DEF IInv

\* An attempt that was active has been interrupted.
LEMMA RecoverAttemptsStep ==
    ASSUME IInv, RecoverAttempts
    PROVE  IInv'
<1> DEFINE N == Len(attempts)
<1>1. AttemptsTyped /\ ServerTyped /\ TaskTyped /\ StoreTyped
  BY TypeParts DEF IInv
<1>2. /\ server = "attempts" /\ server' = "commits" /\ ~Unreadable
      /\ UNCHANGED <<lock, specs, task, job, stored, restarts>>
  BY DEF RecoverAttempts
<1>3. /\ attempts' \in Seq([res : Resolutions, status : Statuses])
      /\ Len(attempts') = N /\ DOMAIN attempts' = DOMAIN attempts
      /\ \A b \in DOMAIN attempts :
             /\ attempts'[b].res = attempts[b].res
             /\ attempts'[b].status = IF b = N /\ attempts[b].status \in Active
                                      THEN "interrupted" ELSE attempts[b].status
  <2>1. CASE attempts # <<>> /\ attempts[N].status \in Active
    <3>1. Turned(N, "interrupted")
      BY <2>1 DEF RecoverAttempts, Last
    <3>2. Len(attempts) > 0
      BY <1>1, <2>1, EmptySeq DEF AttemptsTyped
    <3>3. N \in DOMAIN attempts
      BY <1>1, <3>2, AttemptsFacts
    <3>4. "interrupted" \in Statuses
      BY DEF Statuses
    <3> HIDE DEF N
    <3> QED
      BY <1>1, <2>1, <3>1, <3>3, <3>4, TurnedFacts DEF N
  <2>2. CASE ~(attempts # <<>> /\ attempts[N].status \in Active)
    <3>1. attempts' = attempts
      BY <2>2 DEF RecoverAttempts, Last
    <3>2. attempts = <<>> => DOMAIN attempts = {}
      BY <1>1, AttemptsFacts, EmptySeq
    <3> QED
      BY <1>1, <2>2, <3>1, <3>2, AttemptsFacts DEF AttemptsTyped
  <2> QED
    BY <2>1, <2>2
<1>4. \A b \in DOMAIN attempts : attempts'[b].status \notin Active \cup {"recorded"}
  BY <1>1, <1>2, <1>3, AttemptsFacts, EmptySeq DEF IInv, AttemptOK, Unreadable, Active, Last
<1>5. DOMAIN attempts \subseteq Attempts /\ \A b \in Attempts : job[b] \in {"none", "over"}
  BY <1>1, <1>2, AttemptsFacts DEF IInv, JobOK
<1> HIDE DEF N
<1> USE DEF stored
<1>6. TypeOK'
  <2>1. AttemptsTyped'
    BY <1>1, <1>2, <1>3 DEF AttemptsTyped, N
  <2>2. (ServerTyped /\ TaskTyped /\ StoreTyped)'
    BY <1>1, <1>2 DEF ServerTyped, TaskTyped, StoreTyped
  <2> QED
    BY <2>1, <2>2, TypeParts
<1>7. SpecOK'
  BY <1>2 DEF IInv, SpecOK
<1>8. JobOK'
  BY <1>2, <1>3, <1>5 DEF IInv, JobOK
<1>9. AttemptOK'
  BY <1>2, <1>3, <1>4 DEF IInv, AttemptOK, JobOK
<1>10. CommitOK'
  BY <1>2, <1>3, <1>5 DEF IInv, CommitOK, JobOK, Committing
<1>11. IntentOK'
  BY <1>2, <1>3 DEF IInv, IntentOK, Pending, Requested, Mutable, Active
<1>12. BindingOK'
  BY <1>2, <1>3, <1>4 DEF IInv, BindingOK, BoundBy, Active
<1>13. TaskOK'
  BY <1>2 DEF IInv, TaskOK, Mutable
<1>14. LateOK'
  BY <1>2, <1>3 DEF IInv, LateOK, BoundBy, Active
<1> QED
  BY <1>14, <1>6, <1>7, <1>8, <1>9, <1>10, <1>11, <1>12, <1>13 DEF IInv

\* Recovery carries a requested commit one write further.
LEMMA RecoverCommitStep ==
    ASSUME IInv, NEW r \in Resolutions, RecoverCommit(r)
    PROVE  IInv'
<1> DEFINE new == [res |-> r, by |-> intents[r].by]
<1>1. AttemptsTyped /\ ServerTyped /\ TaskTyped /\ StoreTyped
  BY TypeParts DEF IInv
<1>2. /\ server = "commits" /\ r \in Requested
      /\ UNCHANGED <<server, lock, specs, task, attempts, job, late, restarts>>
  BY DEF RecoverCommit
<1>3. Pending(r) /\ Requested = {r} /\ intents[r].status = "requested"
  BY <1>2 DEF IInv, IntentOK, Pending, Requested
<1>4. /\ intents[r].base \in Nat /\ intents[r].by \in Nat /\ pointer \in Nat
      /\ DOMAIN bindings = 1..Len(bindings)
      /\ DOMAIN attempts \subseteq Attempts
  BY <1>1, AttemptsFacts DEF StoreTyped, Intents
<1>5. SpecOK' /\ JobOK' /\ AttemptOK'
  BY <1>2 DEF IInv, SpecOK, JobOK, AttemptOK
<1>6. CommitOK'
  BY <1>2, <1>4 DEF IInv, CommitOK, JobOK, Committing
<1>12. ASSUME \A b \in DOMAIN attempts : BoundBy(b) => BoundBy(b)'
       PROVE  LateOK'
  BY <1>2, <1>12 DEF IInv, LateOK
<1>7. (ServerTyped /\ TaskTyped /\ AttemptsTyped)'
  BY <1>1, <1>2 DEF ServerTyped, TaskTyped, AttemptsTyped
<1>8. \A n \in DOMAIN bindings : bindings[n].res \in Resolutions
  <2>1. \A n \in DOMAIN bindings : bindings[n] \in Bindings
    BY <1>1 DEF StoreTyped
  <2> QED
    BY <2>1 DEF Bindings
<1>9. CASE /\ intents[r].base = pointer /\ Len(bindings) = pointer
           /\ WriteBinding(r) /\ UNCHANGED <<intents, pointer>>
  <2>1. /\ bindings' \in Seq(Bindings) /\ Len(bindings') = pointer + 1
        /\ DOMAIN bindings' = 1..(pointer + 1) /\ DOMAIN bindings = 1..pointer
        /\ \A n \in 1..pointer : bindings'[n] = bindings[n]
        /\ bindings'[pointer + 1] = new
    <3>1. new \in Bindings /\ bindings' = Append(bindings, new)
      BY <1>4, <1>9 DEF Bindings, WriteBinding
    <3> HIDE DEF new
    <3> QED
      BY <1>1, <1>4, <1>9, <3>1, AppendProperties DEF StoreTyped
  <2>2. TypeOK'
    BY <1>1, <1>2, <1>7, <1>9, <2>1, TypeParts DEF StoreTyped
  <2>3. Requested' = {r}
    BY <1>3, <1>9 DEF Requested
  <2>4. ASSUME NEW q \in Resolutions, intents'[q].status = "requested"
        PROVE  Pending(q)'
    <3>1. q = r
      BY <2>3, <2>4 DEF Requested
    <3> QED
      BY <1>2, <1>3, <1>4, <1>9, <2>1, <2>3, <3>1 DEF Pending, Mutable
  <2>5. IntentOK'
    BY <1>2, <1>3, <1>9, <2>3, <2>4 DEF IInv, IntentOK
  <2>6. BindingOK'
    <3>1. \A n \in 1..pointer :
             /\ bindings[n].by \in DOMAIN attempts
             /\ \/ bindings[n].by \in late
                \/ attempts[bindings[n].by].status \in {"completed", "interrupted", "running"}
             /\ intents[bindings[n].res].status = "committed"
      BY <1>3, <1>4, <1>8, <1>9, <2>1 DEF IInv, BindingOK, Requested
    <3>2. /\ intents[r].by \in DOMAIN attempts
          /\ attempts[intents[r].by].status \in {"completed", "interrupted", "running"}
      BY <1>3 DEF Pending
    <3>3. \A b \in DOMAIN attempts : attempts[b].status = "completed" => BoundBy(b)
      BY DEF IInv, BindingOK
    <3> QED
      BY <1>2, <1>3, <1>4, <1>9, <2>1, <3>1, <3>2, <3>3 DEF BindingOK, BoundBy
  <2>7. TaskOK'
    BY <1>1, <1>2, <1>4, <1>9, <2>1 DEF IInv, TaskOK, Mutable
  <2>8. LateOK'
    <3>1. \A b \in DOMAIN attempts : BoundBy(b) => BoundBy(b)'
      BY <1>4, <1>9, <2>1 DEF BoundBy
    <3> QED
      BY <1>12, <3>1
  <2> QED
    BY <1>5, <1>6, <2>2, <2>5, <2>6, <2>7, <2>8 DEF IInv
<1>10. CASE /\ intents[r].base = pointer /\ Len(bindings) > pointer
            /\ pointer' = pointer + 1 /\ UNCHANGED <<intents, bindings>>
  <2>1. Len(bindings) = pointer + 1 /\ bindings[pointer + 1] = new
    BY <1>1, <1>3, <1>4, <1>10 DEF StoreTyped, Pending
  <2>2. TypeOK'
    BY <1>1, <1>2, <1>4, <1>7, <1>10, <2>1, TypeParts DEF StoreTyped
  <2>3. ASSUME NEW q \in Resolutions, intents'[q].status = "requested"
        PROVE  Pending(q)'
    <3>1. q = r /\ Requested' = {r}
      BY <1>3, <1>10, <2>3 DEF Requested
    <3> QED
      BY <1>2, <1>3, <1>4, <1>10, <2>1, <3>1 DEF Pending, Mutable
  <2>4. \A q \in Resolutions : intents'[q].status = "committed" => intents'[q].base < pointer'
    <3>1. \A q \in Resolutions : intents[q].base \in Nat
      BY <1>1 DEF StoreTyped, Intents
    <3> QED
      BY <1>4, <1>10, <3>1 DEF IInv, IntentOK
  <2>5. IntentOK'
    BY <1>2, <1>4, <1>10, <2>1, <2>3, <2>4 DEF IntentOK
  <2>6. BindingOK'
    BY <1>2, <1>10 DEF IInv, BindingOK, BoundBy
  <2>7. TaskOK'
    BY <1>2, <1>3, <1>4, <1>10, <2>1 DEF Pending, TaskOK, Mutable
  <2>8. LateOK'
    BY <1>10, <1>12 DEF BoundBy
  <2> QED
    BY <1>5, <1>6, <2>2, <2>5, <2>6, <2>7, <2>8 DEF IInv
<1>11. CASE /\ intents[r].base + 1 = pointer
            /\ IntentTurns(r, "committed") /\ UNCHANGED <<bindings, pointer>>
  <2>1. Len(bindings) = pointer
    BY <1>3, <1>4, <1>11 DEF Pending
  <2>2. /\ intents' \in [Resolutions -> Intents]
        /\ \A q \in Resolutions :
               /\ intents'[q].status = IF q = r THEN "committed" ELSE intents[q].status
               /\ intents'[q].base = intents[q].base /\ intents'[q].by = intents[q].by
    BY <1>1, <1>11 DEF StoreTyped, Intents, IntentTurns
  <2>3. TypeOK'
    BY <1>1, <1>2, <1>7, <1>11, <2>2, TypeParts DEF StoreTyped
  <2>4. Requested' = {}
    BY <1>3, <2>2 DEF Requested
  <2>5. IntentOK'
    <3>1. \A q \in Resolutions : intents'[q].status = "committed" => intents'[q].base < pointer'
      BY <1>4, <1>11, <2>2 DEF IInv, IntentOK
    <3>2. \A q \in Resolutions : intents'[q].status # "requested"
      BY <2>4 DEF Requested
    <3> QED
      BY <1>2, <1>4, <1>11, <2>1, <2>4, <3>1, <3>2 DEF IntentOK
  <2>6. BindingOK'
    BY <1>2, <1>8, <1>11, <2>2 DEF IInv, BindingOK, BoundBy
  <2>7. TaskOK'
    BY <1>2, <1>11 DEF IInv, TaskOK, Mutable
  <2>8. LateOK'
    BY <1>11, <1>12 DEF BoundBy
  <2> QED
    BY <1>5, <1>6, <2>3, <2>5, <2>6, <2>7, <2>8 DEF IInv
<1> QED
  BY <1>9, <1>10, <1>11 DEF RecoverCommit

\* The task names the binding in force again, and is served.
LEMMA RestoreStep ==
    ASSUME IInv, RestoreTask
    PROVE  IInv'
<1>1. AttemptsTyped /\ ServerTyped /\ TaskTyped /\ StoreTyped
  BY TypeParts DEF IInv
<1>2. /\ server = "projections" /\ server' = "serving" /\ Requested = {}
      /\ task' = IF pointer = task.binding THEN task ELSE Activated
      /\ UNCHANGED <<lock, specs, attempts, job, stored, restarts>>
  BY DEF RestoreTask, IInv, IntentOK
<1>3. /\ lock = "free" /\ \A a \in Attempts : job[a] \in {"none", "over"}
      /\ DOMAIN attempts \subseteq Attempts
  BY <1>1, <1>2, AttemptsFacts DEF IInv, JobOK
<1>4. \A a \in DOMAIN attempts : attempts[a].status \notin Active \cup {"recorded"}
  BY <1>2, <1>3 DEF IInv, AttemptOK
<1>5. /\ task'.binding = pointer /\ task'.spec = task.spec
      /\ task'.archived = task.archived /\ task'.running = task.running /\ TaskTyped'
  BY <1>1, <1>2 DEF Activated, TaskTyped, StoreTyped
<1> USE DEF stored
<1>6. TypeOK'
  BY <1>1, <1>2, <1>5, TypeParts DEF ServerTyped, AttemptsTyped, StoreTyped
<1>7. SpecOK' /\ JobOK'
  BY <1>2, <1>5 DEF IInv, SpecOK, JobOK
<1>8. AttemptOK'
  BY <1>2, <1>3, <1>4 DEF AttemptOK
<1>9. CommitOK'
  BY <1>2, <1>3 DEF CommitOK, Committing
<1>10. IntentOK'
  BY <1>1, <1>2 DEF IInv, IntentOK, Requested, StoreTyped
<1>11. BindingOK'
  BY <1>2, <1>4 DEF IInv, BindingOK, BoundBy, Active
<1>12. TaskOK'
  BY <1>2, <1>5 DEF TaskOK
<1>13. LateOK'
  BY <1>2 DEF IInv, LateOK, BoundBy
<1> QED
  BY <1>13, <1>6, <1>7, <1>8, <1>9, <1>10, <1>11, <1>12 DEF IInv

-----------------------------------------------------------------------------
\* A new installation: nothing is bound, and nothing under way.
LEMMA InitStep ==
    ASSUME Init
    PROVE  IInv
<1> USE DEF Init
<1>1. attempts = <<>> /\ Len(attempts) = 0 /\ DOMAIN attempts = {}
  OBVIOUS
<1>2. bindings = <<>> /\ Len(bindings) = 0 /\ DOMAIN bindings = {}
  OBVIOUS
<1>3. ServerTyped /\ TaskTyped
  BY ModelBindingAssumption DEF ServerTyped, TaskTyped
<1>4. AttemptsTyped
  BY <1>1, ModelBindingAssumption DEF AttemptsTyped, Places
<1>5. StoreTyped
  BY <1>2 DEF StoreTyped, Intents, NoIntent
<1>6. \A r \in Resolutions : intents[r].status = "none"
  BY DEF NoIntent
<1>7. SpecOK /\ JobOK /\ AttemptOK
  BY <1>1 DEF SpecOK, JobOK, AttemptOK
<1>8. CommitOK /\ TaskOK
  BY <1>1 DEF CommitOK, TaskOK
<1>9. IntentOK
  BY <1>2, <1>6 DEF IntentOK
<1>10. BindingOK /\ LateOK
  BY <1>1, <1>2 DEF BindingOK, LateOK
<1> QED
  BY <1>3, <1>4, <1>5, <1>7, <1>8, <1>9, <1>10, TypeParts DEF IInv

\* A step that changes nothing keeps the invariant.
LEMMA StutterStep ==
    ASSUME IInv, UNCHANGED vars
    PROVE  IInv'
<1> USE DEF vars
<1>1. TypeOK'
  BY TypeParts DEF IInv, ServerTyped, TaskTyped, AttemptsTyped, StoreTyped
<1>2. SpecOK' /\ JobOK' /\ AttemptOK'
  BY DEF IInv, SpecOK, JobOK, AttemptOK
<1>3. CommitOK' /\ TaskOK'
  BY DEF IInv, CommitOK, TaskOK, Progress, Written, Mutable
<1>4. IntentOK' /\ BindingOK' /\ LateOK'
  BY DEF IInv, IntentOK, BindingOK, LateOK, Pending, Requested, Mutable, BoundBy
<1> QED
  BY <1>1, <1>2, <1>3, <1>4 DEF IInv

\* Every step of the process, its threads and its users keeps the invariant.
LEMMA NextStep ==
    ASSUME IInv, Next
    PROVE  IInv'
<1>1. CASE Request
  BY <1>1, QueueStep, StateSteps, TaskSteps DEF Request
<1>2. CASE SubmitBinding \/ ApplySpec
  BY <1>2, SubmitStep, TaskSteps
<1>3. ASSUME NEW a \in DOMAIN attempts, Thread(a)
      PROVE  IInv'
  <2>1. CASE Commit(a)
    BY <2>1, RequestStep, RecordStep, PointStep, ReceiptStep, ActivateStep, CompleteStep,
       FinalizeStep
       DEF Commit
  <2>2. CASE MarkRunning(a) \/ FailAttempt(a) \/ PrepareIntent(a)
    BY <2>2, StateSteps, PrepareStep
  <2> QED
    BY <1>3, <2>1, <2>2, IdleSteps DEF Thread
<1>4. CASE Crash \/ Restart
  BY <1>4, CrashStep, StartSteps
<1>5. CASE Recovery
  BY <1>5, RecoverAttemptsStep, StartSteps, RecoverCommitStep, RestoreStep DEF Recovery
<1> QED
  BY <1>1, <1>2, <1>3, <1>4, <1>5 DEF Next

\* The invariant holds in every reachable state.
THEOREM Invariance == Spec => []IInv
<1>1. Init => IInv
  BY InitStep
<1>2. IInv /\ [Next]_vars => IInv'
  BY NextStep, StutterStep
<1> QED
  BY <1>1, <1>2, PTL DEF Spec

\* The state is well formed, at any size of the pool and any bounds.
THEOREM TypeCorrect == Spec => []TypeOK
<1>1. IInv => TypeOK
  BY DEF IInv
<1> QED
  BY <1>1, Invariance, PTL

\* A completed attempt is bound; a cancelled or failed one is bound exactly if
\* it raised after the last write of its commit: workspace.py, bind_model_source
\* and _execute_model_source_binding_attempt.
THEOREM AttemptsTellTheTruth == Spec => []AttemptTellsBinding
<1>1. ASSUME IInv
      PROVE  AttemptTellsBinding
  <2>1. ASSUME NEW a \in DOMAIN attempts, attempts[a].status \in {"cancelled", "failed"}, BoundBy(a)
        PROVE  a \in late
    <3>1. PICK n \in DOMAIN bindings : bindings[n].by = a
      BY <2>1 DEF BoundBy
    <3> QED
      BY <1>1, <2>1, <3>1 DEF IInv, BindingOK
  <2> QED
    BY <1>1, <2>1 DEF IInv, BindingOK, LateOK, AttemptTellsBinding
<1> QED
  BY <1>1, Invariance, PTL

\* However often the process dies on the way, a task at rest names the binding
\* the pointer names: model_source_store.py, recover_pending_commits.
THEOREM TaskAgrees == Spec => []TaskFollowsPointer
<1>1. IInv => TaskFollowsPointer
  BY AtRest DEF TaskFollowsPointer, Unlocked
<1> QED
  BY <1>1, Invariance, PTL

\* No attempt stays active without a thread that will settle it:
\* repository_analysis_store.py, recover_interrupted_attempts.
THEOREM NobodyAbandoned == Spec => []NoAttemptAbandoned
<1>1. IInv => NoAttemptAbandoned
  BY DEF IInv, AttemptOK, NoAttemptAbandoned
<1> QED
  BY <1>1, Invariance, PTL

\* A binding comes into force on an open task and for its TaskSpec revision,
\* whichever process activates it: workspace.py, _activate_model_binding_on_task.
THEOREM BindingIsAdmitted == Spec => BindsAnOpenTask
<1> DEFINE Admits == task'.binding # task.binding =>
                        /\ Mutable
                        /\ bindings[task'.binding].res.spec = task.spec
                        /\ ~task'.stale
<1>1. ASSUME IInv, [Next]_vars
      PROVE  Admits \/ UNCHANGED vars
  <2>1. TaskTyped /\ StoreTyped
    BY <1>1, TypeParts DEF IInv
  <2>2. ASSUME task.binding # pointer
        PROVE  /\ Mutable /\ bindings[pointer].res.spec = task.spec
               /\ Activated.binding = pointer /\ ~Activated.stale
    BY <1>1, <2>1, <2>2 DEF IInv, TaskOK, Activated, TaskTyped
  <2>3. ASSUME NEW a \in DOMAIN attempts, ActivateBinding(a)
        PROVE  Admits
    BY <2>1, <2>2, <2>3 DEF ActivateBinding, Activated, TaskTyped
  <2>4. CASE RestoreTask
    BY <2>2, <2>4 DEF RestoreTask
  <2>5. CASE WriteSpec \/ ApplySpec \/ ArchiveTask \/ RunStarts \/ RunEnds
    BY <2>1, <2>5 DEF WriteSpec, ApplySpec, ArchiveTask, RunStarts, RunEnds, TaskTyped
  <2>6. ASSUME task' # task, Next
        PROVE  \/ WriteSpec \/ ApplySpec \/ ArchiveTask \/ RunStarts \/ RunEnds \/ RestoreTask
               \/ \E a \in DOMAIN attempts : ActivateBinding(a)
    BY <2>6 DEF Next, Request, QueueBinding, SubmitBinding, CancelAttempt, Thread, Commit, Recovery,
       Start, MarkRunning, MarkRefused, OpenBinding, ReadSource, RefuseCommit, PrepareIntent,
       RequestCommit, RecordBinding, MovePointer, WriteReceipt, CompleteAttempt, FinalizeFails,
       VerifyAttempt, CatchError, FailAttempt, Crash, Restart, RecoverAttempts, RefuseToStart, RecoverCommit,
       CommitsRecovered, Unstored
  <2> QED
    BY <1>1, <2>3, <2>4, <2>5, <2>6
<1> HIDE DEF Admits
<1>2. Spec => [][Admits]_vars
  BY <1>1, Invariance, PTL DEF Spec
<1> QED
  BY <1>2 DEF BindsAnOpenTask, Admits
=============================================================================
