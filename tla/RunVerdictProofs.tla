-------------------------- MODULE RunVerdictProofs --------------------------
(* Proofs that the threads of RunLifecycle agree on how a Run ends, for any  *)
(* number of Runs, cancellers, workers and restarts.                         *)
EXTENDS RunLifecycleProofs, FiniteSetTheorems

Helpers == Cancellers \cup {Service}

\* What a log says, one fact at a time.
Loud(e) == Verdict(e) \/ StageEvent(e)
Asks(e) == e.type = "cancel_requested"
Proposes(e) == e.type = "work" /\ e.stage = "proposing"
HasStage(r) == \E i \in DOMAIN log[r] : StageEvent(log[r][i])
Asked(r) == \E i \in DOMAIN log[r] : Asks(log[r][i])
Late(r) == \E i, j \in DOMAIN log[r] : i < j /\ Asks(log[r][i]) /\ Proposes(log[r][j])
OneEach(r) == \A s, t \in Verdicts(r) \ {"interrupted"} : s = t

\* What a thread is about to say.
Says(a) == Head(todo[a])
Owes(a) == todo[a] # <<>> /\ Verdict(Says(a))

\* A Run no worker has picked up, and a service that does not serve yet.
Submitting(r) == pc[Service] \in {"creating", "queueing"} /\ job[Service] = r
Untouched(r) == future[r] = "pending" \/ Submitting(r)
Starting == pc[Service] \in {"down", "recovering"}

\* Every thread: only the first event it still has to write settles or
\* advances a Run, and it works on a Run that exists.
ThreadOK(a) ==
    /\ \A i \in DOMAIN todo[a] : i > 1 => ~Loud(todo[a][i]) /\ ~Asks(todo[a][i])
    /\ job[a] \in Runs => mem[a].status # "absent" /\ disk[job[a]].status # "absent"

\* A worker: it is busy exactly while its future runs, and where it is tells
\* what it may write.
WorkerOK(r) ==
    /\ ThreadOK(r)
    /\ pc[r] = "idle" <=> future[r] # "running"
    /\ pc[r] = "idle" => job[r] = NoRun
    /\ pc[r] \in {"check", "enter"} => mem[r].status \in DOMAIN NextStage
    /\ pc[r] = "work" => mem[r].status \in DOMAIN NextStage \cup {"packaging"}
    /\ todo[r] # <<>> =>
          /\ Verdict(Says(r)) => \/ pc[r] = "report" /\ Says(r).stage = "completed"
                                 \/ pc[r] = "leaving" /\ Says(r).stage \in {"cancelled", "failed"}
          /\ StageEvent(Says(r)) => pc[r] \in {"work", "check", "complete"}
          /\ Proposes(Says(r)) => pc[r] = "check"
          /\ ~Asks(Says(r))

\* A canceller or the service: a verdict of theirs is a cancellation of a
\* future they hold, or the interruption of a Run no executor knows.
HelperOK(a) ==
    /\ ThreadOK(a)
    /\ pc[a] \in {"open", "closing", "closed", "down", "ready", "spent"} => job[a] = NoRun
    /\ todo[a] # <<>> =>
          /\ pc[a] \in {"creating", "queueing", "unscheduled", "recovering", "future", "settled"}
          /\ ~StageEvent(Says(a))
          /\ Verdict(Says(a)) =>
                \/ pc[a] = "settled" /\ Says(a).stage = "cancelled"
                \/ pc[a] \in {"unscheduled", "recovering"} /\ Says(a).stage = "interrupted"
          /\ Asks(Says(a)) => pc[a] = "future"
          /\ pc[a] = "settled" => mem[a].status = "cancelled"
    /\ pc[a] = "unscheduled" => mem[a].status = "interrupted"
    /\ pc[a] \in {"creating", "queueing", "unscheduled"} => future[job[a]] = "none"
    /\ pc[a] \in {"latest", "settle", "settled"} => future[job[a]] = "cancelled"
    /\ pc[a] \in {"future", "latest", "settle", "settled"} => disk[job[a]].cancel

\* Before it serves, a new process runs nothing; once closed, it has drained.
PoolOK ==
    /\ Starting => /\ \A r \in Runs : future[r] = "none"
                   /\ \A c \in Cancellers : job[c] = NoRun
    /\ pc[Service] = "closed" =>
          queue = <<>> /\ \A r \in Runs : future[r] \notin {"pending", "running"}

\* The future of a Run decides who may have settled it, hence what its log
\* may hold.
LogOK(r) ==
    /\ Untouched(r) \/ pc[r] = "load" => ~HasStage(r) /\ Verdicts(r) = {}
    /\ pc[Service] = "unscheduled" /\ job[Service] = r => ~HasStage(r)
    /\ future[r] = "cancelled" => ~HasStage(r) /\ Verdicts(r) \subseteq {"cancelled"}
    /\ future[r] = "running" /\ (pc[r] \notin {"report", "leaving"} \/ Owes(r)) =>
          Verdicts(r) = {}
    /\ future[r] = "done" \/ (pc[r] \in {"report", "leaving"} /\ ~Owes(r)) =>
          Verdicts(r) # {} \/ ~HasStage(r)
    /\ Late(r) => pc[r] \in {"check", "cancelling", "leaving", "idle"}
    /\ Late(r) => HasStage(r) /\ Asked(r) /\ "completed" \notin Verdicts(r)
    /\ OneEach(r)
    /\ NoStageAfter(r)

\* The document exists as soon as anything else of the Run does, and keeps
\* every request its log tells of.
DocumentOK(r) ==
    /\ future[r] # "none" \/ log[r] # <<>> \/ r \in owned => disk[r].status # "absent"
    /\ disk[r].status = "absent" => disk[r] = Absent
    /\ Asked(r) => disk[r].cancel

\* Every copy of a Run shows one of the statuses S; a thread that holds a
\* cancelled future will settle it.
Shows(r, S) == disk[r].status \in S /\ \A a \in Actors : job[a] = r => mem[a].status \in S
Responsible(a, r) ==
    /\ job[a] = r
    /\ \/ pc[a] \in {"future", "latest"}
       \/ pc[a] = "settle" /\ mem[a].status \in ActiveStatuses
StatusOK(r) ==
    /\ Untouched(r) => Shows(r, ActiveStatuses)
    /\ future[r] = "cancelled" =>
          /\ Shows(r, ActiveStatuses \cup {"cancelled"})
          /\ disk[r].status = "cancelled" \/ \E a \in Helpers : Responsible(a, r)
    /\ future[r] = "none" /\ HasStage(r) /\ ~Starting => Shows(r, TerminalStatuses)
    /\ future[r] = "none" /\ disk[r].status \in ActiveStatuses /\ ~disk[r].cancel =>
          Starting \/ Submitting(r)

RunOK(r) == LogOK(r) /\ DocumentOK(r) /\ StatusOK(r)

VInv ==
    /\ IInv
    /\ \A r \in Runs : WorkerOK(r)
    /\ \A a \in Helpers : HelperOK(a)
    /\ PoolOK
    /\ \A r \in Runs : RunOK(r)

-----------------------------------------------------------------------------
(* What the log says.                                                        *)

\* As long as nothing is appended to it, a log says the same.
LEMMA SameLog ==
    ASSUME NEW r \in Runs, log'[r] = log[r]
    PROVE  /\ Verdicts(r)' = Verdicts(r)
           /\ HasStage(r)' = HasStage(r)
           /\ Asked(r)' = Asked(r)
           /\ Late(r)' = Late(r)
           /\ OneEach(r)' = OneEach(r)
           /\ NoStageAfter(r)' = NoStageAfter(r)
<1>1. Verdicts(r)' = Verdicts(r)
  BY DEF Verdicts
<1> QED BY <1>1 DEF HasStage, Asked, Late, OneEach, NoStageAfter

\* An event adds what it says to what the log said before.
LEMMA LogGrows ==
    ASSUME IInv, NEW a \in Actors, NEW r \in Runs, job[a] = r, todo[a] # <<>>,
           log' = [log EXCEPT ![r] = Appended(a)]
    PROVE  /\ Verdicts(r)' = Verdicts(r) \cup (IF Verdict(Says(a)) THEN {Says(a).stage} ELSE {})
           /\ HasStage(r)' <=> HasStage(r) \/ StageEvent(Says(a))
           /\ Asked(r)' <=> Asked(r) \/ Asks(Says(a))
           /\ Late(r)' <=> Late(r) \/ (Asked(r) /\ Proposes(Says(a)))
           /\ NoStageAfter(r) /\ (StageEvent(Says(a)) => Verdicts(r) = {}) => NoStageAfter(r)'
           /\ \A s \in Runs \ {r} : log'[s] = log[s]
           /\ log'[r] # <<>>
<1> DEFINE n == Len(log[r])
           x == Appended(a)[n + 1]
<1>1. /\ n \in Nat /\ log[r] \in Seq(Events)
      /\ Appended(a) \in Seq(Events) /\ Len(Appended(a)) = n + 1
      /\ Appended(a) = Append(log[r], x)
  BY AppendedFacts DEF IInv, TypeOK
<1>2. log'[r] = Appended(a) /\ \A s \in Runs \ {r} : log'[s] = log[s]
  BY DEF IInv, TypeOK
<1>3. x.type = Says(a).type /\ x.stage = Says(a).stage
  BY <1>1 DEF Appended, Says
<1>4. /\ DOMAIN log[r] = 1 .. n /\ DOMAIN log'[r] = 1 .. (n + 1)
      /\ log'[r][n + 1] = x
      /\ \A i \in 1 .. n : log'[r][i] = log[r][i]
  BY <1>1, <1>2
<1> HIDE DEF x
<1>5. /\ Verdict(x) <=> Verdict(Says(a))
      /\ StageEvent(x) <=> StageEvent(Says(a))
      /\ Asks(x) <=> Asks(Says(a))
      /\ Proposes(x) <=> Proposes(Says(a))
  BY <1>3 DEF Verdict, StageEvent, Asks, Proposes
<1>6. \A i \in 1 .. (n + 1) : i \in 1 .. n \/ i = n + 1
  BY <1>1
<1>7. Verdicts(r)' = Verdicts(r) \cup (IF Verdict(Says(a)) THEN {Says(a).stage} ELSE {})
  <2>1. \A s : s \in Verdicts(r) <=> \E i \in 1 .. n : Verdict(log[r][i]) /\ log[r][i].stage = s
    BY <1>4 DEF Verdicts
  <2>2. \A s : s \in Verdicts(r)' <=>
                 \E i \in 1 .. (n + 1) : Verdict(log'[r][i]) /\ log'[r][i].stage = s
    BY <1>4 DEF Verdicts
  <2>3. \A s : s \in Verdicts(r)' <=> s \in Verdicts(r) \/ (Verdict(x) /\ x.stage = s)
    <3> TAKE s
    <3>1. \A i \in 1 .. n : i \in 1 .. (n + 1)
      BY <1>1
    <3>2. n + 1 \in 1 .. (n + 1)
      BY <1>1
    <3> HIDE DEF n
    <3>3. ASSUME s \in Verdicts(r) PROVE s \in Verdicts(r)'
      BY <1>4, <2>1, <2>2, <3>1, <3>3
    <3>4. ASSUME Verdict(x), x.stage = s PROVE s \in Verdicts(r)'
      BY <1>4, <2>2, <3>2, <3>4
    <3>5. ASSUME s \in Verdicts(r)' PROVE s \in Verdicts(r) \/ (Verdict(x) /\ x.stage = s)
      BY <1>4, <1>6, <2>1, <2>2, <3>5
    <3> QED BY <3>3, <3>4, <3>5
  <2> QED BY <1>3, <1>5, <2>3
<1>8. HasStage(r)' <=> HasStage(r) \/ StageEvent(Says(a))
  <2>1. 1 .. n \subseteq 1 .. (n + 1) /\ n + 1 \in 1 .. (n + 1)
    BY <1>1
  <2> HIDE DEF n
  <2> QED BY <1>4, <1>5, <1>6, <2>1, Zenon DEF HasStage
<1>9. Asked(r)' <=> Asked(r) \/ Asks(Says(a))
  <2>1. 1 .. n \subseteq 1 .. (n + 1) /\ n + 1 \in 1 .. (n + 1)
    BY <1>1
  <2> HIDE DEF n
  <2> QED BY <1>4, <1>5, <1>6, <2>1, Zenon DEF Asked
<1>10. Late(r)' <=> Late(r) \/ (Asked(r) /\ Proposes(Says(a)))
  <2>1. ASSUME Late(r)' PROVE Late(r) \/ (Asked(r) /\ Proposes(Says(a)))
    <3>1. PICK i \in 1 .. (n + 1), j \in 1 .. (n + 1) :
             i < j /\ Asks(log'[r][i]) /\ Proposes(log'[r][j])
      BY <1>4, <2>1 DEF Late
    <3>2. i \in 1 .. n /\ Asks(log[r][i])
      BY <1>1, <1>4, <3>1
    <3>3. CASE j = n + 1
      BY <1>4, <1>5, <3>1, <3>2, <3>3 DEF Asked
    <3>4. CASE j \in 1 .. n
      BY <1>4, <3>1, <3>2, <3>4 DEF Late
    <3> QED BY <1>6, <3>3, <3>4
  <2>2. ASSUME Late(r) PROVE Late(r)'
    <3>1. PICK i \in 1 .. n, j \in 1 .. n : i < j /\ Asks(log[r][i]) /\ Proposes(log[r][j])
      BY <1>4, <2>2 DEF Late
    <3>2. i \in 1 .. (n + 1) /\ j \in 1 .. (n + 1)
          /\ log'[r][i] = log[r][i] /\ log'[r][j] = log[r][j]
      BY <1>1, <1>4, <3>1
    <3> QED BY <1>4, <3>1, <3>2 DEF Late
  <2>3. ASSUME Asked(r), Proposes(Says(a)) PROVE Late(r)'
    <3>1. PICK i \in 1 .. n : Asks(log[r][i])
      BY <1>4, <2>3 DEF Asked
    <3>2. i < n + 1 /\ i \in 1 .. (n + 1) /\ n + 1 \in 1 .. (n + 1)
      BY <1>1
    <3> QED BY <1>4, <1>5, <2>3, <3>1, <3>2 DEF Late
  <2> QED BY <2>1, <2>2, <2>3
<1>11. ASSUME NoStageAfter(r), StageEvent(Says(a)) => Verdicts(r) = {}
       PROVE  NoStageAfter(r)'
  <2> SUFFICES ASSUME NEW i \in 1 .. (n + 1), NEW j \in 1 .. (n + 1),
                      Verdict(log'[r][i]), i < j, StageEvent(log'[r][j])
               PROVE  FALSE
    BY <1>4 DEF NoStageAfter
  <2>1. i \in 1 .. n /\ Verdict(log[r][i])
    BY <1>1, <1>4
  <2>2. CASE j = n + 1
    <3>1. log[r][i].stage \in Verdicts(r)
      BY <1>4, <2>1 DEF Verdicts
    <3> QED BY <1>4, <1>5, <1>11, <2>2, <3>1
  <2>3. CASE j \in 1 .. n
    BY <1>4, <1>11, <2>1, <2>3 DEF NoStageAfter
  <2> QED BY <1>6, <2>2, <2>3
<1> QED BY <1>1, <1>2, <1>4, <1>7, <1>8, <1>9, <1>10, <1>11

-----------------------------------------------------------------------------
(* A step of thread a on Run r: what it leaves alone.                        *)

ThreadStep(a, r) ==
    /\ \A b \in Actors \ {a} :
          pc'[b] = pc[b] /\ todo'[b] = todo[b] /\ mem'[b] = mem[b] /\ job'[b] = job[b]
    /\ \A s \in Runs \ {r} : disk'[s] = disk[s] /\ log'[s] = log[s] /\ future'[s] = future[s]
    /\ job[a] \in {r, NoRun} /\ job'[a] \in {r, NoRun}
    /\ a \in Runs => a = r
    /\ Starting' <=> Starting
    /\ disk[r].cancel => disk'[r].cancel
    /\ disk[r].status # "absent" => disk'[r].status # "absent"
    /\ future[r] = "cancelled" => future'[r] = "cancelled"
    /\ a # Service /\ future[r] = "none" => future'[r] = "none"
    /\ \A s \in owned' : s \in owned \/ future[s] # "none"
    /\ a # r => (future'[r] = "running" <=> future[r] = "running")

\* The other workers stay in order.
LEMMA OtherWorkers ==
    ASSUME VInv, NEW a \in Actors, NEW r \in Runs, ThreadStep(a, r), NEW s \in Runs \ {a}
    PROVE  WorkerOK(s)'
<1>1. s \in Actors /\ WorkerOK(s) /\ job[s] \in {s, NoRun}
  BY DEF VInv, IInv, CounterInv, Owners, Actors
<1>2. pc'[s] = pc[s] /\ todo'[s] = todo[s] /\ mem'[s] = mem[s] /\ job'[s] = job[s]
  BY <1>1 DEF ThreadStep
<1>3. future'[s] = "running" <=> future[s] = "running"
  BY <1>1 DEF ThreadStep
<1>4. job[s] \in Runs /\ disk[job[s]].status # "absent" => disk'[job'[s]].status # "absent"
  BY <1>1, <1>2 DEF ThreadStep
<1>5. ThreadOK(s)'
  BY <1>1, <1>2, <1>4 DEF WorkerOK, ThreadOK
<1> QED BY <1>1, <1>2, <1>3, <1>5 DEF WorkerOK, Says

\* The other cancellers, and the service, stay in order.
LEMMA OtherHelpers ==
    ASSUME VInv, NEW a \in Actors, NEW r \in Runs, ThreadStep(a, r), NEW b \in Helpers \ {a}
    PROVE  HelperOK(b)'
<1>1. b \in Actors /\ HelperOK(b) /\ Owners
  BY DEF VInv, IInv, CounterInv, Helpers, Actors
<1>2. pc'[b] = pc[b] /\ todo'[b] = todo[b] /\ mem'[b] = mem[b] /\ job'[b] = job[b]
  BY <1>1 DEF ThreadStep
<1>3. job[b] \in Runs =>
          /\ disk[job[b]].status # "absent" => disk'[job'[b]].status # "absent"
          /\ disk[job[b]].cancel => disk'[job'[b]].cancel
          /\ future[job[b]] = "cancelled" => future'[job'[b]] = "cancelled"
  BY <1>1, <1>2 DEF ThreadStep
<1>4. pc[b] \in {"creating", "queueing", "unscheduled"} =>
          b = Service /\ job[b] \in Runs /\ (future[job[b]] = "none" => future'[job'[b]] = "none")
  <2>1. pc[b] \in {"creating", "queueing", "unscheduled"} => b = Service
    BY <1>1 DEF Owners, CancellerPCs, Helpers
  <2>2. pc[b] \in {"creating", "queueing", "unscheduled"} => job[b] \in Runs
    BY <1>1 DEF Owners, InUse
  <2> QED BY <1>2, <2>1, <2>2 DEF ThreadStep
<1>5. pc[b] \in {"future", "latest", "settle", "settled"} => job[b] \in Runs
  BY <1>1 DEF Owners, InUse
<1>6. ThreadOK(b)'
  BY <1>1, <1>2, <1>3 DEF HelperOK, ThreadOK
<1> QED BY <1>1, <1>2, <1>3, <1>4, <1>5, <1>6 DEF HelperOK, Says

\* The other Runs stay in order.
LEMMA OtherRuns ==
    ASSUME VInv, NEW a \in Actors, NEW r \in Runs, ThreadStep(a, r), NEW s \in Runs \ {r}
    PROVE  RunOK(s)'
<1> USE RunLifecycleAssumption
<1>1. s \in Actors /\ s # a /\ s # NoRun /\ RunOK(s) /\ Service \in Actors
  BY DEF VInv, Actors, ThreadStep
<1>2. /\ disk'[s] = disk[s] /\ log'[s] = log[s] /\ future'[s] = future[s]
      /\ pc'[s] = pc[s] /\ todo'[s] = todo[s]
      /\ Starting' <=> Starting
  BY <1>1 DEF ThreadStep
<1>3. \A b \in Actors : job[b] = s \/ job'[b] = s =>
          job'[b] = job[b] /\ mem'[b] = mem[b] /\ pc'[b] = pc[b]
  BY <1>1 DEF ThreadStep
<1>4. /\ Submitting(s)' <=> Submitting(s)
      /\ (pc[Service] = "unscheduled" /\ job[Service] = s)'
            <=> (pc[Service] = "unscheduled" /\ job[Service] = s)
  BY <1>1, <1>3 DEF Submitting
<1>5. Untouched(s)' <=> Untouched(s)
  BY <1>2, <1>4 DEF Untouched
<1>6. \A S : Shows(s, S)' <=> Shows(s, S)
  BY <1>2, <1>3 DEF Shows
<1>7. \A b \in Helpers : Responsible(b, s)' <=> Responsible(b, s)
  BY <1>3 DEF Responsible, Helpers, Actors
<1>8. Owes(s)' <=> Owes(s)
  BY <1>2 DEF Owes, Says
<1>9. LogOK(s)'
  BY <1>1, <1>2, <1>4, <1>5, <1>8, SameLog DEF RunOK, LogOK
<1>10. DocumentOK(s)'
  <2>1. s \in owned' => s \in owned \/ future[s] # "none"
    BY DEF ThreadStep
  <2> QED BY <1>1, <1>2, <2>1, SameLog DEF RunOK, DocumentOK
<1>11. StatusOK(s)'
  BY <1>1, <1>2, <1>4, <1>5, <1>6, <1>7, SameLog DEF RunOK, StatusOK
<1> QED BY <1>9, <1>10, <1>11 DEF RunOK

\* What is left to show of a worker's step, and of a helper's.
LEMMA WorkerStepKeeps ==
    ASSUME VInv, IInv', NEW r \in Runs, ThreadStep(r, r), WorkerOK(r)', RunOK(r)', PoolOK'
    PROVE  VInv'
<1>1. r \in Actors /\ r \notin Helpers
  BY RunLifecycleAssumption DEF Actors, Helpers
<1>2. \A s \in Runs : WorkerOK(s)' /\ RunOK(s)'
  BY <1>1, OtherWorkers, OtherRuns
<1>3. \A b \in Helpers : HelperOK(b)'
  BY <1>1, OtherHelpers
<1> QED BY <1>2, <1>3 DEF VInv

LEMMA HelperStepKeeps ==
    ASSUME VInv, IInv', NEW a \in Helpers, NEW r \in Runs, ThreadStep(a, r), HelperOK(a)',
           RunOK(r)', PoolOK'
    PROVE  VInv'
<1>1. a \in Actors /\ a \notin Runs
  BY RunLifecycleAssumption DEF Actors, Helpers
<1>2. \A s \in Runs : WorkerOK(s)' /\ RunOK(s)'
  BY <1>1, OtherWorkers, OtherRuns
<1>3. \A b \in Helpers : HelperOK(b)'
  BY <1>1, OtherHelpers
<1> QED BY <1>2, <1>3 DEF VInv

-----------------------------------------------------------------------------
(* What a save does to the document and to the thread's copy.                *)

LEMMA SaveEffect ==
    ASSUME IInv, NEW a \in Actors, NEW r \in Runs, NEW m \in States, Save(a, r, m)
    PROVE  /\ disk'[r].status = m.status /\ mem'[a].status = m.status
           /\ disk'[r].cancel = (m.cancel \/ disk[r].cancel)
           /\ \A s \in Runs \ {r} : disk'[s] = disk[s]
           /\ \A b \in Actors \ {a} : mem'[b] = mem[b]
<1>1. disk \in [Runs -> States] /\ mem \in [Actors -> States]
  BY DEF IInv, TypeOK
<1>2. /\ Merge(m, disk[r]).status = m.status
      /\ Merge(m, disk[r]).cancel = (m.cancel \/ disk[r].cancel)
  BY <1>1, MergeFacts
<1> QED BY <1>1, <1>2 DEF Save

\* A transition shows the new status at once and has its event still to write.
LEMMA TransitionEffect ==
    ASSUME IInv, NEW a \in Actors, NEW r \in Runs, job[a] = r,
           NEW s \in Statuses, NEW more, Transition(a, s, more)
    PROVE  /\ disk'[r].status = s /\ mem'[a].status = s
           /\ disk[r].cancel => disk'[r].cancel
           /\ \A q \in Runs \ {r} : disk'[q] = disk[q]
           /\ \A b \in Actors \ {a} : mem'[b] = mem[b]
           /\ s \in AllowedTransitions[mem[a].status]
           /\ todo'[a] = <<StatusChanged(s)>> \o more
           /\ \A b \in Actors \ {a} : todo'[b] = todo[b]
<1>1. [mem[a] EXCEPT !.status = s] \in States /\ todo \in [Actors -> Seq(Announcements)]
  BY DEF IInv, TypeOK, States
<1>2. [mem[a] EXCEPT !.status = s].status = s
  BY DEF IInv, TypeOK, States
<1>3. Save(a, r, [mem[a] EXCEPT !.status = s])
  BY DEF Transition
<1> HIDE DEF Save
<1>4. /\ todo'[a] = <<StatusChanged(s)>> \o more
      /\ \A b \in Actors \ {a} : todo'[b] = todo[b]
      /\ s \in AllowedTransitions[mem[a].status]
  BY <1>1 DEF Transition, CanBecome
<1> QED BY <1>1, <1>2, <1>3, <1>4, SaveEffect

\* The events a step leaves to be written, first and last.
LEMMA Spoken ==
    ASSUME NEW e, NEW f
    PROVE  /\ <<e>> \o <<>> = <<e>>
           /\ <<e>> # <<>> /\ Head(<<e>>) = e /\ DOMAIN <<e>> = 1 .. 1
           /\ \A w \in {<<e>> \o <<f>>, <<e, f>>} :
                 w # <<>> /\ Head(w) = e /\ DOMAIN w = 1 .. 2 /\ w[2] = f
<1>1. <<e>> \o <<>> = <<e>>
  OBVIOUS
<1>2. <<e>> # <<>> /\ Head(<<e>>) = e /\ DOMAIN <<e>> = 1 .. 1
  OBVIOUS
<1>3. <<e, f>> # <<>> /\ Head(<<e, f>>) = e /\ DOMAIN <<e, f>> = 1 .. 2 /\ <<e, f>>[2] = f
  OBVIOUS
<1>4. LET w == <<e>> \o <<f>> IN w # <<>> /\ Head(w) = e /\ DOMAIN w = 1 .. 2 /\ w[2] = f
  OBVIOUS
<1> QED BY <1>1, <1>2, <1>3, <1>4

\* What an event of a type and stage says.
LEMMA Meaning ==
    ASSUME NEW s, NEW t
    PROVE  /\ Verdict(StatusChanged(s)) <=> s \in TerminalStatuses
           /\ StageEvent(StatusChanged(s)) <=> s \in ActiveStatuses \ {"queued"}
           /\ ~Asks(StatusChanged(s)) /\ ~Proposes(StatusChanged(s))
           /\ t # "status_changed" => ~Verdict(Note(t, s))
           /\ t \notin {"status_changed", "work"} => ~Loud(Note(t, s))
           /\ Asks(Note(t, s)) <=> t = "cancel_requested"
           /\ StageEvent(Note("work", s))
           /\ Proposes(Note(t, s)) <=> t = "work" /\ s = "proposing"
           /\ StatusChanged(s).stage = s
  BY DEF StatusChanged, Note, Verdict, StageEvent, Loud, Asks, Proposes


\* An interruption: a verdict, then a note.
LEMMA Interrupting ==
    ASSUME NEW w, w = <<StatusChanged("interrupted"), Note("interrupted", "interrupted")>>
    PROVE  /\ w # <<>> /\ Head(w) = StatusChanged("interrupted")
           /\ \A i \in DOMAIN w : i > 1 => ~Loud(w[i]) /\ ~Asks(w[i])
           /\ ~StageEvent(Head(w)) /\ ~Asks(Head(w)) /\ Head(w).stage = "interrupted"
<1>1. /\ w # <<>> /\ Head(w) = StatusChanged("interrupted")
      /\ \A i \in DOMAIN w : i > 1 => w[i] = Note("interrupted", "interrupted")
  BY Spoken
<1>2. "interrupted" \notin ActiveStatuses
  BY DEF ActiveStatuses
<1>3. ~Loud(Note("interrupted", "interrupted")) /\ ~Asks(Note("interrupted", "interrupted"))
  BY Meaning
<1> QED BY <1>1, <1>2, <1>3, Meaning

-----------------------------------------------------------------------------
(* Steps of a busy worker.                                                   *)

\* While its future runs, a Run is the worker's alone: its status and its
\* place in the pool need no further argument.
LEMMA BusyRun ==
    ASSUME VInv, IInv', NEW r \in Runs, ThreadStep(r, r), pc[r] # "idle",
           UNCHANGED <<future, queue>>, Asked(r)' => Asked(r)
    PROVE  /\ future[r] = "running" /\ future'[r] = "running"
           /\ ~Untouched(r)'
           /\ ~(pc[Service] = "unscheduled" /\ job[Service] = r)'
           /\ StatusOK(r)' /\ DocumentOK(r)' /\ PoolOK'
<1> USE RunLifecycleAssumption
<1>1. /\ r # Service /\ Service \in Actors /\ Service \in Helpers
      /\ Cancellers \subseteq Actors /\ r \notin Cancellers
  BY DEF Helpers, Actors
<1>2. WorkerOK(r) /\ HelperOK(Service) /\ PoolOK /\ RunOK(r)
  BY <1>1 DEF VInv
<1>3. future[r] = "running" /\ future'[r] = "running"
  BY <1>2 DEF WorkerOK
<1>4. pc'[Service] = pc[Service] /\ job'[Service] = job[Service]
      /\ \A c \in Cancellers : job'[c] = job[c]
  BY <1>1 DEF ThreadStep
<1>5. pc[Service] \in {"creating", "queueing", "unscheduled"} => job[Service] # r
  BY <1>2, <1>3 DEF HelperOK
<1>6. ~Untouched(r)' /\ ~(pc[Service] = "unscheduled" /\ job[Service] = r)'
  BY <1>3, <1>4, <1>5 DEF Untouched, Submitting
<1>7. StatusOK(r)'
  BY <1>3, <1>6 DEF StatusOK
<1>8. DocumentOK(r)'
  BY <1>2, <1>3 DEF RunOK, DocumentOK, ThreadStep
<1>9. PoolOK'
  BY <1>2, <1>4 DEF PoolOK, Starting
<1> QED BY <1>3, <1>6, <1>7, <1>8, <1>9

\* The steps of a worker between two events.
LEMMA BusySteps ==
    ASSUME VInv, IInv', NEW r \in Runs,
           \/ LoadRun(r) \/ CheckStops(r) \/ CheckPasses(r) \/ EnterStage(r)
           \/ WorkDone(r) \/ WorkFails(r) \/ TrainingSeesCancel(r) \/ Complete(r)
           \/ BuildReport(r) \/ ReportFails(r) \/ FailRun(r) \/ CancelRun(r)
    PROVE  VInv'
<1> USE RunLifecycleAssumption DEF At, Goto, pool, persisted
<1>0. /\ TypeOK /\ Owners /\ IInv /\ WorkerOK(r) /\ RunOK(r)
      /\ r \in Actors /\ Service # r /\ Service \in Actors /\ Service \in Helpers
  BY DEF VInv, IInv, CounterInv, Actors, Helpers
<1>1. /\ pc[r] # "idle" /\ todo[r] = <<>>
      /\ log' = log /\ future' = future /\ queue' = queue /\ owned' = owned
      /\ \A b \in Actors \ {r} :
            pc'[b] = pc[b] /\ todo'[b] = todo[b] /\ job'[b] = job[b]
      /\ job'[r] = r
  <2>1. /\ pc[r] # "idle" /\ todo[r] = <<>>
        /\ log' = log /\ future' = future /\ queue' = queue /\ owned' = owned
    BY DEF LoadRun, CheckStops, CheckPasses, EnterStage, WorkDone, WorkFails,
           TrainingSeesCancel, Complete, BuildReport, ReportFails, FailRun, CancelRun
  <2>2. \A b \in Actors \ {r} : pc'[b] = pc[b]
    BY <1>0 DEF LoadRun, CheckStops, CheckPasses, EnterStage, WorkDone, WorkFails,
           TrainingSeesCancel, Complete, BuildReport, ReportFails, FailRun, CancelRun, TypeOK
  <2>3. \A b \in Actors \ {r} : todo'[b] = todo[b]
    BY <1>0 DEF LoadRun, CheckStops, CheckPasses, EnterStage, WorkDone, WorkFails,
           TrainingSeesCancel, Complete, BuildReport, ReportFails, FailRun, CancelRun, TypeOK,
           Transition
  <2>4. \A b \in Actors \ {r} : job'[b] = job[b]
    BY <1>0 DEF LoadRun, CheckStops, CheckPasses, EnterStage, WorkDone, WorkFails,
           TrainingSeesCancel, Complete, BuildReport, ReportFails, FailRun, CancelRun, TypeOK
  <2>5. InUse(r) => job[r] = r
    BY <1>0 DEF Owners
  <2>6. job'[r] = r
    BY <1>0, <2>5 DEF LoadRun, CheckStops, CheckPasses, EnterStage, WorkDone, WorkFails,
           TrainingSeesCancel, Complete, BuildReport, ReportFails, FailRun, CancelRun, TypeOK,
           InUse
  <2> QED BY <2>1, <2>2, <2>3, <2>4, <2>6
<1>3. /\ Verdicts(r)' = Verdicts(r) /\ HasStage(r)' = HasStage(r)
      /\ Asked(r)' = Asked(r) /\ Late(r)' = Late(r)
      /\ OneEach(r)' = OneEach(r) /\ NoStageAfter(r)' = NoStageAfter(r)
  BY <1>1, SameLog
\* It is enough to look at the worker's own state.
<1>4. ASSUME ThreadStep(r, r), WorkerOK(r)', pc'[r] # "load",
             pc'[r] \notin {"report", "leaving"} \/ Owes(r)' => Verdicts(r) = {},
             pc'[r] \in {"report", "leaving"} /\ ~Owes(r)' => Verdicts(r) # {} \/ ~HasStage(r),
             Late(r) => pc'[r] \in {"check", "cancelling", "leaving"}
      PROVE  VInv'
  <2>1. /\ future'[r] = "running" /\ ~Untouched(r)'
        /\ ~(pc[Service] = "unscheduled" /\ job[Service] = r)'
        /\ StatusOK(r)' /\ DocumentOK(r)' /\ PoolOK'
    BY <1>1, <1>3, <1>4, BusyRun
  <2>2. LogOK(r)'
    BY <1>0, <1>3, <1>4, <2>1 DEF RunOK, LogOK
  <2> QED BY <1>4, <2>1, <2>2, WorkerStepKeeps DEF RunOK
<1>5. ASSUME \A s \in Runs \ {r} : disk'[s] = disk[s], \A b \in Actors \ {r} : mem'[b] = mem[b],
             disk[r].cancel => disk'[r].cancel, disk'[r].status # "absent"
      PROVE  ThreadStep(r, r)
  BY <1>0, <1>1, <1>5 DEF ThreadStep, Starting, Owners
<1>6. disk[r].status # "absent"
  BY <1>0, <1>1 DEF RunOK, DocumentOK, WorkerOK
<1>7. future[r] = "running" /\ future'[r] = "running"
  BY <1>0, <1>1 DEF WorkerOK
\* Steps that write nothing and leave nothing to write.
<1>8. ASSUME disk' = disk, \A b \in Actors \ {r} : mem'[b] = mem[b], mem'[r].status # "absent",
             todo'[r] = <<>>, pc'[r] \notin {"idle", "load"},
             pc'[r] \in {"report", "leaving"} => Verdicts(r) # {} \/ ~HasStage(r),
             pc[r] \in {"report", "leaving"} => pc'[r] \in {"report", "leaving"},
             Late(r) => pc'[r] \in {"check", "cancelling", "leaving"},
             pc'[r] \in {"check", "enter"} => mem'[r].status \in DOMAIN NextStage, pc'[r] # "work"
      PROVE  VInv'
  <2>1. ThreadStep(r, r)
    BY <1>5, <1>6, <1>8
  <2>2. WorkerOK(r)'
    BY <1>0, <1>1, <1>6, <1>7, <1>8 DEF WorkerOK, ThreadOK
  <2>3. ~Owes(r) /\ ~Owes(r)'
    BY <1>1, <1>8 DEF Owes
  <2>4. /\ pc'[r] \notin {"report", "leaving"} => Verdicts(r) = {}
        /\ pc'[r] \in {"report", "leaving"} => Verdicts(r) # {} \/ ~HasStage(r)
    BY <1>0, <1>7, <1>8, <2>3 DEF RunOK, LogOK
  <2>5. pc'[r] # "load"
    BY <1>8
  <2>6. pc'[r] \notin {"report", "leaving"} \/ Owes(r)' => Verdicts(r) = {}
    BY <2>3, <2>4
  <2>7. pc'[r] \in {"report", "leaving"} /\ ~Owes(r)' => Verdicts(r) # {} \/ ~HasStage(r)
    BY <2>4
  <2>8. Late(r) => pc'[r] \in {"check", "cancelling", "leaving"}
    BY <1>8
  <2> QED BY <1>4, <2>1, <2>2, <2>5, <2>6, <2>7, <2>8
\* Transitions: the thread now owes the verdict, or the stage, it just saved.
<1>9. ASSUME NEW s \in Statuses \ {"absent"}, NEW more \in {<<>>, <<Note(s, s)>>},
             Transition(r, s, more), job[r] = r, s \notin {"failed", "cancelled"} => more = <<>>,
             pc[r] \notin {"report", "leaving"},
             \/ s \in DOMAIN NextStage \cup {"packaging"} /\ pc'[r] = "work"
             \/ s = "completed" /\ pc'[r] = "report"
             \/ s \in {"failed", "cancelled"} /\ pc'[r] = "leaving",
             Late(r) => pc'[r] \in {"check", "cancelling", "leaving"}
      PROVE  VInv'
  <2>1. /\ disk'[r].status = s /\ mem'[r].status = s
        /\ disk[r].cancel => disk'[r].cancel
        /\ \A q \in Runs \ {r} : disk'[q] = disk[q]
        /\ \A b \in Actors \ {r} : mem'[b] = mem[b]
        /\ todo'[r] = <<StatusChanged(s)>> \o more
    BY <1>0, <1>9, TransitionEffect
  <2>2. ThreadStep(r, r)
    BY <1>5, <1>9, <2>1
  <2>3. /\ todo'[r] # <<>> /\ Head(todo'[r]) = StatusChanged(s)
        /\ \A i \in DOMAIN todo'[r] : i > 1 =>
              todo'[r][i] = Note(s, s) /\ s \in {"failed", "cancelled"}
    <3>1. CASE more = <<>>
      BY <2>1, <3>1, Spoken
    <3>2. CASE more = <<Note(s, s)>> /\ more # <<>> /\ s \in {"failed", "cancelled"}
      BY <2>1, <3>2, Spoken
    <3> QED BY <1>9, <3>1, <3>2
  <2>4. s \in {"failed", "cancelled"} => ~Loud(Note(s, s)) /\ ~Asks(Note(s, s))
    BY Meaning
  <2>5. /\ Verdict(StatusChanged(s)) <=> s \in TerminalStatuses
        /\ StageEvent(StatusChanged(s)) <=> s \in ActiveStatuses \ {"queued"}
        /\ ~Asks(StatusChanged(s)) /\ ~Proposes(StatusChanged(s)) /\ StatusChanged(s).stage = s
    BY Meaning
  <2>6. /\ s \in DOMAIN NextStage \cup {"packaging"} => s \in ActiveStatuses \ TerminalStatuses
        /\ s \in {"completed", "failed", "cancelled"} => s \in TerminalStatuses \ ActiveStatuses
    BY DEF ActiveStatuses, TerminalStatuses, NextStage
  <2>7. ThreadOK(r)'
    BY <1>1, <1>9, <2>1, <2>3, <2>4 DEF ThreadOK
  <2>8. WorkerOK(r)'
    BY <1>7, <1>9, <2>1, <2>3, <2>5, <2>6, <2>7 DEF WorkerOK, Says
  <2>9. Owes(r)' <=> s \in TerminalStatuses
    BY <2>3, <2>5 DEF Owes, Says
  <2>10. Verdicts(r) = {}
    BY <1>0, <1>7, <1>9 DEF RunOK, LogOK
  <2>11. pc'[r] \in {"report", "leaving"} => Owes(r)'
    BY <1>9, <2>6, <2>9
  <2>12. pc'[r] # "load"
    BY <1>9
  <2> QED BY <1>4, <1>9, <2>2, <2>8, <2>10, <2>11, <2>12
\* Steps that leave an event to be written that is no verdict.
<1>e. ASSUME NEW e, todo'[r] = <<e>>, ~Verdict(e), ~Asks(e), disk' = disk, mem' = mem,
             pc'[r] \in {"check", "complete", "leaving"},
             pc'[r] = "check" => mem[r].status \in DOMAIN NextStage,
             pc'[r] = "leaving" => pc[r] = "report" /\ ~StageEvent(e),
             pc'[r] # "leaving" => pc[r] = "work",
             Proposes(e) => pc'[r] = "check"
      PROVE  VInv'
  <2>1. ThreadStep(r, r)
    BY <1>5, <1>6, <1>e
  <2>2. job[r] = r /\ mem'[r].status # "absent"
    BY <1>0, <1>1, <1>e DEF WorkerOK, ThreadOK, Owners, InUse
  <2>3. todo'[r] # <<>> /\ Head(todo'[r]) = e /\ DOMAIN todo'[r] = 1 .. 1
    BY <1>e, Spoken
  <2>4. ThreadOK(r)'
    BY <1>1, <1>6, <1>e, <2>2, <2>3 DEF ThreadOK
  <2>5. WorkerOK(r)'
    BY <1>7, <1>e, <2>3, <2>4 DEF WorkerOK, Says
  <2>6. ~Owes(r) /\ ~Owes(r)'
    BY <1>1, <1>e, <2>3 DEF Owes, Says
  <2>7. /\ pc'[r] # "leaving" => Verdicts(r) = {} /\ ~Late(r)
        /\ pc'[r] = "leaving" => Verdicts(r) # {} \/ ~HasStage(r)
    BY <1>0, <1>7, <1>e, <2>6 DEF RunOK, LogOK
  <2>8. pc'[r] # "load"
    BY <1>e
  <2> QED BY <1>4, <1>e, <2>1, <2>5, <2>6, <2>7, <2>8
<1>p. \A p : pc' = [pc EXCEPT ![r] = p] => pc'[r] = p
  BY <1>0 DEF TypeOK
<1>10. CASE LoadRun(r)
  <2>1. mem'[r] = Loaded(r) /\ \A b \in Actors \ {r} : mem'[b] = mem[b]
    BY <1>0, <1>10 DEF LoadRun, TypeOK
  <2>2. pc[r] = "load" /\ pc'[r] \in {"check", "leaving"} /\ todo'[r] = <<>> /\ disk' = disk
    BY <1>1, <1>10, <1>p DEF LoadRun
  <2>3. Verdicts(r) = {} /\ ~HasStage(r) /\ ~Late(r)
    BY <1>0, <2>2 DEF RunOK, LogOK
  <2>4. mem'[r].status = disk[r].status
    BY <1>0, <2>1, LoadedFacts
  <2>5. pc'[r] = "check" => disk[r].status \in DOMAIN NextStage
    <3>1. disk[r].status = "queued" \/ pc' = [pc EXCEPT ![r] = "leaving"]
      BY <1>10 DEF LoadRun
    <3> QED BY <1>p, <3>1 DEF NextStage
  <2> QED BY <1>6, <1>8, <2>1, <2>2, <2>3, <2>4, <2>5
<1>11. CASE CheckStops(r)
  <2>1. mem'[r] = disk[r] /\ \A b \in Actors \ {r} : mem'[b] = mem[b]
    BY <1>0, <1>11 DEF CheckStops, TypeOK
  <2>2. pc[r] = "check" /\ pc'[r] = "cancelling" /\ todo'[r] = <<>> /\ disk' = disk
    BY <1>1, <1>11, <1>p DEF CheckStops
  <2> QED BY <1>6, <1>8, <2>1, <2>2
<1>12. CASE CheckPasses(r)
  <2>1. pc[r] = "check" /\ pc'[r] = "enter" /\ todo'[r] = <<>> /\ disk' = disk /\ mem' = mem
    BY <1>1, <1>12, <1>p DEF CheckPasses
  <2>2. ~Late(r)
    BY <1>0, <1>12 DEF CheckPasses, RunOK, LogOK, DocumentOK
  <2>3. mem'[r].status # "absent" /\ mem'[r].status \in DOMAIN NextStage
    BY <1>0, <2>1 DEF WorkerOK, ThreadOK, Owners, InUse
  <2> QED BY <1>8, <2>1, <2>2, <2>3
<1>13. CASE EnterStage(r)
  <2> DEFINE s == NextStage[mem[r].status]
  <2>1. pc[r] = "enter" /\ pc'[r] = "work" /\ Transition(r, s, <<>>)
    BY <1>13, <1>p DEF EnterStage
  <2>3. s \in DOMAIN NextStage \cup {"packaging"}
    BY <1>0, <2>1 DEF WorkerOK, NextStage
  <2>5. s \in Statuses \ {"absent"} /\ s \notin {"failed", "cancelled"}
    BY <2>3 DEF Statuses, ActiveStatuses, NextStage
  <2>4. ~Late(r) /\ job[r] = r
    BY <1>0, <2>1 DEF RunOK, LogOK, Owners, InUse
  <2>6. <<>> \in {<<>>, <<Note(s, s)>>}
    OBVIOUS
  <2> HIDE DEF s
  <2> QED BY <1>9, <2>1, <2>3, <2>4, <2>5, <2>6
<1>14. CASE WorkDone(r)
  <2> DEFINE e == Note("work", mem[r].status)
  <2>1. /\ pc[r] = "work" /\ disk' = disk /\ mem' = mem /\ todo'[r] = <<e>>
        /\ pc'[r] = IF mem[r].status = "packaging" THEN "complete" ELSE "check"
    BY <1>0, <1>14, <1>p DEF WorkDone, TypeOK
  <2>4. mem[r].status # "packaging" => mem[r].status \in DOMAIN NextStage
    BY <1>0, <2>1 DEF WorkerOK
  <2>2. /\ ~Verdict(e) /\ ~Asks(e)
        /\ Proposes(e) <=> mem[r].status = "proposing"
    BY Meaning
  <2>3. ~Late(r)
    BY <1>0, <2>1 DEF RunOK, LogOK
  <2> HIDE DEF e
  <2> QED BY <1>e, <2>1, <2>2, <2>3, <2>4
<1>15. CASE WorkFails(r)
  <2>1. pc[r] = "work" /\ pc'[r] = "failing" /\ todo'[r] = <<>> /\ disk' = disk /\ mem' = mem
    BY <1>1, <1>15, <1>p DEF WorkFails
  <2>2. mem'[r].status # "absent" /\ ~Late(r)
    BY <1>0, <2>1 DEF WorkerOK, ThreadOK, Owners, InUse, RunOK, LogOK
  <2> QED BY <1>8, <2>1, <2>2
<1>16. CASE TrainingSeesCancel(r)
  <2>1. pc[r] = "work" /\ pc'[r] = "cancelling" /\ todo'[r] = <<>> /\ disk' = disk /\ mem' = mem
    BY <1>1, <1>16, <1>p DEF TrainingSeesCancel
  <2>2. mem'[r].status # "absent"
    BY <1>0, <2>1 DEF WorkerOK, ThreadOK, Owners, InUse
  <2> QED BY <1>8, <2>1, <2>2
<1>17. CASE Complete(r)
  <2>1. pc[r] = "complete" /\ pc'[r] = "report" /\ Transition(r, "completed", <<>>)
    BY <1>17, <1>p DEF Complete
  <2>2. ~Late(r) /\ job[r] = r
    BY <1>0, <2>1 DEF RunOK, LogOK, Owners, InUse
  <2>3. /\ "completed" \in Statuses \ {"absent"}
        /\ <<>> \in {<<>>, <<Note("completed", "completed")>>}
    BY DEF Statuses, TerminalStatuses
  <2> QED BY <1>9, <2>1, <2>2, <2>3
<1>18. CASE BuildReport(r)
  <2>1. pc[r] = "report" /\ pc'[r] = "leaving" /\ todo'[r] = <<>> /\ disk' = disk /\ mem' = mem
    BY <1>1, <1>18, <1>p DEF BuildReport
  <2>2. mem'[r].status # "absent"
    BY <1>0, <2>1 DEF WorkerOK, ThreadOK, Owners, InUse
  <2>3. Verdicts(r) # {} \/ ~HasStage(r)
    BY <1>0, <1>1, <2>1 DEF RunOK, LogOK, Owes
  <2> QED BY <1>8, <2>1, <2>2, <2>3
<1>19. CASE ReportFails(r)
  <2> DEFINE e == Note("report_failed", "completed")
  <2>1. pc[r] = "report" /\ pc'[r] = "leaving" /\ disk' = disk /\ mem' = mem /\ todo'[r] = <<e>>
    BY <1>0, <1>19, <1>p DEF ReportFails, TypeOK
  <2>2. ~Verdict(e) /\ ~StageEvent(e) /\ ~Asks(e) /\ ~Proposes(e)
    BY Meaning DEF Loud
  <2> HIDE DEF e
  <2> QED BY <1>e, <2>1, <2>2
<1>20. CASE FailRun(r)
  <2>1. pc[r] = "failing" /\ pc'[r] = "leaving"
        /\ Transition(r, "failed", <<Note("failed", "failed")>>)
    BY <1>20, <1>p DEF FailRun
  <2>2. job[r] = r
    BY <1>0, <2>1 DEF Owners, InUse
  <2> QED BY <1>9, <2>1, <2>2 DEF Statuses, TerminalStatuses
<1>21. CASE CancelRun(r)
  <2>1. pc[r] = "cancelling" /\ pc'[r] = "leaving"
        /\ Transition(r, "cancelled", <<Note("cancelled", "cancelled")>>)
    BY <1>21, <1>p DEF CancelRun
  <2>2. job[r] = r
    BY <1>0, <2>1 DEF Owners, InUse
  <2> QED BY <1>9, <2>1, <2>2 DEF Statuses, TerminalStatuses
<1> QED BY <1>10, <1>11, <1>12, <1>13, <1>14, <1>15, <1>16, <1>17, <1>18, <1>19, <1>20, <1>21

\* A worker picks a Run nobody has touched, drops one that was taken back, or
\* leaves the one it has settled.
LEMMA PoolSteps ==
    ASSUME VInv, IInv', NEW r \in Runs, StartWork(r) \/ DropCancelled(r) \/ LeaveRun(r)
    PROVE  VInv'
<1> USE RunLifecycleAssumption DEF At, Goto, pool, persisted, threads
<1>0. /\ TypeOK /\ Owners /\ IInv /\ WorkerOK(r) /\ RunOK(r) /\ HelperOK(Service) /\ PoolOK
      /\ r \in Actors /\ Service # r /\ Service \in Actors /\ Cancellers \subseteq Actors
      /\ r \notin Cancellers
  BY DEF VInv, IInv, CounterInv, Actors, Helpers
<1>1. /\ disk' = disk /\ log' = log /\ owned' = owned
      /\ \A b \in Actors \ {r} :
            pc'[b] = pc[b] /\ todo'[b] = todo[b] /\ mem'[b] = mem[b] /\ job'[b] = job[b]
      /\ \A s \in Runs \ {r} : future'[s] = future[s]
      /\ job[r] \in {r, NoRun} /\ job'[r] \in {r, NoRun}
  BY <1>0 DEF StartWork, DropCancelled, LeaveRun, TypeOK, Owners
<1>2. /\ Verdicts(r)' = Verdicts(r) /\ HasStage(r)' = HasStage(r)
      /\ Asked(r)' = Asked(r) /\ Late(r)' = Late(r)
      /\ OneEach(r)' = OneEach(r) /\ NoStageAfter(r)' = NoStageAfter(r)
  BY <1>1, SameLog
<1>3. pc[Service] \in {"creating", "queueing", "unscheduled"} /\ job[Service] = r =>
         future[r] = "none"
  BY <1>0 DEF HelperOK
<1>4. CASE StartWork(r)
  <2>1. /\ pc[r] = "idle" /\ future[r] = "pending" /\ todo[r] = <<>>
        /\ pc'[r] = "load" /\ future'[r] = "running" /\ todo'[r] = <<>> /\ job'[r] = NoRun
    <3>1. future[r] = "pending" /\ pc[r] = "idle" /\ job[r] = NoRun
      BY <1>0, <1>4 DEF StartWork, WorkerOK
    <3>2. todo[r] = <<>>
      BY <1>0, <3>1 DEF Owners, InUse
    <3> QED BY <1>0, <1>4, <3>1, <3>2 DEF StartWork, TypeOK
  <2>2. ThreadStep(r, r)
    BY <1>0, <1>1, <2>1 DEF ThreadStep, Starting
  <2>3. WorkerOK(r)'
    BY <2>1 DEF WorkerOK, ThreadOK
  <2>4. Verdicts(r) = {} /\ ~HasStage(r) /\ ~Late(r)
    BY <1>0, <2>1 DEF RunOK, LogOK, Untouched
  <2>5. ~Untouched(r)' /\ ~(pc[Service] = "unscheduled" /\ job[Service] = r)'
    BY <1>0, <1>1, <1>3, <2>1 DEF Untouched, Submitting
  <2>6. LogOK(r)'
    BY <1>0, <1>2, <2>1, <2>4, <2>5 DEF RunOK, LogOK
  <2>7. DocumentOK(r)' /\ StatusOK(r)'
    BY <1>0, <1>1, <1>2, <2>1, <2>5 DEF RunOK, DocumentOK, StatusOK
  <2>8. PoolOK'
    BY <1>0, <1>1, <2>1 DEF PoolOK, Starting
  <2> QED BY <2>2, <2>3, <2>6, <2>7, <2>8, WorkerStepKeeps DEF RunOK
<1>5. CASE DropCancelled(r)
  <2>1. /\ UNCHANGED <<disk, log, mem, job, todo, pc, future>>
        /\ queue # <<>>
    BY <1>5 DEF DropCancelled, Picked
  <2>2. ThreadStep(r, r)
    BY <1>1, <2>1 DEF ThreadStep, Starting
  <2>3. WorkerOK(r)'
    BY <1>0, <2>1 DEF WorkerOK, ThreadOK, Says
  <2>4. LogOK(r)'
    BY <1>0, <1>2, <2>1 DEF RunOK, LogOK, Untouched, Submitting, Owes, Says
  <2>5. DocumentOK(r)'
    BY <1>0, <1>1, <1>2, <2>1 DEF RunOK, DocumentOK
  <2>6. StatusOK(r)'
    BY <1>0, <1>2, <2>1 DEF RunOK, StatusOK, Untouched, Submitting, Shows, Responsible,
       Starting
  <2>7. PoolOK'
    BY <1>0, <2>1 DEF PoolOK, Starting
  <2> QED BY <2>2, <2>3, <2>4, <2>5, <2>6, <2>7, WorkerStepKeeps DEF RunOK
<1>6. CASE LeaveRun(r)
  <2>1. /\ pc[r] = "leaving" /\ todo[r] = <<>> /\ future[r] = "running"
        /\ pc'[r] = "idle" /\ todo'[r] = <<>> /\ future'[r] = "done" /\ job'[r] = NoRun
    BY <1>0, <1>6 DEF LeaveRun, WorkerOK, TypeOK
  <2>2. ThreadStep(r, r)
    BY <1>0, <1>1, <2>1 DEF ThreadStep, Starting
  <2>3. WorkerOK(r)'
    BY <2>1 DEF WorkerOK, ThreadOK
  <2>4. Verdicts(r) # {} \/ ~HasStage(r)
    BY <1>0, <2>1 DEF RunOK, LogOK, Owes
  <2>5. ~Untouched(r)' /\ ~(pc[Service] = "unscheduled" /\ job[Service] = r)'
    BY <1>0, <1>1, <1>3, <2>1 DEF Untouched, Submitting
  <2>6. LogOK(r)'
    BY <1>0, <1>2, <2>1, <2>4, <2>5 DEF RunOK, LogOK
  <2>7. DocumentOK(r)' /\ StatusOK(r)'
    BY <1>0, <1>1, <1>2, <2>1, <2>5 DEF RunOK, DocumentOK, StatusOK
  <2>8. PoolOK'
    <3>1. \A s \in Runs : future'[s] = future[s] \/ s = r
      BY <1>1
    <3> QED BY <1>0, <1>1, <1>6, <2>1, <3>1 DEF PoolOK, Starting, LeaveRun
  <2> QED BY <2>2, <2>3, <2>6, <2>7, <2>8, WorkerStepKeeps DEF RunOK
<1> QED BY <1>4, <1>5, <1>6

-----------------------------------------------------------------------------
(* Events.                                                                   *)

\* What is left to write after the first event is neither verdict, stage nor
\* request.
LEMMA TailIsQuiet ==
    ASSUME NEW w \in Seq(Announcements), w # <<>>,
           \A i \in DOMAIN w : i > 1 => ~Loud(w[i]) /\ ~Asks(w[i])
    PROVE  /\ \A i \in DOMAIN Tail(w) : ~Loud(Tail(w)[i]) /\ ~Asks(Tail(w)[i])
           /\ Tail(w) # <<>> => ~Loud(Head(Tail(w))) /\ ~Asks(Head(Tail(w)))
<1>1. /\ \A i \in DOMAIN Tail(w) : i + 1 \in DOMAIN w /\ i + 1 > 1 /\ Tail(w)[i] = w[i + 1]
      /\ Tail(w) # <<>> => 1 \in DOMAIN Tail(w) /\ Head(Tail(w)) = Tail(w)[1]
  OBVIOUS
<1> QED BY <1>1

\* RunState.event writes the thread's status, its first event and nothing else.
LEMMA AnnounceEffect ==
    ASSUME IInv, NEW a \in Actors, Announce(a), NEW r \in Runs, job[a] = r
    PROVE  /\ todo[a] # <<>> /\ todo'[a] = Tail(todo[a])
           /\ \A b \in Actors \ {a} : todo'[b] = todo[b] /\ mem'[b] = mem[b]
           /\ disk'[r].status = mem[a].status /\ mem'[a].status = mem[a].status
           /\ disk[r].cancel => disk'[r].cancel
           /\ \A s \in Runs \ {r} : disk'[s] = disk[s]
           /\ log' = [log EXCEPT ![r] = Appended(a)]
           /\ UNCHANGED <<job, pc, future, queue, owned>>
<1> DEFINE v == Merge(mem[a], disk[r])
           m == [v EXCEPT !.seq = v.seq + 1]
<1>1. mem[a] \in States /\ disk[r] \in States /\ todo \in [Actors -> Seq(Announcements)]
  BY DEF IInv, TypeOK
<1>2. v \in States /\ v.status = mem[a].status
  BY <1>1, MergeFacts
<1>3. m \in States /\ m.status = mem[a].status
  BY <1>2 DEF States
<1>4. Save(a, r, m)
  BY DEF Announce
<1> HIDE DEF m, Save
<1>5. /\ disk'[r].status = m.status /\ mem'[a].status = m.status
      /\ disk'[r].cancel = (m.cancel \/ disk[r].cancel)
      /\ \A s \in Runs \ {r} : disk'[s] = disk[s]
      /\ \A b \in Actors \ {a} : mem'[b] = mem[b]
  BY <1>3, <1>4, SaveEffect
<1>6. /\ todo[a] # <<>> /\ todo'[a] = Tail(todo[a])
      /\ \A b \in Actors \ {a} : todo'[b] = todo[b]
      /\ log' = [log EXCEPT ![r] = Appended(a)]
      /\ UNCHANGED <<job, pc, future, queue, owned>>
  BY <1>1 DEF Announce, pool
<1>7. disk[r].cancel => disk'[r].cancel
  BY <1>5
<1> QED BY <1>3, <1>5, <1>6, <1>7

\* A worker writes an event.
LEMMA WorkerAnnounces ==
    ASSUME VInv, IInv', NEW r \in Runs, Announce(r)
    PROVE  VInv'
<1> USE RunLifecycleAssumption
<1>0. /\ TypeOK /\ Owners /\ IInv /\ WorkerOK(r) /\ RunOK(r) /\ r \in Actors /\ Service # r
      /\ Service \in Actors
  BY DEF VInv, IInv, CounterInv, Actors
<1>1. todo[r] # <<>> /\ job[r] = r
  BY <1>0 DEF Announce, Owners, InUse
<1>2. /\ todo'[r] = Tail(todo[r])
      /\ \A b \in Actors \ {r} : todo'[b] = todo[b] /\ mem'[b] = mem[b]
      /\ disk'[r].status = mem[r].status /\ mem'[r].status = mem[r].status
      /\ disk[r].cancel => disk'[r].cancel
      /\ \A s \in Runs \ {r} : disk'[s] = disk[s]
      /\ log' = [log EXCEPT ![r] = Appended(r)]
      /\ job' = job /\ pc' = pc /\ future' = future /\ queue' = queue /\ owned' = owned
  BY <1>0, <1>1, AnnounceEffect
<1>3. /\ \A i \in DOMAIN todo'[r] : ~Loud(todo'[r][i]) /\ ~Asks(todo'[r][i])
      /\ todo'[r] # <<>> => ~Loud(Head(todo'[r])) /\ ~Asks(Head(todo'[r]))
  BY <1>0, <1>1, <1>2, TailIsQuiet DEF TypeOK, WorkerOK, ThreadOK
<1>4. /\ Verdicts(r)' = Verdicts(r) \cup (IF Verdict(Says(r)) THEN {Says(r).stage} ELSE {})
      /\ HasStage(r)' <=> HasStage(r) \/ StageEvent(Says(r))
      /\ Asked(r)' <=> Asked(r) \/ Asks(Says(r))
      /\ Late(r)' <=> Late(r) \/ (Asked(r) /\ Proposes(Says(r)))
      /\ NoStageAfter(r) /\ (StageEvent(Says(r)) => Verdicts(r) = {}) => NoStageAfter(r)'
      /\ \A s \in Runs \ {r} : log'[s] = log[s]
  BY <1>0, <1>1, <1>2, LogGrows
<1>5. /\ Proposes(Says(r)) => StageEvent(Says(r)) /\ ~Verdict(Says(r))
      /\ todo'[r] # <<>> => ~Proposes(Head(todo'[r]))
  BY <1>3 DEF Proposes, StageEvent, Verdict, Loud
<1>6. pc[r] # "idle" /\ mem[r].status # "absent" /\ disk[r].status # "absent"
  BY <1>0, <1>1 DEF WorkerOK, ThreadOK
<1>7. ThreadStep(r, r)
  BY <1>0, <1>1, <1>2, <1>4, <1>6 DEF ThreadStep, Starting
<1>8. WorkerOK(r)'
  <2>1. ThreadOK(r)'
    BY <1>1, <1>2, <1>3, <1>6 DEF ThreadOK
  <2> QED BY <1>0, <1>2, <1>3, <1>5, <2>1 DEF WorkerOK, Says, Loud
<1>9. /\ ~Asks(Says(r)) /\ (Asked(r)' => Asked(r))
      /\ Verdict(Says(r)) => \/ pc[r] = "report" /\ Says(r).stage = "completed"
                             \/ pc[r] = "leaving" /\ Says(r).stage \in {"cancelled", "failed"}
      /\ StageEvent(Says(r)) => pc[r] \in {"work", "check", "complete"}
      /\ Proposes(Says(r)) => pc[r] = "check"
  BY <1>0, <1>1, <1>4 DEF WorkerOK
<1>10. /\ future[r] = "running" /\ future'[r] = "running" /\ ~Untouched(r)'
       /\ ~(pc[Service] = "unscheduled" /\ job[Service] = r)'
       /\ StatusOK(r)' /\ DocumentOK(r)' /\ PoolOK'
  BY <1>2, <1>6, <1>7, <1>9, BusyRun
<1>11. ~Owes(r)'
  BY <1>3 DEF Owes, Says, Loud
<1>12. Owes(r) <=> Verdict(Says(r))
  BY <1>1 DEF Owes
<1>13. LogOK(r)'
  <2>1. pc[r] \notin {"report", "leaving"} \/ Verdict(Says(r)) => Verdicts(r) = {}
    BY <1>0, <1>10, <1>12 DEF RunOK, LogOK
  <2>2. pc[r] = "load" => ~HasStage(r)' /\ Verdicts(r)' = {}
    BY <1>0, <1>4, <1>9, <2>1 DEF RunOK, LogOK
  <2>3. pc[r] \notin {"report", "leaving"} => Verdicts(r)' = {}
    BY <1>4, <1>9, <2>1
  <2>4. pc[r] \in {"report", "leaving"} => Verdicts(r)' # {} \/ ~HasStage(r)'
    BY <1>0, <1>4, <1>9, <1>12 DEF RunOK, LogOK
  <2>5. /\ Late(r)' => pc[r] \in {"check", "cancelling", "leaving", "idle"}
        /\ Late(r)' => HasStage(r)' /\ Asked(r)'
    BY <1>0, <1>4, <1>5, <1>9 DEF RunOK, LogOK
  <2>6. Late(r)' => "completed" \notin Verdicts(r)'
    BY <1>0, <1>4, <1>5, <1>9, <2>1, <2>5 DEF RunOK, LogOK
  <2>7. OneEach(r)'
    BY <1>0, <1>4, <2>1 DEF RunOK, LogOK, OneEach
  <2>8. NoStageAfter(r)'
    BY <1>0, <1>4, <1>9, <2>1 DEF RunOK, LogOK
  <2> QED BY <1>2, <1>10, <1>11, <2>2, <2>3, <2>4, <2>5, <2>6, <2>7, <2>8 DEF LogOK
<1> QED BY <1>7, <1>8, <1>10, <1>13, WorkerStepKeeps DEF RunOK

\* A canceller or the service writes an event.
LEMMA HelperAnnounces ==
    ASSUME VInv, IInv', NEW a \in Helpers, Announce(a)
    PROVE  VInv'
<1> USE RunLifecycleAssumption
<1>0. /\ TypeOK /\ Owners /\ IInv /\ HelperOK(a) /\ PoolOK /\ a \in Actors /\ a \notin Runs
      /\ Service \in Actors
  BY DEF VInv, IInv, CounterInv, Actors, Helpers
<1> DEFINE r == job[a]
           e == Says(a)
<1>1. todo[a] # <<>> /\ r \in Runs
  BY <1>0 DEF Announce, Owners, InUse
<1>2. RunOK(r) /\ WorkerOK(r) /\ r \in Actors
  BY <1>1 DEF VInv, Actors
<1>3. /\ todo'[a] = Tail(todo[a])
      /\ \A b \in Actors \ {a} : todo'[b] = todo[b] /\ mem'[b] = mem[b]
      /\ disk'[r].status = mem[a].status /\ mem'[a].status = mem[a].status
      /\ disk[r].cancel => disk'[r].cancel
      /\ \A s \in Runs \ {r} : disk'[s] = disk[s]
      /\ log' = [log EXCEPT ![r] = Appended(a)]
      /\ job' = job /\ pc' = pc /\ future' = future /\ queue' = queue /\ owned' = owned
  BY <1>0, <1>1, AnnounceEffect
<1>4. /\ \A i \in DOMAIN todo'[a] : ~Loud(todo'[a][i]) /\ ~Asks(todo'[a][i])
      /\ todo'[a] # <<>> => ~Loud(Head(todo'[a])) /\ ~Asks(Head(todo'[a]))
  BY <1>0, <1>1, <1>3, TailIsQuiet DEF TypeOK, HelperOK, ThreadOK
<1>5. ~StageEvent(e) /\ ~Proposes(e)
  BY <1>0, <1>1 DEF HelperOK, Proposes, StageEvent
<1>6. PICK q \in Runs : q = r
  BY <1>1
<1>7. /\ Verdicts(q)' = Verdicts(q) \cup (IF Verdict(e) THEN {e.stage} ELSE {})
      /\ HasStage(q)' <=> HasStage(q)
      /\ Asked(q)' <=> Asked(q) \/ Asks(e)
      /\ Late(q)' <=> Late(q)
      /\ NoStageAfter(q) => NoStageAfter(q)'
      /\ \A s \in Runs \ {q} : log'[s] = log[s]
  BY <1>0, <1>1, <1>3, <1>5, <1>6, LogGrows
<1>8. mem[a].status # "absent" /\ disk[q].status # "absent"
  BY <1>0, <1>1, <1>6 DEF HelperOK, ThreadOK
<1>9. ThreadStep(a, q)
  BY <1>0, <1>1, <1>3, <1>6, <1>7, <1>8 DEF ThreadStep, Starting
<1>10. HelperOK(a)'
  <2>1. ThreadOK(a)'
    BY <1>1, <1>3, <1>4, <1>8 DEF ThreadOK
  <2>2. disk[job[a]].cancel => disk'[job'[a]].cancel
    BY <1>3
  <2> QED BY <1>0, <1>1, <1>3, <1>4, <2>1, <2>2 DEF HelperOK, Says, Loud
\* Who the thread is, when it writes.
<1>11. /\ pc[a] \in {"creating", "queueing", "unscheduled", "recovering", "future", "settled"}
       /\ pc[a] \in {"creating", "queueing", "unscheduled", "recovering"} => a = Service
       /\ pc[a] \in {"creating", "queueing", "unscheduled"} => future[q] = "none"
       /\ pc[a] = "recovering" => Starting /\ future[q] = "none"
       /\ pc[a] = "settled" => future[q] = "cancelled" /\ mem[a].status = "cancelled"
       /\ pc[a] = "unscheduled" => mem[a].status = "interrupted"
       /\ pc[a] \in {"future", "settled"} => disk'[q].cancel
       /\ Asks(e) => pc[a] = "future"
       /\ Verdict(e) => \/ pc[a] = "settled" /\ e.stage = "cancelled"
                        \/ pc[a] \in {"unscheduled", "recovering"} /\ e.stage = "interrupted"
  <2>1. pc[a] \in {"creating", "queueing", "unscheduled", "recovering", "future", "settled"}
    BY <1>0, <1>1 DEF HelperOK
  <2>2. pc[a] \in {"creating", "queueing", "unscheduled", "recovering"} => a = Service
    BY <1>0 DEF Owners, CancellerPCs, Helpers
  <2>3. pc[a] = "recovering" => Starting /\ future[q] = "none"
    BY <1>0, <2>2 DEF Starting, PoolOK
  <2>4. pc[a] \in {"future", "settled"} => disk'[q].cancel
    BY <1>0, <1>3, <1>6 DEF HelperOK
  <2> QED BY <1>0, <1>1, <1>6, <2>1, <2>2, <2>3, <2>4 DEF HelperOK
<1>12. pc[q] = "idle" <=> future[q] # "running"
  BY <1>2, <1>6 DEF WorkerOK
<1>13. Verdict(e) => ~Untouched(q)
  <2>1. Submitting(q) => future[q] = "none"
    <3>1. HelperOK(Service)
      BY DEF VInv, Helpers
    <3> QED BY <3>1 DEF Submitting, HelperOK
  <2>2. a = Service /\ pc[a] \in {"unscheduled", "recovering"} => ~Submitting(q)
    BY DEF Submitting
  <2> QED BY <1>11, <2>1, <2>2 DEF Untouched
<1>14. LogOK(q)'
  <2>1. LogOK(q)
    BY <1>2, <1>6 DEF RunOK
  <2>2. Untouched(q)' = Untouched(q) /\ Owes(q)' = Owes(q)
    <3>1. q # a
      BY <1>0
    <3> QED BY <1>2, <1>3, <1>6, <3>1 DEF Untouched, Submitting, Owes, Says, Actors
  <2>3. \/ Verdicts(q)' = Verdicts(q)
        \/ Verdicts(q)' = Verdicts(q) \cup {e.stage} /\ Verdict(e)
    BY <1>7
  <2>4. Untouched(q)' \/ pc'[q] = "load" => ~HasStage(q)' /\ Verdicts(q)' = {}
    BY <1>3, <1>7, <1>11, <1>12, <1>13, <2>1, <2>2, <2>3 DEF LogOK
  <2>5. future'[q] = "cancelled" => ~HasStage(q)' /\ Verdicts(q)' \subseteq {"cancelled"}
    BY <1>3, <1>7, <1>11, <2>1, <2>3 DEF LogOK
  <2>6. future'[q] = "running" /\ (pc'[q] \notin {"report", "leaving"} \/ Owes(q)') =>
           Verdicts(q)' = {}
    BY <1>3, <1>11, <2>1, <2>2, <2>3 DEF LogOK
  <2>7. future'[q] = "done" \/ (pc'[q] \in {"report", "leaving"} /\ ~Owes(q)') =>
           Verdicts(q)' # {} \/ ~HasStage(q)'
    BY <1>3, <1>7, <2>1, <2>2, <2>3 DEF LogOK
  <2>8. Late(q)' => /\ pc'[q] \in {"check", "cancelling", "leaving", "idle"}
                    /\ HasStage(q)' /\ Asked(q)' /\ "completed" \notin Verdicts(q)'
    BY <1>3, <1>7, <1>11, <2>1, <2>3 DEF LogOK
  <2>9. OneEach(q)'
    BY <1>11, <2>1, <2>3 DEF LogOK, OneEach
  <2> QED BY <1>3, <1>7, <2>1, <2>4, <2>5, <2>6, <2>7, <2>8, <2>9 DEF LogOK
<1>15. DocumentOK(q)'
  BY <1>2, <1>3, <1>6, <1>7, <1>8, <1>11 DEF RunOK, DocumentOK
<1>16. StatusOK(q)'
  <2>1. StatusOK(q) /\ job[a] = q
    BY <1>2, <1>6 DEF RunOK
  <2>2. Untouched(q)' = Untouched(q) /\ Submitting(q)' = Submitting(q) /\ Starting' = Starting
    BY <1>3 DEF Untouched, Submitting, Starting
  <2>3. \A S : Shows(q, S) => Shows(q, S)'
    <3> SUFFICES ASSUME NEW S, Shows(q, S) PROVE Shows(q, S)'
      OBVIOUS
    <3>1. mem[a].status \in S /\ \A b \in Actors : job[b] = q => mem[b].status \in S
      BY <1>0, <2>1 DEF Shows
    <3>2. \A b \in Actors : mem'[b].status = mem[b].status
      BY <1>3
    <3> QED BY <1>3, <1>6, <3>1, <3>2 DEF Shows
  <2>4. ASSUME future[q] = "cancelled"
        PROVE  disk'[q].status = "cancelled" \/ \E b \in Helpers : Responsible(b, q)'
    <3>1. CASE pc[a] = "future"
      BY <1>3, <2>1, <3>1 DEF Responsible
    <3>2. CASE pc[a] # "future"
      BY <1>3, <1>6, <1>11, <2>4, <3>2
    <3> QED BY <3>1, <3>2
  <2>5. future[q] = "none" /\ disk'[q].status \in ActiveStatuses /\ ~disk'[q].cancel =>
           Starting \/ Submitting(q)
    BY <1>3, <1>6, <1>11, <2>1 DEF Submitting, ActiveStatuses
  <2> QED BY <1>3, <1>7, <2>1, <2>2, <2>3, <2>4, <2>5 DEF StatusOK
<1>17. PoolOK'
  BY <1>0, <1>3 DEF PoolOK, Starting
<1> QED BY <1>9, <1>10, <1>14, <1>15, <1>16, <1>17, HelperStepKeeps DEF RunOK

-----------------------------------------------------------------------------
(* RunService.cancel.                                                        *)

\* What is left to show of a step of cancel() on Run q.
LEMMA CancelKeeps ==
    ASSUME VInv, IInv', NEW a \in Helpers, NEW q \in Runs, UNCHANGED <<log, queue>>, ~Starting,
           owned' \subseteq owned,
           \A b \in Actors \ {a} :
              pc'[b] = pc[b] /\ todo'[b] = todo[b] /\ mem'[b] = mem[b] /\ job'[b] = job[b],
           \A s \in Runs \ {q} : disk'[s] = disk[s] /\ future'[s] = future[s],
           job[a] \in {q, NoRun}, job'[a] \in {q, NoRun},
           {pc[a], pc'[a]} \cap
              {"creating", "queueing", "unscheduled", "recovering", "down", "closed"} = {},
           future'[q] = future[q] \/ (future[q] = "pending" /\ future'[q] = "cancelled"),
           disk[q].cancel => disk'[q].cancel, disk'[q].status # "absent",
           HelperOK(a)',
           \A S : Shows(q, S) => \/ Shows(q, S)'
                                 \/ future[q] = "cancelled" /\ Shows(q, S \cup {"cancelled"})',
           future[q] # "cancelled" /\ future'[q] = "cancelled" => Responsible(a, q)',
           disk[q].status = "cancelled" => disk'[q].status = "cancelled" \/ Responsible(a, q)',
           Responsible(a, q) /\ future'[q] = "cancelled" =>
              disk'[q].status = "cancelled" \/ Responsible(a, q)',
           disk'[q].status \in ActiveStatuses =>
              disk[q].status \in ActiveStatuses \/ disk'[q].cancel
    PROVE  VInv'
<1> USE RunLifecycleAssumption
<1>0. /\ RunOK(q) /\ WorkerOK(q) /\ HelperOK(Service) /\ PoolOK /\ Service \in Actors
      /\ a \in Actors /\ a \notin Runs /\ q \in Actors /\ q # a /\ Helpers \subseteq Actors
      /\ Cancellers \subseteq Actors
  BY DEF VInv, Actors, Helpers
<1>1. /\ Starting' <=> Starting
      /\ Submitting(q)' <=> Submitting(q)
      /\ (pc[Service] = "unscheduled" /\ job[Service] = q)'
            <=> (pc[Service] = "unscheduled" /\ job[Service] = q)
  BY <1>0 DEF Starting, Submitting
<1>2. /\ Verdicts(q)' = Verdicts(q) /\ HasStage(q)' = HasStage(q)
      /\ Asked(q)' = Asked(q) /\ Late(q)' = Late(q)
      /\ OneEach(q)' = OneEach(q) /\ NoStageAfter(q)' = NoStageAfter(q)
  BY SameLog
<1>3. pc[q] = "idle" <=> future[q] # "running"
  BY <1>0 DEF WorkerOK
<1>4. ThreadStep(a, q)
  BY <1>0, <1>1 DEF ThreadStep
<1>5. Untouched(q)' => Untouched(q)
  BY <1>1 DEF Untouched
<1>6. pc'[q] = pc[q] /\ Owes(q)' = Owes(q)
  BY <1>0 DEF Owes, Says
<1>7. LogOK(q)'
  <2>1. LogOK(q)
    BY <1>0 DEF RunOK
  <2>2. CASE future'[q] = future[q]
    BY <1>1, <1>2, <1>5, <1>6, <2>1, <2>2 DEF LogOK
  <2>3. CASE future[q] = "pending" /\ future'[q] = "cancelled"
    BY <1>1, <1>2, <1>3, <1>5, <1>6, <2>1, <2>3 DEF LogOK, Untouched
  <2> QED BY <2>2, <2>3
<1>8. DocumentOK(q)'
  BY <1>0, <1>2 DEF RunOK, DocumentOK
<1>9. StatusOK(q)'
  <2>1. StatusOK(q)
    BY <1>0 DEF RunOK
  <2>2. Untouched(q)' => Shows(q, ActiveStatuses)'
    <3>1. Submitting(q) => future[q] = "none"
      BY <1>0 DEF Submitting, HelperOK
    <3>2. Untouched(q)' => Untouched(q) /\ future[q] # "cancelled"
      BY <1>1, <1>5, <3>1 DEF Untouched
    <3> QED BY <2>1, <3>2 DEF StatusOK
  <2>3. ASSUME future'[q] = "cancelled"
        PROVE  Shows(q, ActiveStatuses \cup {"cancelled"})'
    <3>1. Shows(q, ActiveStatuses \cup {"cancelled"})
      <4>1. CASE future[q] = "cancelled"
        BY <2>1, <4>1 DEF StatusOK
      <4>2. CASE future[q] = "pending"
        BY <2>1, <4>2 DEF StatusOK, Untouched, Shows
      <4> QED BY <2>3, <4>1, <4>2
    <3>2. (ActiveStatuses \cup {"cancelled"}) \cup {"cancelled"}
             = ActiveStatuses \cup {"cancelled"}
      OBVIOUS
    <3> QED BY <3>1, <3>2
  <2>4. ASSUME future'[q] = "cancelled"
        PROVE  disk'[q].status = "cancelled" \/ \E b \in Helpers : Responsible(b, q)'
    <3>1. CASE future[q] # "cancelled"
      BY <2>4, <3>1
    <3>2. CASE disk[q].status = "cancelled"
      BY <3>2
    <3>3. ASSUME NEW b \in Helpers, Responsible(b, q)
          PROVE  disk'[q].status = "cancelled" \/ \E c \in Helpers : Responsible(c, q)'
      <4>1. CASE b = a
        BY <2>4, <3>3, <4>1
      <4>2. CASE b # a
        BY <1>0, <3>3, <4>2 DEF Responsible
      <4> QED BY <4>1, <4>2
    <3> QED BY <2>1, <3>1, <3>2, <3>3 DEF StatusOK
  <2>5. future'[q] = "none" => future[q] = "none"
    OBVIOUS
  <2>6. future'[q] = "none" /\ HasStage(q)' /\ ~Starting' => Shows(q, TerminalStatuses)'
    BY <1>2, <2>1, <2>5 DEF StatusOK
  <2>7. future'[q] = "none" /\ disk'[q].status \in ActiveStatuses /\ ~disk'[q].cancel =>
           Starting' \/ Submitting(q)'
    BY <1>1, <2>1, <2>5 DEF StatusOK
  <2> QED BY <2>2, <2>3, <2>4, <2>6, <2>7 DEF StatusOK
<1>10. PoolOK'
  <2>1. pc'[Service] = "closed" => pc[Service] = "closed"
    BY <1>0
  <2>2. \A s \in Runs : future'[s] = future[s] \/ future'[s] = "cancelled"
    OBVIOUS
  <2> QED BY <1>0, <1>1, <2>1, <2>2 DEF PoolOK
<1> QED BY <1>4, <1>7, <1>8, <1>9, <1>10, HelperStepKeeps DEF RunOK

\* The steps of cancel() on the Run the thread has loaded.
LEMMA CancelSteps ==
    ASSUME VInv, IInv', NEW a \in Helpers,
           \/ RequestCancel(a) \/ RefuseCancel(a) \/ CancelFuture(a) \/ LeaveToWorker(a)
           \/ ReloadLatest(a) \/ CancelRun(a) \/ CancelTooLate(a) \/ CancelReturns(a)
    PROVE  VInv'
<1> USE RunLifecycleAssumption DEF At, Goto, pool, persisted
<1>0. /\ TypeOK /\ Owners /\ IInv /\ HelperOK(a) /\ PoolOK /\ a \in Actors /\ a \notin Runs
      /\ Service \in Actors
  BY DEF VInv, IInv, CounterInv, Actors, Helpers
<1>1. pc[a] \in {"request", "future", "latest", "settle", "settled"} /\ todo[a] = <<>>
  BY <1>0 DEF RequestCancel, RefuseCancel, CancelFuture, LeaveToWorker, ReloadLatest, CancelRun,
              CancelTooLate, CancelReturns
<1>2. PICK q \in Runs : job[a] = q
  BY <1>0, <1>1 DEF Owners, InUse
<1>3. RunOK(q) /\ WorkerOK(q) /\ q # a /\ q # NoRun /\ mem[a].status # "absent"
      /\ disk[q].status # "absent"
  BY <1>0, <1>2 DEF VInv, HelperOK, ThreadOK
<1>4. ~Starting
  BY <1>0, <1>1, <1>2, <1>3 DEF PoolOK, Starting, Helpers
<1>5. log' = log /\ queue' = queue /\ owned' = owned
  BY DEF RequestCancel, RefuseCancel, CancelFuture, LeaveToWorker, ReloadLatest, CancelRun,
         CancelTooLate, CancelReturns, Finish
<1>6. /\ \A b \in Actors \ {a} : pc'[b] = pc[b] /\ job'[b] = job[b]
      /\ pc'[a] \in {"future", "latest", "settle", "settled", "closing", "spent"}
      /\ job'[a] \in {q, NoRun}
  BY <1>0, <1>2 DEF RequestCancel, RefuseCancel, CancelFuture, LeaveToWorker, ReloadLatest,
         CancelRun, CancelTooLate, CancelReturns, Finish, Home, TypeOK
<1>7. \A s \in Runs \ {q} : future'[s] = future[s]
  BY <1>0, <1>2 DEF RequestCancel, RefuseCancel, CancelFuture, LeaveToWorker, ReloadLatest,
         CancelRun, CancelTooLate, CancelReturns, Finish, TypeOK
<1>8. {pc[a], pc'[a]} \cap
         {"creating", "queueing", "unscheduled", "recovering", "down", "closed"} = {}
  BY <1>1, <1>6
<1>p. \A p : pc' = [pc EXCEPT ![a] = p] => pc'[a] = p
  BY <1>0 DEF TypeOK
<1>j. job' = job => job'[a] = q
  BY <1>2
\* Steps that save nothing: the thread keeps its copy, or takes it afresh.
<1>9. ASSUME disk' = disk, todo' = todo, job' = job,
             \A b \in Actors \ {a} : mem'[b] = mem[b],
             mem'[a].status \in {mem[a].status, disk[q].status},
             future'[q] = future[q] \/ (future[q] = "pending" /\ future'[q] = "cancelled"),
             pc'[a] \in {"latest", "settle", "settled"} =>
                future'[q] = "cancelled" /\ disk[q].cancel,
             pc'[a] \notin {"future", "closing", "spent"},
             future[q] # "cancelled" /\ future'[q] = "cancelled" => Responsible(a, q)',
             Responsible(a, q) => disk[q].status = "cancelled" \/ Responsible(a, q)'
      PROVE  VInv'
  <2>1. \A S : Shows(q, S) => Shows(q, S)'
    <3> SUFFICES ASSUME NEW S, Shows(q, S) PROVE Shows(q, S)'
      OBVIOUS
    <3>1. disk[q].status \in S /\ mem[a].status \in S /\ mem'[a].status \in S
      BY <1>0, <1>2, <1>9 DEF Shows
    <3> QED BY <1>9, <3>1 DEF Shows
  <2>2. HelperOK(a)'
    BY <1>0, <1>1, <1>2, <1>3, <1>6, <1>8, <1>9 DEF HelperOK, ThreadOK
  <2>3. \A b \in Actors \ {a} :
           pc'[b] = pc[b] /\ todo'[b] = todo[b] /\ mem'[b] = mem[b] /\ job'[b] = job[b]
    BY <1>6, <1>9
  <2>4. /\ \A s \in Runs \ {q} : disk'[s] = disk[s] /\ future'[s] = future[s]
        /\ disk'[q] = disk[q]
    BY <1>7, <1>9
  <2> QED BY <1>2, <1>3, <1>4, <1>5, <1>6, <1>8, <1>9, <2>1, <2>2, <2>3, <2>4, CancelKeeps
\* Steps that let go of the Run.
<1>10. ASSUME disk' = disk, todo' = todo, future' = future, Finish(a),
             ~Responsible(a, q) \/ future[q] # "cancelled"
       PROVE  VInv'
  <2>1. /\ job'[a] = NoRun /\ pc'[a] \in {"closing", "spent"}
        /\ \A b \in Actors \ {a} : mem'[b] = mem[b]
    BY <1>0, <1>10 DEF Finish, Home, TypeOK
  <2>2. \A S : Shows(q, S) => Shows(q, S)'
    BY <1>0, <1>3, <1>6, <1>10, <2>1 DEF Shows
  <2>3. HelperOK(a)'
    BY <1>0, <1>1, <1>10, <2>1 DEF HelperOK, ThreadOK
  <2>4. \A b \in Actors \ {a} :
           pc'[b] = pc[b] /\ todo'[b] = todo[b] /\ mem'[b] = mem[b] /\ job'[b] = job[b]
    BY <1>6, <1>10, <2>1
  <2>5. /\ \A s \in Runs \ {q} : disk'[s] = disk[s] /\ future'[s] = future[s]
        /\ disk'[q] = disk[q] /\ future'[q] = future[q]
    BY <1>10
  <2> QED BY <1>2, <1>3, <1>4, <1>5, <1>6, <1>8, <1>10, <2>2, <2>3, <2>4, <2>5, CancelKeeps
<1>11. CASE RequestCancel(a)
  <2> DEFINE m == [mem[a] EXCEPT !.cancel = TRUE]
             e == Note("cancel_requested", mem[a].status)
  <2>0. mem[a] \in States
    BY <1>0 DEF TypeOK
  <2>1. m \in States /\ m.status = mem[a].status /\ m.cancel = TRUE
    BY <2>0 DEF States
  <2>2. Save(a, q, m) /\ mem[a].status \in ActiveStatuses
    BY <1>2, <1>11 DEF RequestCancel
  <2>h. /\ pc'[a] = "future" /\ future' = future /\ job' = job
        /\ todo'[a] = <<e>> /\ \A b \in Actors \ {a} : todo'[b] = todo[b]
    BY <1>0, <1>11, <1>p DEF RequestCancel, TypeOK
  <2> HIDE DEF m, Save
  <2>3. /\ disk'[q].status = mem[a].status /\ mem'[a].status = mem[a].status
        /\ disk'[q].cancel
        /\ \A s \in Runs \ {q} : disk'[s] = disk[s]
        /\ \A b \in Actors \ {a} : mem'[b] = mem[b]
    BY <1>0, <2>1, <2>2, SaveEffect
  <2>4. /\ todo'[a] # <<>> /\ Head(todo'[a]) = e /\ DOMAIN todo'[a] = 1 .. 1
    BY <2>h, Spoken
  <2>5. ~Loud(e) /\ Asks(e)
    BY Meaning
  <2>6. HelperOK(a)'
    <3>1. ThreadOK(a)'
      BY <1>2, <1>3, <2>3, <2>4, <2>h DEF ThreadOK
    <3> QED BY <1>2, <2>3, <2>4, <2>5, <2>h, <3>1 DEF HelperOK, Says, Loud
  <2>7. \A S : Shows(q, S) => Shows(q, S)'
    <3> SUFFICES ASSUME NEW S, Shows(q, S) PROVE Shows(q, S)'
      OBVIOUS
    <3>1. mem[a].status \in S
      BY <1>0, <1>2 DEF Shows
    <3> QED BY <2>3, <2>h, <3>1 DEF Shows
  <2>8. Responsible(a, q)'
    BY <1>2, <2>h DEF Responsible
  <2> QED BY <1>2, <1>3, <1>4, <1>5, <1>6, <1>8, <2>3, <2>6, <2>7, <2>8, <2>h, CancelKeeps
<1>12. CASE RefuseCancel(a)
  <2>1. pc[a] = "request" /\ disk' = disk /\ todo' = todo /\ future' = future /\ Finish(a)
    BY <1>12 DEF RefuseCancel
  <2> QED BY <1>10, <2>1 DEF Responsible
<1>13. CASE CancelFuture(a)
  <2>1. /\ pc[a] = "future" /\ pc'[a] = "latest" /\ future'[q] = "cancelled"
        /\ future[q] \in {"pending", "cancelled"}
        /\ disk' = disk /\ todo' = todo /\ job' = job /\ mem' = mem
    BY <1>0, <1>2, <1>13, <1>p DEF CancelFuture, Cancellable, TypeOK
  <2>2. Responsible(a, q)' /\ disk[q].cancel
    BY <1>0, <1>2, <2>1 DEF Responsible, HelperOK
  <2> QED BY <1>9, <2>1, <2>2
<1>14. CASE LeaveToWorker(a)
  <2>1. pc[a] = "future" /\ disk' = disk /\ todo' = todo /\ future' = future /\ Finish(a)
        /\ future[q] # "cancelled"
    BY <1>2, <1>14 DEF LeaveToWorker, Cancellable
  <2> QED BY <1>10, <2>1
<1>15. CASE ReloadLatest(a)
  <2>1. /\ pc[a] = "latest" /\ pc'[a] = "settle" /\ future' = future
        /\ disk' = disk /\ todo' = todo /\ job' = job /\ mem'[a] = Loaded(q)
        /\ \A b \in Actors \ {a} : mem'[b] = mem[b]
    BY <1>0, <1>2, <1>15, <1>p DEF ReloadLatest, TypeOK
  <2>2. mem'[a].status = disk[q].status
    BY <1>0, <2>1, LoadedFacts
  <2>3. future[q] = "cancelled" /\ disk[q].cancel
    BY <1>0, <1>2, <2>1 DEF HelperOK
  <2>4. disk[q].status = "cancelled" \/ Responsible(a, q)'
    <3>1. disk[q].status \in ActiveStatuses \cup {"cancelled"}
      BY <1>3, <2>3 DEF RunOK, StatusOK, Shows
    <3> QED BY <1>2, <2>1, <2>2, <3>1 DEF Responsible
  <2> QED BY <1>9, <2>1, <2>2, <2>3, <2>4
<1>16. CASE CancelRun(a)
  <2>1. /\ pc[a] = "settle" /\ pc'[a] = "settled" /\ future' = future /\ job' = job
        /\ Transition(a, "cancelled", <<Note("cancelled", "cancelled")>>)
    BY <1>0, <1>16, <1>p DEF CancelRun
  <2>2. future[q] = "cancelled" /\ disk[q].cancel
    BY <1>0, <1>2, <2>1 DEF HelperOK
  <2>3. /\ disk'[q].status = "cancelled" /\ mem'[a].status = "cancelled" /\ disk'[q].cancel
        /\ \A s \in Runs \ {q} : disk'[s] = disk[s]
        /\ \A b \in Actors \ {a} : mem'[b] = mem[b] /\ todo'[b] = todo[b]
        /\ todo'[a] = <<StatusChanged("cancelled")>> \o <<Note("cancelled", "cancelled")>>
    BY <1>0, <1>2, <2>1, <2>2, TransitionEffect DEF Statuses, TerminalStatuses
  <2>4. /\ todo'[a] # <<>> /\ Head(todo'[a]) = StatusChanged("cancelled")
        /\ \A i \in DOMAIN todo'[a] : i > 1 => todo'[a][i] = Note("cancelled", "cancelled")
    BY <2>3, Spoken
  <2>5. /\ ~Loud(Note("cancelled", "cancelled")) /\ ~Asks(Note("cancelled", "cancelled"))
        /\ ~StageEvent(StatusChanged("cancelled")) /\ ~Asks(StatusChanged("cancelled"))
        /\ StatusChanged("cancelled").stage = "cancelled"
    <3>1. "cancelled" \notin ActiveStatuses
      BY DEF ActiveStatuses
    <3>2. ~Loud(Note("cancelled", "cancelled")) /\ ~Asks(Note("cancelled", "cancelled"))
      BY Meaning
    <3> QED BY <3>1, <3>2, Meaning
  <2>6. HelperOK(a)'
    <3>1. ThreadOK(a)'
      BY <1>2, <2>1, <2>3, <2>4, <2>5 DEF ThreadOK
    <3> QED BY <1>2, <2>1, <2>2, <2>3, <2>4, <2>5, <3>1 DEF HelperOK, Says
  <2>7. \A S : Shows(q, S) => Shows(q, S \cup {"cancelled"})'
    BY <2>1, <2>3 DEF Shows
  <2>8. disk'[q].status \notin ActiveStatuses
    BY <2>3 DEF ActiveStatuses
  <2>9. \A S : Shows(q, S) => \/ Shows(q, S)'
                              \/ future[q] = "cancelled" /\ Shows(q, S \cup {"cancelled"})'
    BY <2>2, <2>7
  <2>10. \A b \in Actors \ {a} :
            pc'[b] = pc[b] /\ todo'[b] = todo[b] /\ mem'[b] = mem[b] /\ job'[b] = job[b]
    BY <1>6, <2>3
  <2>11. /\ UNCHANGED <<log, queue>> /\ owned' \subseteq owned
         /\ \A s \in Runs \ {q} : disk'[s] = disk[s] /\ future'[s] = future[s]
         /\ job[a] \in {q, NoRun} /\ job'[a] \in {q, NoRun}
         /\ future'[q] = future[q]
         /\ disk'[q].cancel /\ disk'[q].status # "absent"
    BY <1>2, <1>5, <1>6, <1>7, <2>1, <2>3
  <2> QED BY <1>4, <1>8, <2>2, <2>3, <2>6, <2>8, <2>9, <2>10, <2>11, CancelKeeps
<1>17. CASE CancelTooLate(a)
  <2>1. /\ pc[a] = "settle" /\ pc'[a] = "settled" /\ future' = future
        /\ disk' = disk /\ todo' = todo /\ job' = job /\ mem' = mem
        /\ "cancelled" \notin AllowedTransitions[mem[a].status]
    BY <1>17, <1>p DEF CancelTooLate, CanBecome
  <2>2. future[q] = "cancelled" /\ disk[q].cancel
    BY <1>0, <1>2, <2>1 DEF HelperOK
  <2>3. mem[a].status \notin ActiveStatuses
    BY <2>1 DEF AllowedTransitions, Stopped, Statuses, ActiveStatuses
  <2>4. ~Responsible(a, q)
    BY <2>1, <2>3 DEF Responsible
  <2> QED BY <1>9, <2>1, <2>2, <2>4
<1>18. CASE CancelReturns(a)
  <2>1. pc[a] = "settled" /\ disk' = disk /\ todo' = todo /\ future' = future /\ Finish(a)
    BY <1>18 DEF CancelReturns
  <2> QED BY <1>10, <2>1 DEF Responsible
<1> QED BY <1>11, <1>12, <1>13, <1>14, <1>15, <1>16, <1>17, <1>18

\* A thread loads the Run it was asked to cancel, close() a Run it owns.
LEMMA LoadSteps ==
    ASSUME VInv, IInv', NEW a \in Helpers, NEW q \in Runs,
           \/ CancelLoad(a, q)
           \/ a = Service /\ (CloseAsks(q) \/ CloseSettles(q))
    PROVE  VInv'
<1> USE RunLifecycleAssumption DEF At, Goto, pool, persisted
<1>0. /\ TypeOK /\ Owners /\ IInv /\ HelperOK(a) /\ PoolOK /\ a \in Actors /\ a \notin Runs
      /\ Service \in Actors /\ RunOK(q) /\ WorkerOK(q) /\ q # NoRun
  BY DEF VInv, IInv, CounterInv, Actors, Helpers
<1>1. /\ \A b \in Actors \ {a} :
            pc'[b] = pc[b] /\ todo'[b] = todo[b] /\ mem'[b] = mem[b] /\ job'[b] = job[b]
      /\ job'[a] = q /\ mem'[a] = Loaded(q) /\ todo'[a] = <<>> /\ todo[a] = <<>>
      /\ \A s \in Runs \ {q} : future'[s] = future[s]
      /\ disk' = disk /\ log' = log /\ queue' = queue /\ owned' \subseteq owned
  BY <1>0 DEF CancelLoad, CloseAsks, CloseSettles, TypeOK
<1>2. /\ pc[a] \in {"ready", "load", "closing"} /\ pc'[a] \in {"request", "load", "settle"}
      /\ job[a] \in {q, NoRun} /\ ~Starting
  <2>1. CASE CancelLoad(a, q)
    <3>1. pc[a] \in {"ready", "load"} /\ pc'[a] = "request" /\ ~Starting
      BY <1>0, <2>1 DEF CancelLoad, Alive, Starting, TypeOK
    <3>2. pc[a] = "ready" => job[a] = NoRun
      BY <1>0 DEF HelperOK
    <3> QED BY <2>1, <3>1, <3>2 DEF CancelLoad
  <2>2. CASE a = Service /\ (CloseAsks(q) \/ CloseSettles(q))
    <3>1. pc[a] = "closing" /\ pc'[a] \in {"load", "settle"}
      BY <1>0, <2>2 DEF CloseAsks, CloseSettles, TypeOK
    <3>2. job[a] = NoRun /\ ~Starting
      BY <1>0, <2>2, <3>1 DEF HelperOK, Starting
    <3> QED BY <3>1, <3>2
  <2> QED BY <2>1, <2>2
<1>3. disk[q].status # "absent"
  BY <1>0 DEF CancelLoad, CloseAsks, CloseSettles, RunOK, DocumentOK
<1>4. mem'[a].status = disk[q].status
  BY <1>0, <1>1, LoadedFacts
<1>5. \A S : Shows(q, S) => Shows(q, S)'
  BY <1>1, <1>4 DEF Shows
<1>6. ~Responsible(a, q)
  BY <1>2 DEF Responsible
<1>7. ThreadOK(a)'
  BY <1>1, <1>3, <1>4 DEF ThreadOK
<1>8. {pc[a], pc'[a]} \cap
         {"creating", "queueing", "unscheduled", "recovering", "down", "closed"} = {}
  BY <1>2
<1>9. CASE CancelLoad(a, q) \/ CloseAsks(q)
  <2>1. future' = future /\ pc'[a] \in {"request", "load"}
    BY <1>0, <1>9 DEF CancelLoad, CloseAsks, TypeOK
  <2>2. HelperOK(a)'
    BY <1>1, <1>7, <2>1 DEF HelperOK
  <2> QED BY <1>1, <1>2, <1>3, <1>5, <1>6, <1>8, <2>1, <2>2, CancelKeeps
<1>10. CASE a = Service /\ CloseSettles(q)
  <2>1. /\ pc'[a] = "settle" /\ future'[q] = "cancelled" /\ disk[q].cancel
        /\ future[q] \in {"pending", "cancelled"}
    BY <1>0, <1>10 DEF CloseSettles, Cancellable, TypeOK
  <2>2. HelperOK(a)'
    BY <1>1, <1>7, <2>1 DEF HelperOK
  <2>3. future[q] = "pending" => Responsible(a, q)'
    <3>1. future[q] = "pending" => disk[q].status \in ActiveStatuses
      BY <1>0 DEF RunOK, StatusOK, Untouched, Shows
    <3> QED BY <1>1, <1>4, <2>1, <3>1 DEF Responsible
  <2> QED BY <1>1, <1>2, <1>3, <1>5, <1>6, <1>8, <2>1, <2>2, <2>3, CancelKeeps
<1> QED BY <1>9, <1>10

-----------------------------------------------------------------------------
(* RunService.submit.                                                        *)

\* What is left to show of a step of submit() on Run q.
LEMMA SubmitKeeps ==
    ASSUME VInv, IInv', NEW q \in Runs, log' = log, owned' = owned,
           pc[Service] \in {"open", "creating", "queueing", "unscheduled"},
           pc'[Service] \in {"open", "creating", "queueing", "unscheduled"},
           \A b \in Actors \ {Service} :
              pc'[b] = pc[b] /\ todo'[b] = todo[b] /\ mem'[b] = mem[b] /\ job'[b] = job[b],
           \A s \in Runs \ {q} : disk'[s] = disk[s] /\ future'[s] = future[s],
           job[Service] \in {q, NoRun}, job'[Service] \in {q, NoRun},
           future[q] = "none", future'[q] \in {"none", "pending"},
           disk[q].cancel => disk'[q].cancel, disk'[q].status # "absent",
           HelperOK(Service)',
           Untouched(q)' => ~HasStage(q) /\ Verdicts(q) = {} /\ Shows(q, ActiveStatuses)',
           pc'[Service] = "unscheduled" => ~HasStage(q),
           future'[q] = "none" => ~HasStage(q) \/ Shows(q, TerminalStatuses)',
           future'[q] = "none" /\ disk'[q].status \in ActiveStatuses /\ ~disk'[q].cancel =>
              Submitting(q)'
    PROVE  VInv'
<1> USE RunLifecycleAssumption
<1>0. /\ RunOK(q) /\ WorkerOK(q) /\ PoolOK /\ Service \in Actors /\ Service \in Helpers
      /\ Service \notin Runs /\ q \in Actors /\ q # Service /\ Owners
      /\ Cancellers \subseteq Actors /\ Service \notin Cancellers
  BY DEF VInv, IInv, CounterInv, Actors, Helpers
<1>1. ~Starting /\ ~Starting'
  BY DEF Starting
<1>2. /\ Verdicts(q)' = Verdicts(q) /\ HasStage(q)' = HasStage(q)
      /\ Asked(q)' = Asked(q) /\ Late(q)' = Late(q)
      /\ OneEach(q)' = OneEach(q) /\ NoStageAfter(q)' = NoStageAfter(q)
  BY SameLog
<1>3. pc[q] = "idle" /\ pc'[q] = "idle"
  BY <1>0 DEF WorkerOK
<1>4. ThreadStep(Service, q)
  BY <1>0, <1>1 DEF ThreadStep
<1>5. LogOK(q)'
  <2>1. LogOK(q)
    BY <1>0 DEF RunOK
  <2>2. /\ pc'[q] \notin {"load", "report", "leaving"}
        /\ future'[q] \notin {"cancelled", "running", "done"}
    BY <1>3
  <2> QED BY <1>2, <1>3, <2>1, <2>2 DEF LogOK
<1>6. DocumentOK(q)'
  BY <1>0, <1>2 DEF RunOK, DocumentOK
<1>7. StatusOK(q)'
  BY <1>0, <1>1, <1>2 DEF RunOK, StatusOK, Shows
<1>8. PoolOK'
  BY <1>1 DEF PoolOK
<1> QED BY <1>0, <1>4, <1>5, <1>6, <1>7, <1>8, HelperStepKeeps DEF RunOK

\* An empty log says nothing.
LEMMA EmptyLog ==
    ASSUME NEW r \in Runs, log[r] = <<>>
    PROVE  /\ Verdicts(r) = {} /\ ~HasStage(r) /\ ~Asked(r) /\ ~Late(r)
           /\ OneEach(r) /\ NoStageAfter(r)
<1>1. DOMAIN log[r] = {}
  OBVIOUS
<1>2. Verdicts(r) = {}
  BY <1>1 DEF Verdicts
<1> QED BY <1>1, <1>2 DEF HasStage, Asked, Late, OneEach, NoStageAfter

\* The steps of submit().
LEMMA SubmitSteps ==
    ASSUME VInv, IInv',
           \/ \E r \in Runs : Submit(r)
           \/ Queue \/ Schedule \/ ScheduleFails \/ SubmitRaises
    PROVE  VInv'
<1> USE RunLifecycleAssumption DEF At, Goto, pool, persisted
<1> DEFINE a == Service
<1>0. /\ TypeOK /\ Owners /\ IInv /\ HelperOK(a) /\ PoolOK /\ a \in Actors /\ a \notin Runs
      /\ Runs \subseteq Actors
  BY DEF VInv, IInv, CounterInv, Actors, Helpers
<1>1. /\ \A b \in Actors \ {a} :
            pc'[b] = pc[b] /\ todo'[b] = todo[b] /\ mem'[b] = mem[b] /\ job'[b] = job[b]
      /\ log' = log /\ owned' = owned /\ todo[a] = <<>>
  <2>1. \A b \in Actors \ {a} : mem'[b] = mem[b] /\ todo'[b] = todo[b]
    BY <1>0 DEF Submit, Queue, Schedule, ScheduleFails, SubmitRaises, Transition, Save, TypeOK
  <2>2. \A b \in Actors \ {a} : pc'[b] = pc[b] /\ job'[b] = job[b]
    BY <1>0 DEF Submit, Queue, Schedule, ScheduleFails, SubmitRaises, TypeOK
  <2>3. log' = log /\ owned' = owned /\ todo[a] = <<>>
    BY DEF Submit, Queue, Schedule, ScheduleFails, SubmitRaises
  <2> QED BY <2>1, <2>2, <2>3
<1>p. \A p : pc' = [pc EXCEPT ![a] = p] => pc'[a] = p
  BY <1>0 DEF TypeOK
<1>2. ASSUME NEW q \in Runs, Submit(q) PROVE VInv'
  <2>1. disk[q].status = "absent" /\ log[q] = <<>> /\ RunOK(q)
    BY <1>2 DEF Submit, Absent, VInv
  <2>2. future[q] = "none"
    BY <2>1 DEF RunOK, DocumentOK
  <2>3. \A b \in Actors : job[b] # q
    <3>1. \A b \in Actors : ThreadOK(b)
      BY DEF VInv, WorkerOK, HelperOK, Actors, Helpers
    <3> QED BY <2>1, <3>1 DEF ThreadOK
  <2>4. Verdicts(q) = {} /\ ~HasStage(q)
    BY <2>1, EmptyLog
  <2>5. /\ pc[a] = "open" /\ pc'[a] = "creating" /\ job'[a] = q /\ future' = future
        /\ mem'[a].status = "created" /\ disk'[q].status = "created" /\ ~disk[q].cancel
        /\ \A s \in Runs \ {q} : disk'[s] = disk[s]
        /\ todo'[a] = <<Note("created", "created")>>
    BY <1>0, <1>2, <1>p DEF Submit, TypeOK, Absent
  <2>6. job[a] = NoRun
    BY <1>0, <2>5 DEF HelperOK
  <2>7. /\ todo'[a] # <<>> /\ Head(todo'[a]) = Note("created", "created")
        /\ DOMAIN todo'[a] = 1 .. 1
    BY <2>5, Spoken
  <2>8. ~Loud(Note("created", "created")) /\ ~Asks(Note("created", "created"))
    BY Meaning
  <2>9. HelperOK(a)'
    <3>1. ThreadOK(a)'
      BY <2>5, <2>7 DEF ThreadOK
    <3> QED BY <2>2, <2>5, <2>7, <2>8, <3>1 DEF HelperOK, Says, Loud
  <2>10. Shows(q, ActiveStatuses)'
    BY <1>0, <1>1, <2>3, <2>5 DEF Shows, ActiveStatuses
  <2>11. Submitting(q)'
    BY <2>5 DEF Submitting
  <2> QED BY <1>1, <2>2, <2>4, <2>5, <2>6, <2>9, <2>10, <2>11, SubmitKeeps
\* The other steps work on the Run being submitted.
<1>3. ASSUME pc[a] \in {"creating", "queueing", "unscheduled"}
      PROVE  \E q \in Runs :
                /\ job[a] = q /\ future[q] = "none" /\ RunOK(q)
                /\ mem[a].status # "absent" /\ disk[q].status # "absent"
                /\ pc[a] \in {"creating", "queueing"} => Untouched(q)
                /\ Untouched(q) => ~HasStage(q) /\ Verdicts(q) = {} /\ Shows(q, ActiveStatuses)
  <2>1. PICK q \in Runs : job[a] = q
    BY <1>0, <1>3 DEF Owners, InUse
  <2>2. future[q] = "none" /\ mem[a].status # "absent" /\ disk[q].status # "absent"
    BY <1>0, <1>3, <2>1 DEF HelperOK, ThreadOK
  <2>3. RunOK(q)
    BY DEF VInv
  <2>4. Untouched(q) => ~HasStage(q) /\ Verdicts(q) = {} /\ Shows(q, ActiveStatuses)
    BY <2>3 DEF RunOK, LogOK, StatusOK
  <2>5. pc[a] \in {"creating", "queueing"} => Untouched(q)
    BY <2>1 DEF Untouched, Submitting
  <2> QED BY <2>1, <2>2, <2>3, <2>4, <2>5
<1>4. CASE Queue
  <2>1. pc[a] = "creating"
    BY <1>4 DEF Queue
  <2>2. PICK q \in Runs :
                /\ job[a] = q /\ future[q] = "none"
                /\ ~HasStage(q) /\ Verdicts(q) = {} /\ Shows(q, ActiveStatuses)
    BY <1>3, <2>1
  <2>3. /\ pc'[a] = "queueing" /\ job' = job /\ future' = future
        /\ Transition(a, "queued", <<Note("queued", "queued")>>)
    BY <1>4, <1>p DEF Queue
  <2> HIDE DEF a
  <2>4. /\ disk'[q].status = "queued" /\ mem'[a].status = "queued"
        /\ disk[q].cancel => disk'[q].cancel
        /\ \A s \in Runs \ {q} : disk'[s] = disk[s]
        /\ todo'[a] = <<StatusChanged("queued")>> \o <<Note("queued", "queued")>>
    BY <1>0, <2>2, <2>3, TransitionEffect DEF Statuses, ActiveStatuses
  <2> USE DEF a
  <2>5. /\ todo'[a] # <<>> /\ Head(todo'[a]) = StatusChanged("queued")
        /\ \A i \in DOMAIN todo'[a] : i > 1 => todo'[a][i] = Note("queued", "queued")
    BY <2>4, Spoken
  <2>6. /\ ~Loud(Note("queued", "queued")) /\ ~Asks(Note("queued", "queued"))
        /\ ~StageEvent(StatusChanged("queued")) /\ ~Asks(StatusChanged("queued"))
        /\ ~Verdict(StatusChanged("queued"))
    <3>1. ~Loud(Note("queued", "queued")) /\ ~Asks(Note("queued", "queued"))
      BY Meaning
    <3>2. "queued" \notin TerminalStatuses
      BY DEF TerminalStatuses
    <3> QED BY <3>1, <3>2, Meaning
  <2>7. HelperOK(a)'
    <3>1. ThreadOK(a)'
      BY <2>2, <2>3, <2>4, <2>5, <2>6 DEF ThreadOK
    <3> QED BY <2>2, <2>3, <2>5, <2>6, <3>1 DEF HelperOK, Says
  <2>8. Shows(q, ActiveStatuses)'
    <3>1. \A b \in Actors \ {a} : job'[b] = q => mem'[b].status \in ActiveStatuses
      BY <1>1, <2>2 DEF Shows
    <3> QED BY <2>4, <3>1 DEF Shows, ActiveStatuses
  <2>9. Submitting(q)'
    BY <2>2, <2>3 DEF Submitting
  <2>10. disk'[q].status # "absent"
    BY <2>4
  <2> QED BY <1>1, <2>1, <2>2, <2>3, <2>4, <2>7, <2>8, <2>9, <2>10, SubmitKeeps
<1>5. CASE Schedule
  <2>1. pc[a] = "queueing"
    BY <1>5 DEF Schedule
  <2>2. PICK q \in Runs :
                /\ job[a] = q /\ future[q] = "none" /\ disk[q].status # "absent"
                /\ ~HasStage(q) /\ Verdicts(q) = {} /\ Shows(q, ActiveStatuses)
    BY <1>3, <2>1
  <2>3. /\ pc'[a] = "open" /\ job'[a] = NoRun /\ future'[q] = "pending"
        /\ \A s \in Runs \ {q} : future'[s] = future[s]
        /\ disk' = disk /\ todo'[a] = <<>>
    BY <1>0, <1>1, <1>5, <1>p, <2>2 DEF Schedule, TypeOK
  <2>4. HelperOK(a)'
    BY <2>3 DEF HelperOK, ThreadOK
  <2>5. Shows(q, ActiveStatuses)'
    <3>1. \A b \in Actors \ {a} : job'[b] = q => mem'[b].status \in ActiveStatuses
      BY <1>1, <2>2 DEF Shows
    <3> QED BY <2>2, <2>3, <3>1 DEF Shows
  <2> QED BY <1>1, <2>1, <2>2, <2>3, <2>4, <2>5, SubmitKeeps
<1>6. CASE ScheduleFails
  <2>1. pc[a] = "queueing"
    BY <1>6 DEF ScheduleFails
  <2>2. PICK q \in Runs : job[a] = q /\ future[q] = "none" /\ ~HasStage(q)
    BY <1>3, <2>1
  <2> DEFINE m == [Loaded(q) EXCEPT !.status = "interrupted"]
  <2>3. /\ pc'[a] = "unscheduled" /\ job' = job /\ future' = future
        /\ Save(a, q, m)
        /\ todo'[a] = <<StatusChanged("interrupted"), Note("interrupted", "interrupted")>>
    BY <1>0, <1>6, <1>p, <2>2 DEF ScheduleFails, TypeOK
  <2>4. m \in States /\ m.status = "interrupted"
    BY <1>0, LoadedFacts DEF States, Statuses, TerminalStatuses
  <2> HIDE DEF a, m, Save
  <2>5. /\ disk'[q].status = "interrupted" /\ mem'[a].status = "interrupted"
        /\ disk[q].cancel => disk'[q].cancel
        /\ \A s \in Runs \ {q} : disk'[s] = disk[s]
    BY <1>0, <2>3, <2>4, SaveEffect
  <2> USE DEF a
  <2>6. /\ todo'[a] # <<>> /\ Head(todo'[a]).stage = "interrupted"
        /\ \A i \in DOMAIN todo'[a] : i > 1 => ~Loud(todo'[a][i]) /\ ~Asks(todo'[a][i])
        /\ ~StageEvent(Head(todo'[a])) /\ ~Asks(Head(todo'[a]))
    BY <2>3, Interrupting
  <2>8. HelperOK(a)'
    <3>1. ThreadOK(a)'
      BY <2>2, <2>3, <2>5, <2>6 DEF ThreadOK
    <3> QED BY <2>2, <2>3, <2>5, <2>6, <3>1 DEF HelperOK, Says
  <2>9. ~Untouched(q)' /\ disk'[q].status \notin ActiveStatuses /\ disk'[q].status # "absent"
    BY <2>2, <2>3, <2>5 DEF Untouched, Submitting, ActiveStatuses
  <2> QED BY <1>1, <2>1, <2>2, <2>3, <2>5, <2>8, <2>9, SubmitKeeps
<1>7. CASE SubmitRaises
  <2>1. pc[a] = "unscheduled"
    BY <1>7 DEF SubmitRaises
  <2>2. PICK q \in Runs : /\ job[a] = q /\ future[q] = "none" /\ RunOK(q)
                          /\ disk[q].status # "absent"
    BY <1>3, <2>1
  <2>3. ~HasStage(q) /\ (disk[q].status \in ActiveStatuses => disk[q].cancel)
    BY <2>1, <2>2 DEF RunOK, LogOK, StatusOK, Starting, Submitting
  <2>4. /\ pc'[a] = "open" /\ job'[a] = NoRun /\ future' = future
        /\ disk' = disk /\ todo'[a] = <<>>
    BY <1>0, <1>1, <1>7, <1>p DEF SubmitRaises, TypeOK
  <2>5. HelperOK(a)' /\ ~Untouched(q)'
    BY <2>2, <2>4 DEF HelperOK, ThreadOK, Untouched, Submitting
  <2> QED BY <1>1, <2>1, <2>2, <2>3, <2>4, <2>5, SubmitKeeps
<1> QED BY <1>2, <1>4, <1>5, <1>6, <1>7

-----------------------------------------------------------------------------
(* RunService.close, and steps that change nothing.                          *)

\* The service moves on without touching a Run.
LEMMA ServiceMoves ==
    ASSUME VInv, IInv', UNCHANGED <<disk, log, mem, job, todo, future>>,
           \A b \in Actors \ {Service} : pc'[b] = pc[b],
           pc'[Service] = pc[Service]
              \/ {pc[Service], pc'[Service]} \subseteq {"open", "closing", "closed"},
           pc'[Service] = "closed" => PoolOK',
           \A s \in owned' : s \in owned \/ future[s] # "none"
    PROVE  VInv'
<1> USE RunLifecycleAssumption
<1>0. /\ PoolOK /\ Service \in Actors /\ Service \in Helpers /\ Service \notin Runs
      /\ Cancellers \subseteq Actors /\ Runs \subseteq Actors /\ Service \notin Cancellers
      /\ Helpers \subseteq Actors
  BY DEF VInv, Actors, Helpers
<1>1. /\ Starting' <=> Starting
      /\ \A p \in {"creating", "queueing", "unscheduled"} : (pc'[Service] = p <=> pc[Service] = p)
  BY DEF Starting
<1>2. \A r \in Runs : WorkerOK(r)'
  <2> TAKE r \in Runs
  <2>1. WorkerOK(r) /\ pc'[r] = pc[r]
    BY <1>0 DEF VInv
  <2> QED BY <2>1 DEF WorkerOK, ThreadOK, Says
<1>3. \A b \in Helpers : HelperOK(b)'
  <2> TAKE b \in Helpers
  <2>1. HelperOK(b) /\ (b # Service => pc'[b] = pc[b])
    BY <1>0 DEF VInv
  <2>2. CASE pc'[b] = pc[b]
    BY <2>1, <2>2 DEF HelperOK, ThreadOK, Says
  <2>3. CASE {pc[b], pc'[b]} \subseteq {"open", "closing", "closed"}
    BY <2>1, <2>3 DEF HelperOK, ThreadOK
  <2> QED BY <2>1, <2>2, <2>3
<1>4. PoolOK'
  BY <1>0, <1>1 DEF PoolOK
<1>5. \A r \in Runs : RunOK(r)'
  <2> TAKE r \in Runs
  <2>1. RunOK(r) /\ pc'[r] = pc[r]
    BY <1>0 DEF VInv
  <2>2. /\ Verdicts(r)' = Verdicts(r) /\ HasStage(r)' = HasStage(r)
        /\ Asked(r)' = Asked(r) /\ Late(r)' = Late(r)
        /\ OneEach(r)' = OneEach(r) /\ NoStageAfter(r)' = NoStageAfter(r)
    BY SameLog
  <2>3. /\ Submitting(r)' = Submitting(r) /\ Untouched(r)' = Untouched(r)
        /\ (pc[Service] = "unscheduled" /\ job[Service] = r)'
              = (pc[Service] = "unscheduled" /\ job[Service] = r)
        /\ Owes(r)' = Owes(r)
    BY <1>1, <2>1 DEF Submitting, Untouched, Owes, Says
  <2>4. \A b \in Helpers : Responsible(b, r) => Responsible(b, r)'
    <3> TAKE b \in Helpers
    <3>1. pc[b] \in {"future", "latest", "settle"} => pc'[b] = pc[b]
      BY <1>0
    <3> QED BY <3>1 DEF Responsible
  <2>5. LogOK(r)'
    BY <2>1, <2>2, <2>3 DEF RunOK, LogOK
  <2>6. DocumentOK(r)'
    BY <2>1, <2>2 DEF RunOK, DocumentOK
  <2>7. StatusOK(r)'
    <3>1. \A S : Shows(r, S)' = Shows(r, S)
      BY DEF Shows
    <3> QED BY <1>1, <2>1, <2>2, <2>3, <2>4, <3>1 DEF RunOK, StatusOK
  <2> QED BY <2>5, <2>6, <2>7 DEF RunOK
<1> QED BY <1>2, <1>3, <1>4, <1>5 DEF VInv

\* close() begins, skips a Run that runs and was asked already, and ends.
LEMMA CloseSteps ==
    ASSUME VInv, IInv',
           BeginClose \/ FinishClose \/ (\E r \in Runs : CloseSkips(r)) \/ UNCHANGED vars
    PROVE  VInv'
<1> USE DEF At, Goto, pool, persisted, threads
<1>0. TypeOK /\ PoolOK /\ Service \in Actors
  BY DEF VInv, IInv, Actors
<1>1. CASE BeginClose
  <2>1. /\ UNCHANGED <<disk, log, mem, job, todo, future, queue>>
        /\ pc[Service] = "open" /\ pc'[Service] = "closing"
        /\ \A b \in Actors \ {Service} : pc'[b] = pc[b]
        /\ \A s \in owned' : future[s] # "none"
    BY <1>0, <1>1 DEF BeginClose, TypeOK
  <2> QED BY <2>1, ServiceMoves
<1>2. CASE FinishClose
  <2>1. /\ UNCHANGED <<disk, log, mem, job, todo, future, queue, owned>>
        /\ pc[Service] = "closing" /\ pc'[Service] = "closed" /\ queue = <<>>
        /\ \A b \in Actors \ {Service} : pc'[b] = pc[b]
        /\ \A r \in Runs : future[r] \notin {"pending", "running"}
    BY <1>0, <1>2 DEF FinishClose, TypeOK
  <2>2. PoolOK'
    BY <2>1 DEF PoolOK, Starting
  <2> QED BY <2>1, <2>2, ServiceMoves
<1>3. ASSUME NEW r \in Runs, CloseSkips(r) PROVE VInv'
  <2>1. /\ UNCHANGED <<disk, log, mem, job, todo, future, queue, pc>>
        /\ pc[Service] = "closing" /\ owned' \subseteq owned
    BY <1>3 DEF CloseSkips
  <2> QED BY <2>1, ServiceMoves
<1>4. CASE UNCHANGED vars
  <2>1. /\ UNCHANGED <<disk, log, mem, job, todo, future, queue, pc, owned>>
    BY <1>4 DEF vars
  <2>2. PoolOK'
    BY <1>0, <2>1 DEF PoolOK, Starting
  <2> QED BY <2>1, <2>2, ServiceMoves
<1> QED BY <1>1, <1>2, <1>3, <1>4

-----------------------------------------------------------------------------
(* The process dies, and another one recovers.                               *)

\* What is left to show of a step to a state in which nothing is served yet.
LEMMA StartingKeeps ==
    ASSUME VInv, IInv', Starting',
           \A r \in Runs : future'[r] = "none" /\ pc'[r] = "idle" /\ job'[r] = NoRun,
           \A c \in Cancellers : job'[c] = NoRun,
           \A b \in Helpers : HelperOK(b)',
           \A r \in Runs :
              /\ DocumentOK(r)' /\ OneEach(r)' /\ NoStageAfter(r)'
              /\ Late(r)' => HasStage(r)' /\ Asked(r)' /\ "completed" \notin Verdicts(r)'
    PROVE  VInv'
<1> USE RunLifecycleAssumption
<1>1. \A r \in Runs : todo'[r] = <<>>
  BY DEF IInv, CounterInv, Owners, InUse, Actors
<1>2. \A r \in Runs : WorkerOK(r)'
  BY <1>1 DEF WorkerOK, ThreadOK
<1>3. PoolOK'
  BY DEF PoolOK, Starting
<1>4. \A r \in Runs : RunOK(r)'
  <2> TAKE r \in Runs
  <2>1. ~Submitting(r)' /\ ~Untouched(r)' /\ pc'[Service] # "unscheduled"
    BY DEF Submitting, Untouched, Starting
  <2>2. LogOK(r)'
    BY <2>1 DEF LogOK
  <2>3. StatusOK(r)'
    BY <2>1 DEF StatusOK
  <2> QED BY <2>2, <2>3 DEF RunOK
<1> QED BY <1>2, <1>3, <1>4 DEF VInv

\* Nothing an event adds to the log contradicts it, or the document.
LEMMA EventFits ==
    ASSUME VInv, NEW a \in Actors, NEW r \in Runs, job[a] = r, todo[a] # <<>>,
           log' = [log EXCEPT ![r] = Appended(a)]
    PROVE  /\ OneEach(r)' /\ NoStageAfter(r)'
           /\ Late(r)' => HasStage(r)' /\ Asked(r)' /\ "completed" \notin Verdicts(r)'
           /\ Asked(r)' => disk[r].cancel
           /\ disk[r].status # "absent"
           /\ \A s \in Runs \ {r} : log'[s] = log[s]
<1> USE RunLifecycleAssumption
<1> DEFINE e == Says(a)
<1>0. IInv /\ Owners /\ RunOK(r) /\ WorkerOK(r) /\ PoolOK
  BY DEF VInv, IInv, CounterInv
<1>1. /\ Verdicts(r)' = Verdicts(r) \cup (IF Verdict(e) THEN {e.stage} ELSE {})
      /\ HasStage(r)' <=> HasStage(r) \/ StageEvent(e)
      /\ Asked(r)' <=> Asked(r) \/ Asks(e)
      /\ Late(r)' <=> Late(r) \/ (Asked(r) /\ Proposes(e))
      /\ NoStageAfter(r) /\ (StageEvent(e) => Verdicts(r) = {}) => NoStageAfter(r)'
      /\ \A s \in Runs \ {r} : log'[s] = log[s]
  BY <1>0, LogGrows
<1>2. Proposes(e) => StageEvent(e) /\ ~Verdict(e)
  BY DEF Proposes, StageEvent, Verdict
<1>3. LogOK(r) /\ DocumentOK(r)
  BY <1>0 DEF RunOK
<1>4. CASE a \in Runs
  <2>1. a = r
    BY <1>0, <1>4 DEF Owners
  <2>2. /\ future[r] = "running" /\ ~Asks(e)
        /\ Verdict(e) => \/ pc[r] = "report" /\ e.stage = "completed"
                         \/ pc[r] = "leaving" /\ e.stage \in {"cancelled", "failed"}
        /\ StageEvent(e) => pc[r] \in {"work", "check", "complete"}
        /\ disk[r].status # "absent"
    BY <1>0, <2>1 DEF WorkerOK, ThreadOK
  <2>3. Verdict(e) \/ StageEvent(e) => Verdicts(r) = {}
    BY <1>3, <2>1, <2>2 DEF LogOK, Owes
  <2>4. OneEach(r)'
    BY <1>1, <1>3, <2>3 DEF LogOK, OneEach
  <2>5. NoStageAfter(r)'
    BY <1>1, <1>3, <2>3 DEF LogOK
  <2>6. Late(r)' => HasStage(r)' /\ Asked(r)' /\ "completed" \notin Verdicts(r)'
    BY <1>1, <1>2, <1>3, <2>2, <2>3 DEF LogOK
  <2>7. Asked(r)' => disk[r].cancel
    BY <1>1, <1>3, <2>2 DEF DocumentOK
  <2> QED BY <1>1, <2>2, <2>4, <2>5, <2>6, <2>7
<1>5. CASE a \in Helpers
  <2>1. HelperOK(a) /\ ~StageEvent(e) /\ ~Proposes(e) /\ disk[r].status # "absent"
    BY <1>2, <1>5 DEF VInv, HelperOK, ThreadOK
  <2>2. Verdict(e) => \/ e.stage = "cancelled" /\ Verdicts(r) \subseteq {"cancelled"}
                      \/ e.stage = "interrupted"
    BY <1>3, <2>1 DEF HelperOK, LogOK
  <2>3. OneEach(r)'
    BY <1>1, <1>3, <2>2 DEF LogOK, OneEach
  <2>4. Late(r)' => HasStage(r)' /\ Asked(r)' /\ "completed" \notin Verdicts(r)'
    BY <1>1, <1>3, <2>1, <2>2 DEF LogOK
  <2>5. Asked(r)' => disk[r].cancel
    BY <1>1, <1>3, <2>1 DEF DocumentOK, HelperOK
  <2> QED BY <1>1, <1>3, <2>1, <2>3, <2>4, <2>5 DEF LogOK
<1> QED BY <1>4, <1>5 DEF Actors, Helpers

\* The process dies, between two steps or after an event is appended.
LEMMA CrashSteps ==
    ASSUME VInv, IInv', Crash \/ \E a \in Actors : CrashInEvent(a)
    PROVE  VInv'
<1> USE RunLifecycleAssumption
<1>0. /\ TypeOK /\ Owners /\ Helpers \subseteq Actors /\ Service \in Actors
      /\ Cancellers \subseteq Actors /\ Runs \subseteq Actors
  BY DEF VInv, IInv, CounterInv, Helpers, Actors
<1>1. disk' = disk /\ LoseThreads
  BY DEF Crash, CrashInEvent, persisted
<1>2. /\ Starting' /\ owned' = {}
      /\ \A r \in Runs : future'[r] = "none" /\ pc'[r] = "idle" /\ job'[r] = NoRun
      /\ \A c \in Cancellers : job'[c] = NoRun
  BY <1>0, <1>1 DEF LoseThreads, Starting
<1>3. \A b \in Helpers : HelperOK(b)'
  <2> TAKE b \in Helpers
  <2>1. job'[b] = NoRun /\ todo'[b] = <<>> /\ pc'[b] \in {"down", "ready", "spent"}
    BY <1>0, <1>1 DEF LoseThreads, Helpers
  <2> QED BY <2>1 DEF HelperOK, ThreadOK
<1>4. ASSUME NEW r \in Runs, log'[r] = log[r]
      PROVE  /\ DocumentOK(r)' /\ OneEach(r)' /\ NoStageAfter(r)'
             /\ Late(r)' => HasStage(r)' /\ Asked(r)' /\ "completed" \notin Verdicts(r)'
  <2>1. RunOK(r)
    BY DEF VInv
  <2> QED BY <1>1, <1>2, <1>4, <2>1, SameLog DEF RunOK, LogOK, DocumentOK
<1>5. CASE Crash
  <2>1. log' = log
    BY <1>5 DEF Crash, persisted
  <2> QED BY <1>2, <1>3, <1>4, <2>1, StartingKeeps
<1>6. ASSUME NEW a \in Actors, CrashInEvent(a) PROVE VInv'
  <2>1. PICK r \in Runs : job[a] = r /\ todo[a] # <<>>
    BY <1>0, <1>6 DEF CrashInEvent, Owners, InUse
  <2>2. log' = [log EXCEPT ![r] = Appended(a)]
    BY <1>6, <2>1 DEF CrashInEvent
  <2>3. /\ OneEach(r)' /\ NoStageAfter(r)'
        /\ Late(r)' => HasStage(r)' /\ Asked(r)' /\ "completed" \notin Verdicts(r)'
        /\ Asked(r)' => disk[r].cancel
        /\ disk[r].status # "absent"
        /\ \A s \in Runs \ {r} : log'[s] = log[s]
    BY <2>1, <2>2, EventFits
  <2>4. DocumentOK(r)'
    BY <1>1, <2>3 DEF DocumentOK
  <2> QED BY <1>2, <1>3, <1>4, <2>3, <2>4, StartingKeeps
<1> QED BY <1>5, <1>6

\* A new process comes up, interrupts what an earlier one left active, and
\* serves.
LEMMA RecoverySteps ==
    ASSUME VInv, IInv', Restart \/ Serve \/ \E r \in Runs : Recover(r)
    PROVE  VInv'
<1> USE RunLifecycleAssumption DEF At, Goto, pool, persisted
<1>0. /\ TypeOK /\ IInv /\ Owners /\ PoolOK /\ Helpers \subseteq Actors /\ Service \in Actors
      /\ Cancellers \subseteq Actors /\ Runs \subseteq Actors /\ Service \in Helpers
      /\ Helpers = Cancellers \cup {Service} /\ Service \notin Runs
  BY DEF VInv, IInv, CounterInv, Helpers, Actors
<1>1. /\ Starting /\ log' = log /\ future' = future /\ queue' = queue /\ owned' = owned
      /\ \A r \in Runs : future[r] = "none"
      /\ \A c \in Cancellers : job[c] = NoRun
  BY <1>0 DEF Restart, Serve, Recover, Starting, PoolOK
<1>2. \A b \in Actors \ {Service} :
         pc'[b] = pc[b] /\ todo'[b] = todo[b] /\ mem'[b] = mem[b] /\ job'[b] = job[b]
  <2>1. \A b \in Actors \ {Service} : pc'[b] = pc[b] /\ job'[b] = job[b]
    BY <1>0 DEF Restart, Serve, Recover, TypeOK
  <2>2. \A b \in Actors \ {Service} : todo'[b] = todo[b] /\ mem'[b] = mem[b]
    BY <1>0 DEF Restart, Serve, Recover, TypeOK, Save
  <2> QED BY <2>1, <2>2
<1>3. \A r \in Runs : /\ WorkerOK(r) /\ RunOK(r)
                      /\ future'[r] = "none" /\ pc'[r] = "idle" /\ job'[r] = NoRun
  <2>1. \A r \in Runs : WorkerOK(r) /\ RunOK(r)
    BY DEF VInv
  <2> QED BY <1>0, <1>1, <1>2, <2>1 DEF WorkerOK
<1>4. \A c \in Cancellers : HelperOK(c)' /\ job'[c] = NoRun
  <2> TAKE c \in Cancellers
  <2>1. HelperOK(c) /\ Owners
    BY <1>0 DEF VInv
  <2>2. pc[c] \in {"ready", "load", "spent"} /\ todo[c] = <<>> /\ job[c] = NoRun
    BY <1>0, <1>1, <2>1 DEF Owners, InUse, CancellerPCs
  <2>3. pc'[c] = pc[c] /\ todo'[c] = <<>> /\ job'[c] = NoRun
    BY <1>0, <1>2, <2>2
  <2> QED BY <2>2, <2>3 DEF HelperOK, ThreadOK
<1>5. ASSUME NEW r \in Runs
      PROVE  /\ OneEach(r)' /\ NoStageAfter(r)'
             /\ Late(r)' => HasStage(r)' /\ Asked(r)' /\ "completed" \notin Verdicts(r)'
  BY <1>1, <1>3, SameLog DEF RunOK, LogOK
<1>6. ASSUME NEW r \in Runs, disk'[r] = disk[r] PROVE DocumentOK(r)'
  BY <1>1, <1>3, <1>6, SameLog DEF RunOK, DocumentOK
<1>7. CASE Restart
  <2>1. /\ disk' = disk /\ pc[Service] = "down" /\ pc'[Service] = "recovering"
        /\ todo' = todo /\ mem' = mem /\ job' = job
    BY <1>0, <1>7 DEF Restart, TypeOK
  <2>2. HelperOK(Service)'
    <3>1. HelperOK(Service)
      BY <1>0 DEF VInv
    <3> QED BY <2>1, <3>1 DEF HelperOK, ThreadOK
  <2>3. Starting'
    BY <2>1 DEF Starting
  <2> QED BY <1>0, <1>3, <1>4, <1>5, <1>6, <2>1, <2>2, <2>3, StartingKeeps
<1>8. ASSUME NEW r \in Runs, Recover(r) PROVE VInv'
  <2> DEFINE m == [Loaded(r) EXCEPT !.status = "interrupted"]
  <2>1. /\ pc[Service] = "recovering" /\ pc' = pc /\ job'[Service] = r
        /\ Save(Service, r, m)
        /\ todo'[Service] = <<StatusChanged("interrupted"), Note("interrupted", "interrupted")>>
    BY <1>0, <1>8 DEF Recover, TypeOK
  <2>2. m \in States /\ m.status = "interrupted"
    BY <1>0, LoadedFacts DEF States, Statuses, TerminalStatuses
  <2> HIDE DEF m, Save
  <2>3. /\ disk'[r].status = "interrupted" /\ mem'[Service].status = "interrupted"
        /\ disk[r].cancel => disk'[r].cancel
        /\ \A s \in Runs \ {r} : disk'[s] = disk[s]
    BY <1>0, <2>1, <2>2, SaveEffect
  <2>4. /\ todo'[Service] # <<>> /\ Head(todo'[Service]).stage = "interrupted"
        /\ \A i \in DOMAIN todo'[Service] :
              i > 1 => ~Loud(todo'[Service][i]) /\ ~Asks(todo'[Service][i])
        /\ ~StageEvent(Head(todo'[Service])) /\ ~Asks(Head(todo'[Service]))
    BY <2>1, Interrupting
  <2>5. HelperOK(Service)'
    <3>1. ThreadOK(Service)'
      BY <2>1, <2>3, <2>4 DEF ThreadOK
    <3> QED BY <2>1, <2>4, <3>1 DEF HelperOK, Says
  <2>6. DocumentOK(r)'
    <3>1. DocumentOK(r)
      BY <1>3 DEF RunOK
    <3> QED BY <1>1, <2>3, <3>1, SameLog DEF DocumentOK
  <2>7. Starting'
    BY <2>1 DEF Starting
  <2>8. \A s \in Runs : DocumentOK(s)'
    BY <1>6, <2>3, <2>6
  <2> QED BY <1>0, <1>3, <1>4, <1>5, <2>5, <2>7, <2>8, StartingKeeps
<1>9. CASE Serve
  <2>1. /\ disk' = disk /\ pc'[Service] = "open" /\ job'[Service] = NoRun
        /\ todo' = todo /\ todo[Service] = <<>>
        /\ \A r \in Runs : disk[r].status \notin ActiveStatuses
    BY <1>0, <1>9 DEF Serve, TypeOK
  <2>2. HelperOK(Service)'
    BY <2>1 DEF HelperOK, ThreadOK
  <2>3. \A r \in Runs : WorkerOK(r)'
    <3> TAKE r \in Runs
    <3>1. todo'[r] = todo[r] /\ todo[r] = <<>> /\ pc[r] = "idle" /\ job[r] = NoRun
      <4>1. pc[r] = "idle" /\ job[r] = NoRun
        BY <1>0, <1>2, <1>3
      <4> QED BY <1>0, <2>1, <4>1 DEF Owners, InUse
    <3> QED BY <1>3, <3>1 DEF WorkerOK, ThreadOK
  <2>4. PoolOK'
    BY <2>1 DEF PoolOK, Starting
  <2>5. \A r \in Runs : RunOK(r)'
    <3> TAKE r \in Runs
    <3>1. ~Submitting(r)' /\ ~Untouched(r)'
      BY <1>3, <2>1 DEF Submitting, Untouched
    <3>2. LogOK(r)'
      BY <1>3, <1>5, <2>1, <3>1 DEF LogOK
    <3>3. DocumentOK(r)'
      BY <1>6, <2>1
    <3>4. HasStage(r)' => Shows(r, TerminalStatuses)'
      <4>1. HasStage(r)' => disk[r].status # "absent"
        <5>1. HasStage(r) => log[r] # <<>>
          BY EmptyLog
        <5>2. HasStage(r)' = HasStage(r)
          BY <1>1, SameLog
        <5> QED BY <1>3, <5>1, <5>2 DEF RunOK, DocumentOK
      <4>2. disk[r].status \in Statuses
        BY <1>0 DEF TypeOK, States
      <4>3. \A b \in Actors : job'[b] # r
        BY <1>0, <1>3, <1>4, <2>1 DEF Actors
      <4> QED BY <2>1, <4>1, <4>2, <4>3 DEF Shows, Statuses
    <3>5. StatusOK(r)'
      BY <1>3, <2>1, <3>1, <3>4 DEF StatusOK
    <3> QED BY <3>2, <3>3, <3>5 DEF RunOK
  <2>6. \A b \in Helpers : HelperOK(b)'
    BY <1>0, <1>4, <2>2
  <2> QED BY <2>3, <2>4, <2>5, <2>6 DEF VInv
<1> QED BY <1>7, <1>8, <1>9

-----------------------------------------------------------------------------
(* The invariant, and what follows from it.                                  *)

LEMMA InitVerdict == Init => VInv
<1> SUFFICES ASSUME Init PROVE VInv
  OBVIOUS
<1> USE RunLifecycleAssumption
<1>0. /\ Service \in Actors /\ Runs \subseteq Actors /\ Cancellers \subseteq Actors
      /\ Service \notin Runs /\ Service \notin Cancellers /\ Runs \cap Cancellers = {}
      /\ Helpers = Cancellers \cup {Service} /\ IInv
  BY InitStep DEF Actors, Helpers
<1>1. /\ pc[Service] = "open" /\ \A c \in Cancellers : pc[c] = "ready"
      /\ \A r \in Runs : pc[r] = "idle" /\ future[r] = "none" /\ disk[r] = Absent /\ log[r] = <<>>
      /\ \A a \in Actors : job[a] = NoRun /\ todo[a] = <<>>
      /\ owned = {}
  BY <1>0 DEF Init
<1>2. \A r \in Runs : WorkerOK(r)
  BY <1>0, <1>1 DEF WorkerOK, ThreadOK
<1>3. \A b \in Helpers : HelperOK(b)
  BY <1>0, <1>1 DEF HelperOK, ThreadOK
<1>4. PoolOK
  BY <1>1 DEF PoolOK, Starting
<1>5. ASSUME NEW r \in Runs PROVE RunOK(r)
  <2>1. /\ Verdicts(r) = {} /\ ~HasStage(r) /\ ~Asked(r) /\ ~Late(r)
        /\ OneEach(r) /\ NoStageAfter(r)
    BY <1>1, EmptyLog
  <2>2. ~Submitting(r) /\ ~Untouched(r) /\ disk[r].status = "absent"
    BY <1>1 DEF Submitting, Untouched, Absent
  <2>3. LogOK(r) /\ DocumentOK(r)
    BY <1>1, <2>1, <2>2 DEF LogOK, DocumentOK
  <2>4. StatusOK(r)
    BY <1>1, <2>1, <2>2 DEF StatusOK, ActiveStatuses
  <2> QED BY <2>3, <2>4 DEF RunOK
<1> QED BY <1>0, <1>2, <1>3, <1>4, <1>5 DEF VInv

LEMMA NextVerdict ==
    ASSUME VInv, [Next]_vars
    PROVE  VInv'
<1>1. IInv'
  BY NextStep DEF VInv
<1>2. CASE UNCHANGED vars
  BY <1>1, <1>2, CloseSteps
<1>3. CASE Next
  <2>1. CASE Accept
    BY <1>1, <2>1, SubmitSteps DEF Accept
  <2>2. CASE BeginClose \/ Close
    <3>1. Service \in Helpers
      BY DEF Helpers
    <3> QED BY <1>1, <2>2, <3>1, CloseSteps, LoadSteps DEF Close
  <2>3. ASSUME NEW a \in Helpers, Cancel(a) PROVE VInv'
    BY <1>1, <2>3, CancelSteps, LoadSteps, HelperAnnounces DEF Cancel
  <2>4. ASSUME NEW r \in Runs, StartWork(r) \/ DropCancelled(r) \/ Work(r) PROVE VInv'
    BY <1>1, <2>4, PoolSteps, BusySteps, WorkerAnnounces DEF Work
  <2>5. CASE Crash \/ \E a \in Actors : CrashInEvent(a)
    BY <1>1, <2>5, CrashSteps
  <2>6. CASE Restart \/ Serve \/ \E r \in Runs : Recover(r)
    BY <1>1, <2>6, RecoverySteps
  <2> QED BY <1>3, <2>1, <2>2, <2>3, <2>4, <2>5, <2>6 DEF Next, Helpers
<1> QED BY <1>2, <1>3

\* Whatever threads interleave and wherever processes die, the future of a Run
\* tells who may settle it, and every copy and event bears that out.
THEOREM VerdictInvariance == Spec => []VInv
<1>1. Init => VInv
  BY InitVerdict
<1>2. VInv /\ [Next]_vars => VInv'
  BY NextVerdict
<1> QED BY <1>1, <1>2, PTL DEF Spec

\* cancel(), close(), a worker and recovery never record two verdicts that
\* contradict each other, and no stage follows one.
THEOREM ThreadsAgree == Spec => []VerdictsAgree
<1>1. VInv => VerdictsAgree
  <2> SUFFICES ASSUME VInv, NEW r \in Runs PROVE OneVerdict(r) /\ NoStageAfter(r)
    BY DEF VerdictsAgree
  <2>1. OneEach(r) /\ NoStageAfter(r)
    BY DEF VInv, RunOK, LogOK
  <2> DEFINE V == Verdicts(r) \ {"interrupted"}
  <2>2. CASE V = {}
    BY <2>1, <2>2, FS_EmptySet DEF OneVerdict
  <2>3. ASSUME NEW s \in V PROVE OneVerdict(r)
    <3>1. V = {s}
      BY <2>1, <2>3 DEF OneEach
    <3>2. Cardinality(V) = 1
      BY <3>1, FS_Singleton
    <3> QED BY <3>2 DEF OneVerdict
  <2> QED BY <2>1, <2>2, <2>3
<1> QED BY <1>1, VerdictInvariance, PTL

\* A worker never completes a Run that was asked to stop before it proposed
\* its strategies: the checkpoint of execute_run reads the document.
THEOREM CancelPrevails == Spec => []CancelBeatsCompletion
<1>1. VInv => CancelBeatsCompletion
  <2> SUFFICES ASSUME VInv, NEW r \in Runs, NEW i \in DOMAIN log[r], NEW j \in DOMAIN log[r],
                      i < j, log[r][i].type = "cancel_requested",
                      log[r][j].type = "work", log[r][j].stage = "proposing"
               PROVE  "completed" \notin Verdicts(r)
    BY DEF CancelBeatsCompletion
  <2>1. Late(r)
    BY DEF Late, Asks, Proposes
  <2> QED BY <2>1 DEF VInv, RunOK, LogOK
<1> QED BY <1>1, VerdictInvariance, PTL

\* Among all the threads that handle a Run taken back from the queue, one is
\* always left that will write the cancellation.
THEOREM TakenBackIsCancelled == Spec => []QueuedCancelSettles
<1>1. VInv => QueuedCancelSettles
  BY DEF VInv, RunOK, StatusOK, QueuedCancelSettles, Engaged, Responsible, Helpers, Actors
<1> QED BY <1>1, VerdictInvariance, PTL

\* Recovery leaves no active Run behind for which no executor is responsible.
THEOREM NoneOrphaned == Spec => []NoOrphan
<1>1. VInv => NoOrphan
  <2> SUFFICES ASSUME VInv, NEW r \in Runs, pc[Service] = "open",
                      disk[r].status \in ActiveStatuses, ~disk[r].cancel, future[r] = "none"
               PROVE  FALSE
    BY DEF NoOrphan
  <2> QED BY DEF VInv, RunOK, StatusOK, Starting, Submitting
<1> QED BY <1>1, VerdictInvariance, PTL

\* When close() returns, every Run that was worked on has been settled.
THEOREM ClosedIsDrained == Spec => []ClosedMeansDrained
<1>1. VInv => ClosedMeansDrained
  <2> SUFFICES ASSUME VInv, pc[Service] = "closed", NEW r \in Runs
               PROVE  /\ pc[r] = "idle" /\ r \notin {queue[i] : i \in DOMAIN queue}
                      /\ HasStage(r) => Verdicts(r) # {} \/ disk[r].status \in TerminalStatuses
    BY DEF ClosedMeansDrained, HasStage
  <2>1. future[r] \in {"none", "cancelled", "done"} /\ queue = <<>>
    BY DEF VInv, PoolOK, IInv, TypeOK, Futures
  <2>2. pc[r] = "idle" /\ LogOK(r) /\ StatusOK(r)
    BY <2>1 DEF VInv, WorkerOK, RunOK
  <2>3. HasStage(r) => Verdicts(r) # {} \/ disk[r].status \in TerminalStatuses
    BY <2>1, <2>2 DEF LogOK, StatusOK, Starting, Shows
  <2>4. {queue[i] : i \in DOMAIN queue} = {}
    BY <2>1
  <2> QED BY <2>2, <2>3, <2>4
<1> QED BY <1>1, VerdictInvariance, PTL
=============================================================================
