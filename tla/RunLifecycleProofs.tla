-------------------------- MODULE RunLifecycleProofs --------------------------
(* Proofs about RunLifecycle for any number of Runs, threads, workers and    *)
(* restarts.                                                                 *)
EXTENDS RunLifecycle, SequenceTheorems, TLAPS

IInv == TypeOK /\ CounterInv

-----------------------------------------------------------------------------
(* What the helpers return.                                                  *)

\* A merge keeps the status of the instance, the larger counter and either
\* cancel flag.
LEMMA MergeFacts ==
    ASSUME NEW m \in States, NEW d \in States
    PROVE  /\ Merge(m, d) \in States
           /\ Merge(m, d).status = m.status
           /\ Merge(m, d).cancel = (m.cancel \/ d.cancel)
           /\ Merge(m, d).seq = IF m.seq >= d.seq THEN m.seq ELSE d.seq
  BY DEF Merge, MaxOf, States

\* The highest number in a densely numbered log is its length.
LEMMA LastSeqDense ==
    ASSUME NEW events \in Seq(Events),
           \A i \in DOMAIN events : events[i].seq = i
    PROVE  LastSeq(events) = Len(events)
<1> DEFINE S == {0} \cup {events[i].seq : i \in DOMAIN events}
           Top(n) == \A i \in DOMAIN events : events[i].seq <= n
<1>1. Len(events) \in S /\ Top(Len(events))
  <2>1. CASE Len(events) = 0
    BY <2>1
  <2>2. CASE Len(events) # 0
    BY <2>2
  <2> QED BY <2>1, <2>2
<1>2. LastSeq(events) \in S /\ Top(LastSeq(events))
  BY <1>1 DEF LastSeq
<1>3. \A n \in S : Top(n) => n = Len(events)
  BY <1>1
<1> QED BY <1>2, <1>3

\* An instance that was just loaded counts the whole log.
LEMMA LoadedFacts ==
    ASSUME IInv, NEW r \in Runs
    PROVE  /\ Loaded(r) \in States
           /\ Loaded(r).status = disk[r].status
           /\ Loaded(r).cancel = disk[r].cancel
           /\ Loaded(r).seq = Len(log[r])
<1>1. LastSeq(log[r]) = Len(log[r])
  BY LastSeqDense DEF IInv, TypeOK, CounterInv, DenseLog
<1>2. disk[r] \in States /\ disk[r].seq <= Len(log[r]) /\ Len(log[r]) \in Nat
  BY DEF IInv, TypeOK, CounterInv
<1> QED BY <1>1, <1>2 DEF Loaded, MaxOf, States
-----------------------------------------------------------------------------
(* The two atomic operations on the files.                                   *)

\* A save of an instance that is up to date, or of any instance while the
\* document is, leaves the document up to date.
LEMMA SaveFacts ==
    ASSUME IInv, NEW a \in Actors, NEW r \in Runs, NEW m \in States,
           m.seq <= Len(log[r]),
           UpToDate(r) \/ m.seq = Len(log[r]),
           Save(a, r, m)
    PROVE  /\ disk' \in [Runs -> States]
           /\ mem' \in [Actors -> States]
           /\ disk'[r].seq = Len(log[r])
           /\ disk'[r].status = m.status
           /\ mem'[a].seq = Len(log[r])
           /\ mem'[a].status = m.status
           /\ \A s \in Runs \ {r} : disk'[s] = disk[s]
           /\ \A b \in Actors \ {a} : mem'[b] = mem[b]
<1>1. disk \in [Runs -> States] /\ mem \in [Actors -> States]
  BY DEF IInv, TypeOK
<1>2. disk[r] \in States /\ disk[r].seq <= Len(log[r]) /\ Len(log[r]) \in Nat
  BY <1>1 DEF IInv, TypeOK, CounterInv
<1>3. m.seq \in Nat /\ disk[r].seq \in Nat
  BY <1>2 DEF States
<1>4. Merge(m, disk[r]).seq = Len(log[r])
  BY <1>2, <1>3, MergeFacts DEF UpToDate
<1>5. Merge(m, disk[r]) \in States /\ Merge(m, disk[r]).status = m.status
  BY <1>2, MergeFacts
<1>6. disk' = [disk EXCEPT ![r] = Merge(m, disk[r])] /\ mem' = [mem EXCEPT ![a] = Merge(m,
   disk[r])]
  BY DEF Save
<1> QED BY <1>1, <1>4, <1>5, <1>6

\* After a save by a thread on its Run, everybody's counters are in order
\* again; "who" says what else the step may have changed.
LEMMA SaveKeepsCounters ==
    ASSUME IInv, NEW a \in Actors, NEW r \in Runs, NEW m \in States,
           m.seq <= Len(log[r]),
           UpToDate(r) \/ m.seq = Len(log[r]),
           m.status # "absent",
           Save(a, r, m),
           UNCHANGED log,
           job' = [job EXCEPT ![a] = r]
    PROVE  /\ DenseLog'
           /\ \A s \in Runs : disk'[s].seq <= Len(log'[s])
           /\ \A b \in Actors : job'[b] \in Runs =>
                 /\ mem'[b].seq <= Len(log'[job'[b]])
                 /\ disk'[job'[b]].seq = Len(log'[job'[b]]) \/ mem'[b].seq = Len(log'[job'[b]])
           /\ \A s \in Runs : UpToDate(s) => UpToDate(s)'
<1>1. /\ disk'[r].seq = Len(log[r])
      /\ disk'[r].status = m.status
      /\ mem'[a].seq = Len(log[r])
      /\ \A s \in Runs \ {r} : disk'[s] = disk[s]
      /\ \A b \in Actors \ {a} : mem'[b] = mem[b]
  BY SaveFacts
<1>2. log' = log /\ Len(log[r]) \in Nat
  BY DEF IInv, TypeOK
<1>3. DenseLog'
  BY <1>2 DEF IInv, CounterInv, DenseLog
<1>4. \A s \in Runs : disk'[s].seq <= Len(log'[s])
  BY <1>1, <1>2 DEF IInv, CounterInv
<1>6. \A s \in Runs : UpToDate(s) => UpToDate(s)'
  BY <1>1, <1>2 DEF UpToDate
<1>7. ASSUME NEW b \in Actors, job'[b] \in Runs
      PROVE  /\ mem'[b].seq <= Len(log'[job'[b]])
             /\ disk'[job'[b]].seq = Len(log'[job'[b]]) \/ mem'[b].seq = Len(log'[job'[b]])
  <2>1. CASE b = a
    <3>1. job'[b] = r
      BY <2>1 DEF IInv, TypeOK
    <3> QED BY <1>1, <1>2, <2>1, <3>1 DEF UpToDate
  <2>2. CASE b # a
    <3>1. job'[b] = job[b] /\ mem'[b] = mem[b]
      BY <1>1, <2>2 DEF IInv, TypeOK
    <3>2. /\ mem[b].seq <= Len(log[job[b]])
          /\ UpToDate(job[b]) \/ mem[b].seq = Len(log[job[b]])
      BY <1>7, <3>1 DEF IInv, CounterInv
    <3> QED BY <1>2, <1>6, <1>7, <3>1, <3>2 DEF UpToDate
  <2> QED BY <2>1, <2>2
<1> QED BY <1>3, <1>4, <1>6, <1>7

-----------------------------------------------------------------------------
(* Steps that leave the files alone.                                         *)

\* Every instance is kept, dropped or loaded afresh.
Quiet ==
    /\ UNCHANGED <<disk, log>>
    /\ \A b \in Actors : job'[b] \in Runs =>
          \/ job'[b] = job[b] /\ mem'[b] = mem[b]
          \/ mem'[b].seq = Len(log[job'[b]])
    /\ \A s \in Runs : future'[s] # "none" => future[s] # "none" \/ UpToDate(s)
    /\ pc'[Service] \in {"creating", "queueing"} =>
          pc[Service] \in {"creating", "queueing"} /\ job'[Service] = job[Service]

\* A step that touches neither file keeps the counters, if types and owners hold.
LEMMA QuietKeepsCounters ==
    ASSUME IInv, Quiet, TypeOK', Owners'
    PROVE  IInv'
<1>1. disk' = disk /\ log' = log
  BY DEF Quiet
<1>2. DenseLog'
  BY <1>1 DEF IInv, CounterInv, DenseLog
<1>3. \A s \in Runs : disk'[s].seq <= Len(log'[s])
  BY <1>1 DEF IInv, CounterInv
<1>5. ASSUME NEW b \in Actors, job'[b] \in Runs
      PROVE  /\ mem'[b].seq <= Len(log'[job'[b]])
             /\ disk'[job'[b]].seq = Len(log'[job'[b]]) \/ mem'[b].seq = Len(log'[job'[b]])
  <2>1. CASE mem'[b].seq = Len(log[job'[b]])
    <3>1. Len(log[job'[b]]) \in Nat
      BY <1>5 DEF IInv, TypeOK
    <3> QED BY <1>1, <2>1, <3>1
  <2>2. CASE job'[b] = job[b] /\ mem'[b] = mem[b]
    BY <1>1, <1>5, <2>2 DEF IInv, CounterInv, UpToDate
  <2> QED BY <1>5, <2>1, <2>2 DEF Quiet
<1>6. \A s \in Runs : future'[s] # "none" => disk'[s].seq = Len(log'[s])
  BY <1>1 DEF Quiet, IInv, CounterInv, UpToDate
<1>7. pc'[Service] \in {"creating", "queueing"}
        => disk'[job'[Service]].seq = Len(log'[job'[Service]])
  BY <1>1 DEF Quiet, IInv, CounterInv, UpToDate
<1> QED BY <1>2, <1>3, <1>5, <1>6, <1>7 DEF IInv, CounterInv, UpToDate


\* What submit, close and recovery do between their writes is quiet.
LEMMA QuietServiceSteps ==
    ASSUME IInv,
           \/ Schedule \/ SubmitRaises \/ BeginClose \/ FinishClose \/ Restart \/ Serve
           \/ \E r \in Runs : CloseAsks(r) \/ CloseSettles(r) \/ CloseSkips(r)
    PROVE  TypeOK' /\ Owners' /\ Quiet
<1> USE RunLifecycleAssumption DEF At, Goto, Actors, persisted, pool
<1>0. TypeOK /\ Owners
  BY DEF IInv, CounterInv
<1>1. CASE Schedule
  <2>3. TypeOK'
    BY <1>1, <1>0 DEF Schedule, TypeOK, ServicePCs, CancellerPCs, WorkerPCs, Absent, States,
       Statuses, Futures, Owners, InUse
  <2>4. Owners'
    BY <1>1, <1>0 DEF Schedule, TypeOK, Owners, InUse, ServicePCs, CancellerPCs, WorkerPCs
  <2>5. Quiet
    BY <1>1, <1>0 DEF Schedule, TypeOK, Owners, InUse, Quiet, ServicePCs, CancellerPCs,
       WorkerPCs, IInv, CounterInv
  <2> QED BY <2>3, <2>4, <2>5
<1>2. CASE SubmitRaises
  <2>3. TypeOK'
    BY <1>2, <1>0 DEF SubmitRaises, TypeOK, ServicePCs, CancellerPCs, WorkerPCs, Absent,
       States, Statuses
  <2>4. Owners'
    BY <1>2, <1>0 DEF SubmitRaises, TypeOK, Owners, InUse, ServicePCs, CancellerPCs, WorkerPCs
  <2>5. Quiet
    BY <1>2, <1>0 DEF SubmitRaises, TypeOK, Owners, InUse, Quiet, ServicePCs, CancellerPCs,
       WorkerPCs
  <2> QED BY <2>3, <2>4, <2>5
<1>3. CASE BeginClose
  <2>3. TypeOK'
    BY <1>3, <1>0 DEF BeginClose, TypeOK, ServicePCs, CancellerPCs, WorkerPCs
  <2>4. Owners'
    BY <1>3, <1>0 DEF BeginClose, TypeOK, Owners, InUse, ServicePCs, CancellerPCs, WorkerPCs
  <2>5. Quiet
    BY <1>3, <1>0 DEF BeginClose, TypeOK, Owners, InUse, Quiet, ServicePCs, CancellerPCs,
       WorkerPCs
  <2> QED BY <2>3, <2>4, <2>5
<1>4. CASE FinishClose
  <2>3. TypeOK'
    BY <1>4, <1>0 DEF FinishClose, TypeOK, ServicePCs, CancellerPCs, WorkerPCs
  <2>4. Owners'
    BY <1>4, <1>0 DEF FinishClose, TypeOK, Owners, InUse, ServicePCs, CancellerPCs, WorkerPCs
  <2>5. Quiet
    BY <1>4, <1>0 DEF FinishClose, TypeOK, Owners, InUse, Quiet, ServicePCs, CancellerPCs,
       WorkerPCs
  <2> QED BY <2>3, <2>4, <2>5
<1>5. CASE Restart
  <2>3. TypeOK'
    BY <1>5, <1>0 DEF Restart, TypeOK, ServicePCs, CancellerPCs, WorkerPCs
  <2>4. Owners'
    BY <1>5, <1>0 DEF Restart, TypeOK, Owners, InUse, ServicePCs, CancellerPCs, WorkerPCs
  <2>5. Quiet
    BY <1>5, <1>0 DEF Restart, TypeOK, Owners, InUse, Quiet, ServicePCs, CancellerPCs, WorkerPCs
  <2> QED BY <2>3, <2>4, <2>5
<1>6. CASE Serve
  <2>3. TypeOK'
    BY <1>6, <1>0 DEF Serve, TypeOK, ServicePCs, CancellerPCs, WorkerPCs, Absent, States,
       Statuses
  <2>4. Owners'
    BY <1>6, <1>0 DEF Serve, TypeOK, Owners, InUse, ServicePCs, CancellerPCs, WorkerPCs
  <2>5. Quiet
    BY <1>6, <1>0 DEF Serve, TypeOK, Owners, InUse, Quiet, ServicePCs, CancellerPCs, WorkerPCs
  <2> QED BY <2>3, <2>4, <2>5
<1>7. ASSUME NEW r \in Runs, CloseAsks(r)
      PROVE  TypeOK' /\ Owners' /\ Quiet
  <2>2. Loaded(r) \in States /\ Loaded(r).seq = Len(log[r])
    BY LoadedFacts
  <2>3. TypeOK'
    BY <1>7, <1>0, <2>2 DEF CloseAsks, TypeOK, ServicePCs, CancellerPCs, WorkerPCs
  <2>4. Owners'
    BY <1>7, <1>0, <2>2 DEF CloseAsks, TypeOK, Owners, InUse, ServicePCs, CancellerPCs,
       WorkerPCs
  <2>5. Quiet
    BY <1>7, <1>0, <2>2 DEF CloseAsks, TypeOK, Owners, InUse, Quiet, ServicePCs, CancellerPCs,
       WorkerPCs
  <2> QED BY <2>3, <2>4, <2>5
<1>8. ASSUME NEW r \in Runs, CloseSettles(r)
      PROVE  TypeOK' /\ Owners' /\ Quiet
  <2>2. Loaded(r) \in States /\ Loaded(r).seq = Len(log[r])
    BY LoadedFacts
  <2>3. TypeOK'
    BY <1>8, <1>0, <2>2 DEF CloseSettles, TypeOK, ServicePCs, CancellerPCs, WorkerPCs,
       Cancellable, Futures
  <2>4. Owners'
    BY <1>8, <1>0, <2>2 DEF CloseSettles, TypeOK, Owners, InUse, ServicePCs, CancellerPCs,
       WorkerPCs, Cancellable, Futures
  <2>5. Quiet
    BY <1>8, <1>0, <2>2 DEF CloseSettles, TypeOK, Owners, InUse, Quiet, ServicePCs,
       CancellerPCs, WorkerPCs, Cancellable
  <2> QED BY <2>3, <2>4, <2>5
<1>9. ASSUME NEW r \in Runs, CloseSkips(r)
      PROVE  TypeOK' /\ Owners' /\ Quiet
  <2>3. TypeOK'
    BY <1>9, <1>0 DEF CloseSkips, TypeOK, ServicePCs, CancellerPCs, WorkerPCs, threads
  <2>4. Owners'
    BY <1>9, <1>0 DEF CloseSkips, TypeOK, Owners, InUse, ServicePCs, CancellerPCs, WorkerPCs,
       threads
  <2>5. Quiet
    BY <1>9, <1>0 DEF CloseSkips, TypeOK, Owners, InUse, Quiet, ServicePCs, CancellerPCs,
       WorkerPCs, threads
  <2> QED BY <2>3, <2>4, <2>5
<1> QED BY <1>1, <1>2, <1>3, <1>4, <1>5, <1>6, <1>7, <1>8, <1>9

\* What a worker does between its writes is quiet.
LEMMA QuietWorkerSteps ==
    ASSUME IInv, NEW r \in Runs,
           \/ StartWork(r) \/ DropCancelled(r) \/ LoadRun(r) \/ CheckStops(r)
           \/ CheckPasses(r) \/ WorkDone(r) \/ WorkFails(r) \/ TrainingSeesCancel(r)
           \/ BuildReport(r) \/ ReportFails(r) \/ LeaveRun(r)
    PROVE  TypeOK' /\ Owners' /\ Quiet
<1> USE RunLifecycleAssumption DEF At, Goto, Actors, persisted, pool
<1>0. TypeOK /\ Owners
  BY DEF IInv, CounterInv
<1>1. CASE StartWork(r)
  <2>3. TypeOK'
    BY <1>1, <1>0 DEF StartWork, TypeOK, ServicePCs, CancellerPCs, WorkerPCs, Futures, Picked
  <2>4. Owners'
    BY <1>1, <1>0 DEF StartWork, TypeOK, Owners, InUse, ServicePCs, CancellerPCs, WorkerPCs,
       Picked
  <2>5. Quiet
    BY <1>1, <1>0 DEF StartWork, TypeOK, Owners, InUse, Quiet, ServicePCs, CancellerPCs,
       WorkerPCs, Picked
  <2> QED BY <2>3, <2>4, <2>5
<1>2. CASE DropCancelled(r)
  <2>3. TypeOK'
    BY <1>2, <1>0 DEF DropCancelled, TypeOK, ServicePCs, CancellerPCs, WorkerPCs, Picked,
       threads
  <2>4. Owners'
    BY <1>2, <1>0 DEF DropCancelled, TypeOK, Owners, InUse, ServicePCs, CancellerPCs,
       WorkerPCs, threads
  <2>5. Quiet
    BY <1>2, <1>0 DEF DropCancelled, TypeOK, Owners, InUse, Quiet, ServicePCs, CancellerPCs,
       WorkerPCs, threads
  <2> QED BY <2>3, <2>4, <2>5
<1>3. CASE LoadRun(r)
  <2>1. PICK p \in {"check", "leaving"} : pc' = [pc EXCEPT ![r] = p]
    BY <1>3 DEF LoadRun
  <2>2. Loaded(r) \in States /\ Loaded(r).seq = Len(log[r])
    BY LoadedFacts
  <2>3. TypeOK'
    BY <1>3, <1>0, <2>1, <2>2 DEF LoadRun, TypeOK, ServicePCs, CancellerPCs, WorkerPCs
  <2>4. Owners'
    BY <1>3, <1>0, <2>1, <2>2 DEF LoadRun, TypeOK, Owners, InUse, ServicePCs, CancellerPCs,
       WorkerPCs
  <2>5. Quiet
    BY <1>3, <1>0, <2>1, <2>2 DEF LoadRun, TypeOK, Owners, InUse, Quiet, ServicePCs,
       CancellerPCs, WorkerPCs
  <2> QED BY <2>3, <2>4, <2>5
<1>4. CASE CheckStops(r)
  <2>1. disk[r].seq = Len(log[r])
    BY <1>4, <1>0 DEF CheckStops, IInv, CounterInv, Owners, UpToDate
  <2>3. TypeOK'
    BY <1>4, <1>0, <2>1 DEF CheckStops, TypeOK, ServicePCs, CancellerPCs, WorkerPCs
  <2>4. Owners'
    BY <1>4, <1>0, <2>1 DEF CheckStops, TypeOK, Owners, InUse, ServicePCs, CancellerPCs,
       WorkerPCs
  <2>5. Quiet
    BY <1>4, <1>0, <2>1 DEF CheckStops, TypeOK, Owners, InUse, Quiet, ServicePCs,
       CancellerPCs, WorkerPCs
  <2> QED BY <2>3, <2>4, <2>5
<1>5. CASE CheckPasses(r)
  <2>3. TypeOK'
    BY <1>5, <1>0 DEF CheckPasses, TypeOK, ServicePCs, CancellerPCs, WorkerPCs
  <2>4. Owners'
    BY <1>5, <1>0 DEF CheckPasses, TypeOK, Owners, InUse, ServicePCs, CancellerPCs, WorkerPCs
  <2>5. Quiet
    BY <1>5, <1>0 DEF CheckPasses, TypeOK, Owners, InUse, Quiet, ServicePCs, CancellerPCs,
       WorkerPCs
  <2> QED BY <2>3, <2>4, <2>5
<1>6. CASE WorkDone(r)
  <2>1. todo'[r] \in Seq(Announcements)
    BY <1>6, <1>0 DEF WorkDone, Note, Announcements, EventTypes, TypeOK, States
  <2>3. TypeOK'
    BY <1>6, <1>0, <2>1 DEF WorkDone, TypeOK, ServicePCs, CancellerPCs, WorkerPCs, Note,
       Announcements, EventTypes, States
  <2>4. Owners'
    BY <1>6, <1>0, <2>1 DEF WorkDone, TypeOK, Owners, InUse, ServicePCs, CancellerPCs, WorkerPCs
  <2>5. Quiet
    BY <1>6, <1>0, <2>1 DEF WorkDone, TypeOK, Owners, InUse, Quiet, ServicePCs, CancellerPCs,
       WorkerPCs
  <2> QED BY <2>3, <2>4, <2>5
<1>7. CASE WorkFails(r)
  <2>3. TypeOK'
    BY <1>7, <1>0 DEF WorkFails, TypeOK, ServicePCs, CancellerPCs, WorkerPCs
  <2>4. Owners'
    BY <1>7, <1>0 DEF WorkFails, TypeOK, Owners, InUse, ServicePCs, CancellerPCs, WorkerPCs
  <2>5. Quiet
    BY <1>7, <1>0 DEF WorkFails, TypeOK, Owners, InUse, Quiet, ServicePCs, CancellerPCs,
       WorkerPCs
  <2> QED BY <2>3, <2>4, <2>5
<1>8. CASE TrainingSeesCancel(r)
  <2>3. TypeOK'
    BY <1>8, <1>0 DEF TrainingSeesCancel, TypeOK, ServicePCs, CancellerPCs, WorkerPCs
  <2>4. Owners'
    BY <1>8, <1>0 DEF TrainingSeesCancel, TypeOK, Owners, InUse, ServicePCs, CancellerPCs,
       WorkerPCs
  <2>5. Quiet
    BY <1>8, <1>0 DEF TrainingSeesCancel, TypeOK, Owners, InUse, Quiet, ServicePCs,
       CancellerPCs, WorkerPCs
  <2> QED BY <2>3, <2>4, <2>5
<1>9. CASE BuildReport(r)
  <2>3. TypeOK'
    BY <1>9, <1>0 DEF BuildReport, TypeOK, ServicePCs, CancellerPCs, WorkerPCs
  <2>4. Owners'
    BY <1>9, <1>0 DEF BuildReport, TypeOK, Owners, InUse, ServicePCs, CancellerPCs, WorkerPCs
  <2>5. Quiet
    BY <1>9, <1>0 DEF BuildReport, TypeOK, Owners, InUse, Quiet, ServicePCs, CancellerPCs,
       WorkerPCs
  <2> QED BY <2>3, <2>4, <2>5
<1>10. CASE ReportFails(r)
  <2>1. Note("report_failed", "completed") \in Announcements
    BY <1>10, <1>0 DEF ReportFails, Note, Announcements, EventTypes, Statuses, TerminalStatuses
  <2>3. TypeOK'
    BY <1>10, <1>0, <2>1 DEF ReportFails, TypeOK, ServicePCs, CancellerPCs, WorkerPCs
  <2>4. Owners'
    BY <1>10, <1>0, <2>1 DEF ReportFails, TypeOK, Owners, InUse, ServicePCs, CancellerPCs,
       WorkerPCs
  <2>5. Quiet
    BY <1>10, <1>0, <2>1 DEF ReportFails, TypeOK, Owners, InUse, Quiet, ServicePCs,
       CancellerPCs, WorkerPCs
  <2> QED BY <2>3, <2>4, <2>5
<1>11. CASE LeaveRun(r)
  <2>3. TypeOK'
    BY <1>11, <1>0 DEF LeaveRun, TypeOK, ServicePCs, CancellerPCs, WorkerPCs, Absent, States,
       Statuses, Futures
  <2>4. Owners'
    BY <1>11, <1>0 DEF LeaveRun, TypeOK, Owners, InUse, ServicePCs, CancellerPCs, WorkerPCs
  <2>5. Quiet
    BY <1>11, <1>0 DEF LeaveRun, TypeOK, Owners, InUse, Quiet, ServicePCs, CancellerPCs,
       WorkerPCs
  <2> QED BY <2>3, <2>4, <2>5
<1> QED BY <1>1, <1>2, <1>3, <1>4, <1>5, <1>6, <1>7, <1>8, <1>9, <1>10, <1>11

\* What RunService.cancel does between its writes is quiet.
LEMMA QuietCancelSteps ==
    ASSUME IInv, NEW a \in Cancellers \cup {Service},
           \/ \E r \in Runs : CancelLoad(a, r)
           \/ RefuseCancel(a) \/ CancelFuture(a) \/ LeaveToWorker(a)
           \/ ReloadLatest(a) \/ CancelTooLate(a) \/ CancelReturns(a)
    PROVE  TypeOK' /\ Owners' /\ Quiet
<1> USE RunLifecycleAssumption DEF At, Goto, Actors, persisted, pool
<1>0. TypeOK /\ Owners
  BY DEF IInv, CounterInv
<1>1. ASSUME NEW r \in Runs, CancelLoad(a, r)
      PROVE  TypeOK' /\ Owners' /\ Quiet
  <2>2. Loaded(r) \in States /\ Loaded(r).seq = Len(log[r])
    BY LoadedFacts
  <2>3. TypeOK'
    BY <1>1, <1>0, <2>2 DEF CancelLoad, TypeOK, ServicePCs, CancellerPCs, WorkerPCs
  <2>4. Owners'
    BY <1>1, <1>0, <2>2 DEF CancelLoad, TypeOK, Owners, InUse, ServicePCs, CancellerPCs,
       WorkerPCs
  <2>5. Quiet
    BY <1>1, <1>0, <2>2 DEF CancelLoad, TypeOK, Owners, InUse, Quiet, ServicePCs,
       CancellerPCs, WorkerPCs
  <2> QED BY <2>3, <2>4, <2>5
<1>2. CASE RefuseCancel(a)
  <2>3. TypeOK'
    BY <1>2, <1>0 DEF RefuseCancel, TypeOK, ServicePCs, CancellerPCs, WorkerPCs, Finish, Home,
       Absent, States, Statuses
  <2>4. Owners'
    BY <1>2, <1>0 DEF RefuseCancel, TypeOK, Owners, InUse, ServicePCs, CancellerPCs,
       WorkerPCs, Finish, Home
  <2>5. Quiet
    BY <1>2, <1>0 DEF RefuseCancel, TypeOK, Owners, InUse, Quiet, ServicePCs, CancellerPCs,
       WorkerPCs, Finish, Home
  <2> QED BY <2>3, <2>4, <2>5
<1>3. CASE CancelFuture(a)
  <2>3. TypeOK'
    BY <1>3, <1>0 DEF CancelFuture, TypeOK, ServicePCs, CancellerPCs, WorkerPCs, Cancellable,
       Futures
  <2>4. Owners'
    BY <1>3, <1>0 DEF CancelFuture, TypeOK, Owners, InUse, ServicePCs, CancellerPCs,
       WorkerPCs, Cancellable
  <2>5. Quiet
    BY <1>3, <1>0 DEF CancelFuture, TypeOK, Owners, InUse, Quiet, ServicePCs, CancellerPCs,
       WorkerPCs, Cancellable
  <2> QED BY <2>3, <2>4, <2>5
<1>4. CASE LeaveToWorker(a)
  <2>3. TypeOK'
    BY <1>4, <1>0 DEF LeaveToWorker, TypeOK, ServicePCs, CancellerPCs, WorkerPCs, Finish,
       Home, Absent, States, Statuses
  <2>4. Owners'
    BY <1>4, <1>0 DEF LeaveToWorker, TypeOK, Owners, InUse, ServicePCs, CancellerPCs,
       WorkerPCs, Finish, Home
  <2>5. Quiet
    BY <1>4, <1>0 DEF LeaveToWorker, TypeOK, Owners, InUse, Quiet, ServicePCs, CancellerPCs,
       WorkerPCs, Finish, Home
  <2> QED BY <2>3, <2>4, <2>5
<1>5. CASE ReloadLatest(a)
  <2>1. job[a] \in Runs
    BY <1>0, <1>5 DEF ReloadLatest, At, Owners, InUse
  <2>2. Loaded(job[a]) \in States /\ Loaded(job[a]).seq = Len(log[job[a]])
    BY <2>1, LoadedFacts
  <2>3. TypeOK'
    BY <1>5, <1>0, <2>1, <2>2 DEF ReloadLatest, TypeOK, ServicePCs, CancellerPCs, WorkerPCs
  <2>4. Owners'
    BY <1>5, <1>0, <2>1, <2>2 DEF ReloadLatest, TypeOK, Owners, InUse, ServicePCs,
       CancellerPCs, WorkerPCs
  <2>5. Quiet
    BY <1>5, <1>0, <2>1, <2>2 DEF ReloadLatest, TypeOK, Owners, InUse, Quiet, ServicePCs,
       CancellerPCs, WorkerPCs
  <2> QED BY <2>3, <2>4, <2>5
<1>6. CASE CancelTooLate(a)
  <2>3. TypeOK'
    BY <1>6, <1>0 DEF CancelTooLate, TypeOK, ServicePCs, CancellerPCs, WorkerPCs
  <2>4. Owners'
    BY <1>6, <1>0 DEF CancelTooLate, TypeOK, Owners, InUse, ServicePCs, CancellerPCs, WorkerPCs
  <2>5. Quiet
    BY <1>6, <1>0 DEF CancelTooLate, TypeOK, Owners, InUse, Quiet, ServicePCs, CancellerPCs,
       WorkerPCs
  <2> QED BY <2>3, <2>4, <2>5
<1>7. CASE CancelReturns(a)
  <2>3. TypeOK'
    BY <1>7, <1>0 DEF CancelReturns, TypeOK, ServicePCs, CancellerPCs, WorkerPCs, Finish,
       Home, Absent, States, Statuses
  <2>4. Owners'
    BY <1>7, <1>0 DEF CancelReturns, TypeOK, Owners, InUse, ServicePCs, CancellerPCs,
       WorkerPCs, Finish, Home
  <2>5. Quiet
    BY <1>7, <1>0 DEF CancelReturns, TypeOK, Owners, InUse, Quiet, ServicePCs, CancellerPCs,
       WorkerPCs, Finish, Home
  <2> QED BY <2>3, <2>4, <2>5
<1> QED BY <1>1, <1>2, <1>3, <1>4, <1>5, <1>6, <1>7

\* The death of the process between two writes is quiet.
LEMMA QuietCrash ==
    ASSUME IInv, Crash
    PROVE  TypeOK' /\ Owners' /\ Quiet
  BY RunLifecycleAssumption DEF Crash, LoseThreads, IInv, TypeOK, CounterInv, Owners, InUse,
     Quiet, Actors, persisted, ServicePCs, CancellerPCs, WorkerPCs, Absent, States, Statuses,
     Futures

-----------------------------------------------------------------------------
(* Steps that save: thread a writes instance m of Run r.                     *)

Saved(a, r, m) ==
    /\ m \in States
    /\ m.status # "absent"
    /\ m.seq <= Len(log[r])
    /\ UpToDate(r) \/ m.seq = Len(log[r])
    /\ Save(a, r, m)
    /\ job' = [job EXCEPT ![a] = r]
    /\ UNCHANGED <<log, future>>
    /\ pc'[Service] \in {"creating", "queueing"} =>
          pc[Service] \in {"creating", "queueing"} /\ job'[Service] = job[Service]

\* A thread that saves its merged copy keeps the counters.
LEMMA SavedKeepsCounters ==
    ASSUME IInv, NEW a \in Actors, NEW r \in Runs, NEW m, Saved(a, r, m), TypeOK', Owners'
    PROVE  IInv'
<1>1. /\ DenseLog'
      /\ \A s \in Runs : disk'[s].seq <= Len(log'[s])
      /\ \A b \in Actors : job'[b] \in Runs =>
            /\ mem'[b].seq <= Len(log'[job'[b]])
            /\ disk'[job'[b]].seq = Len(log'[job'[b]]) \/ mem'[b].seq = Len(log'[job'[b]])
      /\ \A s \in Runs : UpToDate(s) => UpToDate(s)'
  BY SaveKeepsCounters DEF Saved
<1>2. \A s \in Runs : future'[s] # "none" => disk'[s].seq = Len(log'[s])
  BY <1>1 DEF Saved, IInv, CounterInv, UpToDate
<1>3. pc'[Service] \in {"creating", "queueing"}
        => disk'[job'[Service]].seq = Len(log'[job'[Service]])
  <2>1. ASSUME pc'[Service] \in {"creating", "queueing"}
        PROVE  job'[Service] \in Runs /\ UpToDate(job'[Service])
    BY <2>1 DEF Saved, IInv, CounterInv, Owners, InUse, Actors
  <2> QED BY <1>1, <2>1 DEF UpToDate
<1> QED BY <1>1, <1>2, <1>3 DEF IInv, CounterInv, UpToDate

\* The events a transition leaves to be written are announcements.
LEMMA NoteFacts ==
    ASSUME NEW t \in EventTypes, NEW u \in EventTypes, NEW s \in Statuses, NEW v \in Statuses
    PROVE  /\ <<Note(t, s)>> \in Seq(Announcements)
           /\ <<StatusChanged(s)>> \o <<>> \in Seq(Announcements)
           /\ <<StatusChanged(s)>> \o <<Note(u, v)>> \in Seq(Announcements)
           /\ <<StatusChanged(s), Note(u, v)>> \in Seq(Announcements)
  BY DEF Note, StatusChanged, Announcements, EventTypes

\* RunState.transition saves the copy with its new status and nothing else.
LEMMA TransitionFacts ==
    ASSUME IInv, NEW a \in Actors, job[a] \in Runs, NEW s \in Statuses \ {"absent"},
           NEW more, Transition(a, s, more), <<StatusChanged(s)>> \o more \in
              Seq(Announcements),
           UNCHANGED <<log, job, future>>,
           pc'[Service] \in {"creating", "queueing"} => pc[Service] \in {"creating", "queueing"}
    PROVE  /\ Saved(a, job[a], [mem[a] EXCEPT !.status = s])
           /\ disk' \in [Runs -> States] /\ mem' \in [Actors -> States]
           /\ todo' \in [Actors -> Seq(Announcements)]
           /\ \A b \in Actors \ {a} : todo'[b] = todo[b]
<1> DEFINE m == [mem[a] EXCEPT !.status = s]
<1>1. /\ mem[a] \in States /\ mem[a].seq <= Len(log[job[a]])
      /\ UpToDate(job[a]) \/ mem[a].seq = Len(log[job[a]])
      /\ job \in [Actors -> Runs \cup {NoRun}] /\ todo \in [Actors -> Seq(Announcements)]
  BY DEF IInv, TypeOK, CounterInv
<1>2. m \in States /\ m.seq = mem[a].seq /\ m.status = s
  BY <1>1 DEF States
<1>3. Save(a, job[a], m)
  BY DEF Transition
<1>4. job' = [job EXCEPT ![a] = job[a]]
  BY <1>1
<1>5. Saved(a, job[a], m)
  BY <1>1, <1>2, <1>3, <1>4 DEF Saved
<1>6. disk' \in [Runs -> States] /\ mem' \in [Actors -> States]
  BY <1>1, <1>2, <1>3, SaveFacts
<1> QED BY <1>1, <1>5, <1>6 DEF Transition

\* A thread may go from where it is to p.
MayGo(a, p) ==
    /\ a = Service => p \in ServicePCs
    /\ a \in Cancellers => p \in CancellerPCs
    /\ a \in Runs => p \in WorkerPCs /\ pc[a] # "idle"
    /\ a = Service /\ p \in {"creating", "queueing"} => pc[a] \in {"creating", "queueing"}

\* A thread that makes a transition and goes on keeps the invariant.
LEMMA TransitionStep ==
    ASSUME IInv, NEW a \in Actors, job[a] \in Runs, NEW s \in Statuses \ {"absent"},
           NEW more, Transition(a, s, more), <<StatusChanged(s)>> \o more \in
              Seq(Announcements),
           NEW p, Goto(a, p), MayGo(a, p), UNCHANGED <<log, job, pool, restarts>>
    PROVE  IInv'
<1> USE RunLifecycleAssumption DEF Goto, Actors, pool
<1>0. TypeOK /\ Owners
  BY DEF IInv, CounterInv
<1>1. pc' = [pc EXCEPT ![a] = p] /\ pc'[Service] \in ServicePCs
  BY <1>0 DEF TypeOK, Owners, MayGo
<1>2. pc'[Service] \in {"creating", "queueing"} => pc[Service] \in {"creating", "queueing"}
  BY <1>0, <1>1 DEF TypeOK, MayGo
<1>3. /\ Saved(a, job[a], [mem[a] EXCEPT !.status = s])
      /\ disk' \in [Runs -> States] /\ mem' \in [Actors -> States]
      /\ todo' \in [Actors -> Seq(Announcements)]
      /\ \A b \in Actors \ {a} : todo'[b] = todo[b]
  BY <1>2, TransitionFacts
<1>4. TypeOK'
  BY <1>0, <1>1, <1>3 DEF TypeOK, MayGo
<1>5. Owners'
  BY <1>0, <1>1, <1>3 DEF TypeOK, Owners, InUse, MayGo, ServicePCs, CancellerPCs, WorkerPCs
<1> QED BY <1>3, <1>4, <1>5, SavedKeepsCounters

\* The actions that make a transition.
LEMMA TransitionSteps ==
    ASSUME IInv,
           \/ Queue
           \/ \E r \in Runs : EnterStage(r) \/ Complete(r) \/ FailRun(r)
           \/ \E a \in Actors : CancelRun(a)
    PROVE  IInv'
<1> USE RunLifecycleAssumption DEF At, Actors
<1>0. TypeOK /\ Owners
  BY DEF IInv, CounterInv
<1>1. CASE Queue
  <2>1. job[Service] \in Runs /\ MayGo(Service, "queueing")
    BY <1>0, <1>1 DEF Queue, Owners, InUse, MayGo, ServicePCs
  <2>2. <<StatusChanged("queued")>> \o <<Note("queued", "queued")>> \in Seq(Announcements)
    BY NoteFacts DEF EventTypes, Statuses, ActiveStatuses
  <2> QED BY <1>1, <2>1, <2>2, TransitionStep DEF Queue, Statuses, ActiveStatuses
<1>2. ASSUME NEW r \in Runs, EnterStage(r)
      PROVE  IInv'
  <2>1. job[r] \in Runs /\ MayGo(r, "work")
    BY <1>0, <1>2 DEF EnterStage, Owners, InUse, MayGo, WorkerPCs
  <2>2. mem[r].status \in Statuses
    BY <1>0 DEF TypeOK, States
  <2>3. NextStage[mem[r].status] \in AllowedTransitions[mem[r].status]
    BY <1>2 DEF EnterStage, Transition, CanBecome
  <2>4. NextStage[mem[r].status] \in Statuses \ {"absent"}
    BY <2>2, <2>3 DEF AllowedTransitions, Stopped, Statuses, ActiveStatuses, TerminalStatuses
  <2>5. <<StatusChanged(NextStage[mem[r].status])>> \o <<>> \in Seq(Announcements)
    BY <2>4, NoteFacts DEF EventTypes
  <2> QED BY <1>2, <2>1, <2>4, <2>5, TransitionStep DEF EnterStage
<1>3. ASSUME NEW r \in Runs, Complete(r)
      PROVE  IInv'
  <2>1. job[r] \in Runs /\ MayGo(r, "report")
    BY <1>0, <1>3 DEF Complete, Owners, InUse, MayGo, WorkerPCs
  <2>2. <<StatusChanged("completed")>> \o <<>> \in Seq(Announcements)
    BY NoteFacts DEF EventTypes, Statuses, TerminalStatuses
  <2> QED BY <1>3, <2>1, <2>2, TransitionStep DEF Complete, Statuses, TerminalStatuses
<1>4. ASSUME NEW r \in Runs, FailRun(r)
      PROVE  IInv'
  <2>1. job[r] \in Runs /\ MayGo(r, "leaving")
    BY <1>0, <1>4 DEF FailRun, Owners, InUse, MayGo, WorkerPCs
  <2>2. <<StatusChanged("failed")>> \o <<Note("failed", "failed")>> \in Seq(Announcements)
    BY NoteFacts DEF EventTypes, Statuses, TerminalStatuses
  <2> QED BY <1>4, <2>1, <2>2, TransitionStep DEF FailRun, Statuses, TerminalStatuses
<1>5. ASSUME NEW a \in Actors, CancelRun(a)
      PROVE  IInv'
  <2> DEFINE p == IF a \in Runs THEN "leaving" ELSE "settled"
  <2>1. job[a] \in Runs /\ MayGo(a, p)
    BY <1>0, <1>5 DEF CancelRun, Owners, InUse, MayGo, WorkerPCs, CancellerPCs, ServicePCs
  <2>2. <<StatusChanged("cancelled")>> \o <<Note("cancelled", "cancelled")>> \in
     Seq(Announcements)
    BY NoteFacts DEF EventTypes, Statuses, TerminalStatuses
  <2> QED BY <1>5, <2>1, <2>2, TransitionStep DEF CancelRun, Statuses, TerminalStatuses
<1> QED BY <1>1, <1>2, <1>3, <1>4, <1>5

\* The actions that save without a transition of their own thread.
LEMMA OtherSavingSteps ==
    ASSUME IInv,
           \/ ScheduleFails
           \/ \E r \in Runs : Recover(r)
           \/ \E a \in Cancellers \cup {Service} : RequestCancel(a)
    PROVE  IInv'
<1> USE RunLifecycleAssumption DEF At, Goto, Actors, pool
<1>0. TypeOK /\ Owners
  BY DEF IInv, CounterInv
<1>n. <<StatusChanged("interrupted"), Note("interrupted", "interrupted")>> \in
   Seq(Announcements)
  BY NoteFacts DEF EventTypes, Statuses, TerminalStatuses
<1>i. ASSUME NEW r \in Runs
      PROVE  LET m == [Loaded(r) EXCEPT !.status = "interrupted"]
             IN  m \in States /\ m.status # "absent" /\ m.seq = Len(log[r])
  <2>1. Loaded(r) \in States /\ Loaded(r).seq = Len(log[r])
    BY LoadedFacts
  <2> QED BY <2>1 DEF States, Statuses, TerminalStatuses
<1>1. CASE ScheduleFails
  <2> DEFINE r == job[Service]
             m == [Loaded(r) EXCEPT !.status = "interrupted"]
  <2>1. r \in Runs
    BY <1>0, <1>1 DEF ScheduleFails, Owners, InUse
  <2>2. m \in States /\ m.status # "absent" /\ m.seq = Len(log[r]) /\ m.seq <= Len(log[r])
    BY <1>0, <1>i, <2>1 DEF TypeOK
  <2>3. Save(Service, r, m)
    BY <1>1 DEF ScheduleFails
  <2>4. job' = [job EXCEPT ![Service] = r]
    BY <1>0, <1>1 DEF ScheduleFails, TypeOK
  <2>5. pc' = [pc EXCEPT ![Service] = "unscheduled"] /\ pc'[Service] = "unscheduled"
    BY <1>0, <1>1 DEF ScheduleFails, TypeOK
  <2> HIDE DEF m
  <2>6. Saved(Service, r, m)
    BY <1>1, <2>2, <2>3, <2>4, <2>5 DEF Saved, ScheduleFails
  <2>7. disk' \in [Runs -> States] /\ mem' \in [Actors -> States]
    BY <2>1, <2>2, <2>3, SaveFacts
  <2>8. TypeOK'
    BY <1>0, <1>1, <1>n, <2>5, <2>7 DEF ScheduleFails, TypeOK, ServicePCs
  <2>9. Owners'
    BY <1>0, <1>1, <2>1, <2>5 DEF ScheduleFails, TypeOK, Owners, InUse, ServicePCs
  <2> QED BY <2>1, <2>6, <2>8, <2>9, SavedKeepsCounters
<1>2. ASSUME NEW r \in Runs, Recover(r)
      PROVE  IInv'
  <2> DEFINE m == [Loaded(r) EXCEPT !.status = "interrupted"]
  <2>1. m \in States /\ m.status # "absent" /\ m.seq = Len(log[r]) /\ m.seq <= Len(log[r])
    BY <1>0, <1>i DEF TypeOK
  <2>2. Saved(Service, r, m)
    BY <1>2, <2>1 DEF Saved, Recover
  <2>s. Save(Service, r, m)
    BY <1>2 DEF Recover
  <2> HIDE DEF m
  <2>3. disk' \in [Runs -> States] /\ mem' \in [Actors -> States]
    BY <2>1, <2>s, SaveFacts
  <2>4. TypeOK'
    BY <1>0, <1>2, <1>n, <2>3 DEF Recover, TypeOK
  <2>5. Owners'
    BY <1>0, <1>2 DEF Recover, TypeOK, Owners, InUse
  <2> QED BY <2>2, <2>4, <2>5, SavedKeepsCounters
<1>3. ASSUME NEW a \in Cancellers \cup {Service}, RequestCancel(a)
      PROVE  IInv'
  <2> DEFINE r == job[a]
             m == [mem[a] EXCEPT !.cancel = TRUE]
  <2>1. r \in Runs
    BY <1>0, <1>3 DEF RequestCancel, Owners, InUse
  <2>2. /\ mem[a] \in States /\ mem[a].seq <= Len(log[r])
        /\ UpToDate(r) \/ mem[a].seq = Len(log[r])
    BY <2>1 DEF IInv, TypeOK, CounterInv
  <2>3. m \in States /\ m.status = mem[a].status /\ m.seq = mem[a].seq
    BY <2>2 DEF States
  <2>4. mem[a].status \in ActiveStatuses /\ m.status # "absent"
    BY <1>3, <2>3 DEF RequestCancel, ActiveStatuses
  <2>5. Save(a, r, m)
    BY <1>3 DEF RequestCancel
  <2>6. job' = [job EXCEPT ![a] = r]
    BY <1>0, <1>3 DEF RequestCancel, TypeOK
  <2>7. Saved(a, r, m)
    BY <1>0, <1>3, <2>2, <2>3, <2>4, <2>5, <2>6 DEF Saved, RequestCancel, TypeOK
  <2>8. disk' \in [Runs -> States] /\ mem' \in [Actors -> States]
    BY <2>1, <2>2, <2>3, <2>5, SaveFacts
  <2>9. <<Note("cancel_requested", mem[a].status)>> \in Seq(Announcements)
    BY <2>4, NoteFacts DEF EventTypes, Statuses
  <2>10. TypeOK'
    BY <1>0, <1>3, <2>8, <2>9 DEF RequestCancel, TypeOK, ServicePCs
  <2>11. Owners'
    BY <1>0, <1>3, <2>1 DEF RequestCancel, TypeOK, Owners, InUse, ServicePCs, CancellerPCs
  <2> QED BY <2>1, <2>7, <2>10, <2>11, SavedKeepsCounters
<1> QED BY <1>1, <1>2, <1>3

-----------------------------------------------------------------------------
(* Steps that write the log, and the creation of a Run.                      *)

\* What an event appends is the next number after the last one.
LEMMA AppendedFacts ==
    ASSUME IInv, NEW a \in Actors, todo[a] # <<>>
    PROVE  LET r == job[a]
               n == Len(log[r])
           IN  /\ r \in Runs
               /\ n \in Nat
               /\ Merge(mem[a], disk[r]) \in States
               /\ Merge(mem[a], disk[r]).seq = n
               /\ Appended(a) \in Seq(Events)
               /\ Len(Appended(a)) = n + 1
               /\ Appended(a) = Append(log[r], Appended(a)[n + 1])
               /\ \A i \in DOMAIN Appended(a) : Appended(a)[i].seq = i
<1> DEFINE r == job[a]
           n == Len(log[r])
           e == Head(todo[a])
           m == Merge(mem[a], disk[r])
           entry == [type |-> e.type, stage |-> e.stage, seq |-> m.seq + 1]
<1>1. r \in Runs
  BY DEF IInv, CounterInv, Owners, InUse
<1>2. /\ mem[a] \in States /\ disk[r] \in States /\ log[r] \in Seq(Events) /\ n \in Nat
      /\ todo[a] \in Seq(Announcements)
  BY <1>1 DEF IInv, TypeOK
<1>3. mem[a].seq \in Nat /\ disk[r].seq \in Nat
  BY <1>2 DEF States
<1>4. /\ mem[a].seq <= n /\ disk[r].seq <= n
      /\ disk[r].seq = n \/ mem[a].seq = n
  BY <1>1 DEF IInv, CounterInv, UpToDate
<1>5. m \in States /\ m.seq = n
  BY <1>2, <1>3, <1>4, MergeFacts
<1>6. e \in Announcements
  BY <1>2
<1>7. entry \in Events /\ entry.seq = n + 1
  BY <1>2, <1>5, <1>6 DEF Events, Announcements
<1>8. Appended(a) = Append(log[r], entry)
  BY DEF Appended
<1>9. \A i \in DOMAIN log[r] : log[r][i].seq = i
  BY <1>1 DEF IInv, CounterInv, DenseLog
<1> HIDE DEF entry, m
<1>10. /\ Appended(a) \in Seq(Events) /\ Len(Appended(a)) = n + 1
       /\ Appended(a)[n + 1] = entry
       /\ \A i \in 1 .. n : Appended(a)[i] = log[r][i]
  BY <1>2, <1>7, <1>8
<1>11. \A i \in DOMAIN Appended(a) : Appended(a)[i].seq = i
  BY <1>2, <1>7, <1>9, <1>10
<1> QED BY <1>1, <1>2, <1>5, <1>8, <1>10, <1>11 DEF m

\* RunState.event numbers its event from the merged counter: the log stays dense.
LEMMA AnnounceStep ==
    ASSUME IInv, NEW a \in Actors, Announce(a)
    PROVE  IInv'
<1> USE RunLifecycleAssumption
<1> DEFINE r == job[a]
           n == Len(log[r])
           w == Merge([Merge(mem[a], disk[r]) EXCEPT !.seq = Merge(mem[a], disk[r]).seq + 1],
              disk[r])
<1>0. TypeOK /\ Owners
  BY DEF IInv, CounterInv
<1>1. todo[a] # <<>>
  BY DEF Announce
<1>2. /\ r \in Runs /\ n \in Nat
      /\ Merge(mem[a], disk[r]) \in States /\ Merge(mem[a], disk[r]).seq = n
      /\ Appended(a) \in Seq(Events) /\ Len(Appended(a)) = n + 1
      /\ \A i \in DOMAIN Appended(a) : Appended(a)[i].seq = i
  BY <1>1, AppendedFacts
<1>3. disk[r] \in States /\ disk[r].seq <= n /\ mem[a] \in States
  BY <1>0, <1>2 DEF TypeOK, IInv, CounterInv
<1>4. w \in States /\ w.seq = n + 1 /\ w.status = mem[a].status
  <2> DEFINE v == Merge(mem[a], disk[r])
             u == [v EXCEPT !.seq = v.seq + 1]
  <2>1. v \in States /\ v.seq = n /\ v.status = mem[a].status
    BY <1>2, <1>3, MergeFacts
  <2>2. u \in States /\ u.seq = n + 1 /\ u.status = mem[a].status
    BY <1>2, <2>1 DEF States
  <2>3. disk[r].seq \in Nat
    BY <1>3 DEF States
  <2> HIDE DEF u
  <2>4. Merge(u, disk[r]) \in States /\ Merge(u, disk[r]).seq = n + 1
        /\ Merge(u, disk[r]).status = mem[a].status
    BY <1>2, <1>3, <2>2, <2>3, MergeFacts
  <2> QED BY <2>4 DEF u
<1>5. /\ disk' = [disk EXCEPT ![r] = w] /\ mem' = [mem EXCEPT ![a] = w]
      /\ log' = [log EXCEPT ![r] = Appended(a)]
      /\ todo' = [todo EXCEPT ![a] = Tail(todo[a])]
      /\ UNCHANGED <<job, pc, future, queue, owned, restarts>>
  BY DEF Announce, Save, pool
<1> HIDE DEF w
<1>6. TypeOK'
  BY <1>0, <1>1, <1>2, <1>4, <1>5 DEF TypeOK
<1>7. Owners'
  BY <1>0, <1>2, <1>5 DEF TypeOK, Owners, InUse
<1>8. /\ disk'[r] = w /\ log'[r] = Appended(a) /\ mem'[a] = w
      /\ \A s \in Runs \ {r} : disk'[s] = disk[s] /\ log'[s] = log[s]
      /\ \A b \in Actors \ {a} : mem'[b] = mem[b]
  BY <1>0, <1>2, <1>5 DEF TypeOK
<1>9. DenseLog'
  BY <1>2, <1>8 DEF IInv, CounterInv, DenseLog
<1>10. \A s \in Runs : disk'[s].seq <= Len(log'[s])
  BY <1>2, <1>4, <1>8 DEF IInv, CounterInv
<1>12. ASSUME NEW b \in Actors, job'[b] \in Runs
       PROVE  /\ mem'[b].seq <= Len(log'[job'[b]])
              /\ disk'[job'[b]].seq = Len(log'[job'[b]]) \/ mem'[b].seq = Len(log'[job'[b]])
  <2>1. job'[b] = job[b]
    BY <1>5
  <2>2. CASE b = a
    BY <1>2, <1>4, <1>8, <2>1, <2>2
  <2>3. CASE b # a /\ job[b] = r
    <3>1. mem[b].seq <= n /\ mem[b].seq \in Nat
      BY <1>0, <1>2, <2>3 DEF TypeOK, States, IInv, CounterInv
    <3>2. /\ Len(log'[job'[b]]) = n + 1 /\ disk'[job'[b]].seq = n + 1
          /\ mem'[b].seq = mem[b].seq
      BY <1>2, <1>4, <1>8, <2>1, <2>3
    <3> QED BY <1>2, <3>1, <3>2
  <2>4. CASE b # a /\ job[b] # r
    BY <1>8, <1>12, <2>1, <2>4 DEF IInv, CounterInv, UpToDate
  <2> QED BY <2>2, <2>3, <2>4
<1>13. \A s \in Runs : future'[s] # "none" => disk'[s].seq = Len(log'[s])
  BY <1>2, <1>4, <1>5, <1>8 DEF IInv, CounterInv, UpToDate
<1>14. pc'[Service] \in {"creating", "queueing"}
         => disk'[job'[Service]].seq = Len(log'[job'[Service]])
  <2>1. ASSUME pc[Service] \in {"creating", "queueing"}
        PROVE  job[Service] \in Runs /\ disk[job[Service]].seq = Len(log[job[Service]])
    BY <2>1 DEF IInv, CounterInv, Owners, InUse, Actors, UpToDate
  <2> QED BY <1>2, <1>4, <1>5, <1>8, <2>1
<1> QED BY <1>6, <1>7, <1>9, <1>10, <1>12, <1>13, <1>14 DEF IInv, CounterInv, UpToDate

\* A process that dies after the append leaves the counter one behind, with no
\* thread left to use it.
LEMMA CrashInEventStep ==
    ASSUME IInv, NEW a \in Actors, CrashInEvent(a)
    PROVE  IInv'
<1> USE RunLifecycleAssumption
<1> DEFINE r == job[a]
           n == Len(log[r])
<1>0. TypeOK /\ Owners
  BY DEF IInv, CounterInv
<1>1. todo[a] # <<>>
  BY DEF CrashInEvent
<1>2. /\ r \in Runs /\ n \in Nat
      /\ Appended(a) \in Seq(Events) /\ Len(Appended(a)) = n + 1
      /\ \A i \in DOMAIN Appended(a) : Appended(a)[i].seq = i
  BY <1>1, AppendedFacts
<1>3. /\ disk' = disk /\ restarts' = restarts
      /\ log' = [log EXCEPT ![r] = Appended(a)]
      /\ LoseThreads
  BY DEF CrashInEvent
<1>4. /\ log'[r] = Appended(a)
      /\ \A s \in Runs \ {r} : log'[s] = log[s]
  BY <1>0, <1>2, <1>3 DEF TypeOK
<1>5. TypeOK' /\ Owners'
  <2>1. mem' \in [Actors -> States] /\ job' \in [Actors -> Runs \cup {NoRun}]
        /\ todo' \in [Actors -> Seq(Announcements)]
    BY <1>3 DEF LoseThreads, Absent, States, Statuses
  <2>2. /\ pc' \in [Actors -> ServicePCs \cup CancellerPCs \cup WorkerPCs]
        /\ pc'[Service] = "down"
        /\ \A c \in Cancellers : pc'[c] \in {"ready", "spent"}
        /\ \A s \in Runs : pc'[s] = "idle"
    BY <1>3 DEF LoseThreads, Actors, ServicePCs, CancellerPCs, WorkerPCs
  <2>3. future' \in [Runs -> Futures] /\ queue' \in Seq(Runs) /\ owned' \in SUBSET Runs
    BY <1>3 DEF LoseThreads, Futures
  <2>4. TypeOK'
    BY <1>0, <1>2, <1>3, <2>1, <2>2, <2>3 DEF TypeOK
  <2>5. \A b \in Actors : job'[b] = NoRun /\ todo'[b] = <<>>
    BY <1>3 DEF LoseThreads
  <2>6. Owners'
    BY <2>2, <2>5 DEF Owners, InUse, Actors, ServicePCs, CancellerPCs, WorkerPCs
  <2> QED BY <2>4, <2>6
<1>6. DenseLog'
  BY <1>2, <1>4 DEF IInv, CounterInv, DenseLog
<1>7. \A s \in Runs : disk'[s].seq <= Len(log'[s])
  <2>1. disk[r].seq \in Nat /\ disk[r].seq <= n
    BY <1>0, <1>2 DEF TypeOK, States, IInv, CounterInv
  <2> QED BY <1>2, <1>3, <1>4, <2>1 DEF IInv, CounterInv
<1>9. /\ \A b \in Actors : job'[b] \notin Runs
      /\ \A s \in Runs : future'[s] = "none"
      /\ pc'[Service] = "down"
  BY <1>3 DEF LoseThreads, Actors
<1> QED BY <1>5, <1>6, <1>7, <1>9 DEF IInv, CounterInv

\* A Run that is created starts with an empty log and a counter of 0.
LEMMA SubmitStep ==
    ASSUME IInv, NEW r \in Runs, Submit(r)
    PROVE  IInv'
<1> USE RunLifecycleAssumption DEF At, Goto, Actors, pool
<1> DEFINE m == [status |-> "created", seq |-> 0, cancel |-> FALSE]
<1>0. TypeOK /\ Owners
  BY DEF IInv, CounterInv
<1>1. /\ m \in States /\ m.seq = 0
      /\ <<Note("created", "created")>> \in Seq(Announcements)
  BY NoteFacts DEF States, Statuses, ActiveStatuses, EventTypes
<1>2. /\ disk' = [disk EXCEPT ![r] = m] /\ mem' = [mem EXCEPT ![Service] = m]
      /\ job' = [job EXCEPT ![Service] = r] /\ pc' = [pc EXCEPT ![Service] = "creating"]
      /\ todo' = [todo EXCEPT ![Service] = <<Note("created", "created")>>]
      /\ UNCHANGED <<log, future, queue, owned, restarts>>
      /\ log[r] = <<>>
  BY DEF Submit
<1>3. Len(log[r]) = 0
  BY <1>2
<1> HIDE DEF m
<1>4. TypeOK'
  BY <1>0, <1>1, <1>2 DEF TypeOK, ServicePCs
<1>5. Owners'
  BY <1>0, <1>2 DEF TypeOK, Owners, InUse, ServicePCs
<1>6. /\ disk'[r] = m /\ mem'[Service] = m /\ job'[Service] = r
      /\ \A s \in Runs \ {r} : disk'[s] = disk[s]
      /\ \A b \in Actors \ {Service} : mem'[b] = mem[b] /\ job'[b] = job[b]
  BY <1>0, <1>2 DEF TypeOK
<1>7. DenseLog'
  BY <1>2 DEF IInv, CounterInv, DenseLog
<1>8. \A s \in Runs : disk'[s].seq <= Len(log'[s])
  BY <1>1, <1>2, <1>3, <1>6 DEF IInv, CounterInv
<1>9. ASSUME NEW b \in Actors, job'[b] \in Runs
      PROVE  /\ mem'[b].seq <= Len(log'[job'[b]])
             /\ disk'[job'[b]].seq = Len(log'[job'[b]]) \/ mem'[b].seq = Len(log'[job'[b]])
  <2>1. CASE b = Service
    BY <1>1, <1>2, <1>3, <1>6, <2>1
  <2>2. CASE b # Service
    BY <1>1, <1>2, <1>3, <1>6, <1>9, <2>2 DEF IInv, CounterInv, UpToDate
  <2> QED BY <2>1, <2>2
<1>10. \A s \in Runs : future'[s] # "none" => disk'[s].seq = Len(log'[s])
  BY <1>1, <1>2, <1>3, <1>6 DEF IInv, CounterInv, UpToDate
<1>11. disk'[job'[Service]].seq = Len(log'[job'[Service]])
  BY <1>1, <1>2, <1>3, <1>6
<1> QED BY <1>4, <1>5, <1>7, <1>8, <1>9, <1>10, <1>11 DEF IInv, CounterInv, UpToDate

-----------------------------------------------------------------------------
(* The invariant, and what follows from it.                                  *)

\* No Run exists at first.
LEMMA InitStep == Init => IInv
<1> USE RunLifecycleAssumption
<1> SUFFICES ASSUME Init PROVE IInv
  OBVIOUS
<1>1. TypeOK
  BY DEF Init, TypeOK, Absent, States, Statuses, Futures, ServicePCs, CancellerPCs, WorkerPCs,
         Actors
<1>2. Owners
  BY DEF Init, Owners, InUse, Actors, ServicePCs, CancellerPCs, WorkerPCs
<1>3. CounterInv
  BY <1>2 DEF Init, CounterInv, DenseLog, Absent, Actors
<1> QED BY <1>1, <1>3 DEF IInv

\* Every action of the specification falls under one of the lemmas above.
LEMMA NextCases ==
    ASSUME Next
    PROVE  \/ \/ Schedule \/ SubmitRaises \/ BeginClose \/ FinishClose \/ Restart \/ Serve
              \/ \E r \in Runs : CloseAsks(r) \/ CloseSettles(r) \/ CloseSkips(r)
           \/ \E r \in Runs :
                 \/ StartWork(r) \/ DropCancelled(r) \/ LoadRun(r) \/ CheckStops(r)
                 \/ CheckPasses(r) \/ WorkDone(r) \/ WorkFails(r) \/ TrainingSeesCancel(r)
                 \/ BuildReport(r) \/ ReportFails(r) \/ LeaveRun(r)
           \/ \E a \in Cancellers \cup {Service} :
                 \/ \E r \in Runs : CancelLoad(a, r)
                 \/ RefuseCancel(a) \/ CancelFuture(a) \/ LeaveToWorker(a)
                 \/ ReloadLatest(a) \/ CancelTooLate(a) \/ CancelReturns(a)
           \/ Crash
           \/ \/ Queue
              \/ \E r \in Runs : EnterStage(r) \/ Complete(r) \/ FailRun(r)
              \/ \E a \in Actors : CancelRun(a)
           \/ \/ ScheduleFails
              \/ \E r \in Runs : Recover(r)
              \/ \E a \in Cancellers \cup {Service} : RequestCancel(a)
           \/ \E a \in Actors : Announce(a) \/ CrashInEvent(a)
           \/ \E r \in Runs : Submit(r)
<1>1. Runs \subseteq Actors /\ Cancellers \cup {Service} \subseteq Actors
  BY DEF Actors
<1> QED BY <1>1 DEF Next, Accept, Close, Cancel, Work

\* Every step is of one of the kinds above.
LEMMA NextStep ==
    ASSUME IInv, [Next]_vars
    PROVE  IInv'
<1>1. CASE UNCHANGED vars
  BY <1>1 DEF vars, IInv, TypeOK, CounterInv, DenseLog, Owners, InUse, UpToDate
<1>2. CASE Next
  BY <1>2, NextCases, QuietServiceSteps, QuietWorkerSteps, QuietCancelSteps, QuietCrash,
     QuietKeepsCounters, TransitionSteps, OtherSavingSteps, AnnounceStep, CrashInEventStep,
     SubmitStep
<1> QED BY <1>1, <1>2

\* The inductive invariant of Runs, cancellers, service and recovery.
THEOREM Invariance == Spec => []IInv
<1>1. Init => IInv
  BY InitStep
<1>2. IInv /\ [Next]_vars => IInv'
  BY NextStep
<1> QED BY <1>1, <1>2, PTL DEF Spec

\* Every variable keeps its type.
THEOREM TypeCorrect == Spec => []TypeOK
  BY Invariance, PTL DEF IInv

\* The counters on disk and in every thread are enough to number the next
\* event, whatever threads interleave and wherever a process dies.
THEOREM CountersSound == Spec => []CounterInv
  BY Invariance, PTL DEF IInv

\* The events of a Run are numbered 1, 2, 3, ... for any number of threads,
\* workers, Runs and restarts.
THEOREM LogIsDense == Spec => []DenseLog
  BY CountersSound, PTL DEF CounterInv

-----------------------------------------------------------------------------
(* The document only changes by a merge or by the creation of the Run.       *)

DocumentStep ==
    \/ UNCHANGED disk
    \/ \E r \in Runs : disk[r] = Absent /\ \E m \in States : disk' = [disk EXCEPT ![r] = m]
    \/ \E r \in Runs : \E m \in States : disk' = [disk EXCEPT ![r] = Merge(m, disk[r])]

\* _save writes a copy merged with what is on disk.
LEMMA SaveIsDocumentStep ==
    ASSUME NEW a, NEW r \in Runs, NEW m \in States, Save(a, r, m)
    PROVE  DocumentStep
  BY DEF Save, DocumentStep

\* A Run's document is only created or written by _save.
LEMMA DocumentSteps ==
    ASSUME IInv, Next
    PROVE  DocumentStep
<1>0. TypeOK /\ Owners
  BY DEF IInv, CounterInv
<1>1. CASE disk' = disk
  BY <1>1 DEF DocumentStep
<1>2. ASSUME NEW a \in Actors, NEW s, NEW more, s \in Statuses, Transition(a, s, more), InUse(a)
      PROVE  DocumentStep
  <2>1. job[a] \in Runs /\ [mem[a] EXCEPT !.status = s] \in States
    BY <1>0, <1>2 DEF Owners, TypeOK, States
  <2> QED BY <1>2, <2>1, SaveIsDocumentStep DEF Transition
<1>3. CASE Queue
  BY <1>2, <1>3 DEF Queue, At, InUse, Actors, Statuses, ActiveStatuses
<1>4. ASSUME NEW r \in Runs, EnterStage(r)
      PROVE  DocumentStep
  <2>1. NextStage[mem[r].status] \in AllowedTransitions[mem[r].status] /\ mem[r].status \in
     Statuses
    BY <1>0, <1>4 DEF EnterStage, Transition, CanBecome, TypeOK, States, Actors
  <2>2. NextStage[mem[r].status] \in Statuses
    BY <2>1 DEF AllowedTransitions, Stopped, Statuses, ActiveStatuses, TerminalStatuses
  <2> QED BY <1>2, <1>4, <2>2 DEF EnterStage, At, InUse, Actors
<1>5. ASSUME NEW r \in Runs, Complete(r) \/ FailRun(r)
      PROVE  DocumentStep
  BY <1>2, <1>5 DEF Complete, FailRun, At, InUse, Actors, Statuses, TerminalStatuses
<1>6. ASSUME NEW a \in Actors, CancelRun(a)
      PROVE  DocumentStep
  BY <1>2, <1>6 DEF CancelRun, At, InUse, Statuses, TerminalStatuses
<1>7. CASE ScheduleFails
  <2>1. job[Service] \in Runs
    BY <1>0, <1>7 DEF ScheduleFails, At, Owners, InUse, Actors
  <2>2. [Loaded(job[Service]) EXCEPT !.status = "interrupted"] \in States
    BY <2>1, LoadedFacts DEF States, Statuses, TerminalStatuses
  <2> QED BY <1>7, <2>1, <2>2, SaveIsDocumentStep DEF ScheduleFails
<1>8. ASSUME NEW r \in Runs, Recover(r)
      PROVE  DocumentStep
  <2>1. [Loaded(r) EXCEPT !.status = "interrupted"] \in States
    BY LoadedFacts DEF States, Statuses, TerminalStatuses
  <2> QED BY <1>8, <2>1, SaveIsDocumentStep DEF Recover
<1>9. ASSUME NEW a \in Cancellers \cup {Service}, RequestCancel(a)
      PROVE  DocumentStep
  <2>1. job[a] \in Runs /\ [mem[a] EXCEPT !.cancel = TRUE] \in States
    BY <1>0, <1>9 DEF RequestCancel, At, Owners, InUse, Actors, TypeOK, States
  <2> QED BY <1>9, <2>1, SaveIsDocumentStep DEF RequestCancel
<1>10. ASSUME NEW a \in Actors, Announce(a)
       PROVE  DocumentStep
  <2> DEFINE v == Merge(mem[a], disk[job[a]])
  <2>1. todo[a] # <<>>
    BY <1>10 DEF Announce
  <2>2. job[a] \in Runs /\ v \in States /\ v.seq \in Nat
    BY <1>0, <2>1, AppendedFacts DEF States
  <2>3. [v EXCEPT !.seq = v.seq + 1] \in States
    BY <2>2 DEF States
  <2> QED BY <1>10, <2>2, <2>3, SaveIsDocumentStep DEF Announce
<1>11. ASSUME NEW r \in Runs, Submit(r)
       PROVE  DocumentStep
  <2> DEFINE m == [status |-> "created", seq |-> 0, cancel |-> FALSE]
  <2>1. m \in States
    BY DEF States, Statuses, ActiveStatuses
  <2>2. disk[r] = Absent /\ disk' = [disk EXCEPT ![r] = m]
    BY <1>11 DEF Submit
  <2> QED BY <2>1, <2>2 DEF DocumentStep
<1>12. ASSUME NEW a \in Actors, CrashInEvent(a)
       PROVE  disk' = disk
  BY <1>12 DEF CrashInEvent
<1>13. CASE \/ Schedule \/ SubmitRaises \/ BeginClose \/ FinishClose \/ Restart \/ Serve
            \/ \E r \in Runs : CloseAsks(r) \/ CloseSettles(r) \/ CloseSkips(r)
  BY <1>1, <1>13, QuietServiceSteps DEF Quiet
<1>14. ASSUME NEW r \in Runs,
              \/ StartWork(r) \/ DropCancelled(r) \/ LoadRun(r) \/ CheckStops(r)
              \/ CheckPasses(r) \/ WorkDone(r) \/ WorkFails(r) \/ TrainingSeesCancel(r)
              \/ BuildReport(r) \/ ReportFails(r) \/ LeaveRun(r)
       PROVE  disk' = disk
  BY <1>14, QuietWorkerSteps DEF Quiet
<1>15. ASSUME NEW a \in Cancellers \cup {Service},
              \/ \E r \in Runs : CancelLoad(a, r)
              \/ RefuseCancel(a) \/ CancelFuture(a) \/ LeaveToWorker(a)
              \/ ReloadLatest(a) \/ CancelTooLate(a) \/ CancelReturns(a)
       PROVE  disk' = disk
  BY <1>15, QuietCancelSteps DEF Quiet
<1>16. CASE Crash
  BY <1>1, <1>16 DEF Crash, persisted
<1> QED BY <1>1, <1>3, <1>4, <1>5, <1>6, <1>7, <1>8, <1>9, <1>10, <1>11, <1>12, <1>13, <1>14,
           <1>15, <1>16, NextCases

\* A cancel request on disk is never lost, whichever thread saves a copy it
\* loaded before the request.
THEOREM CancelIsSticky == Spec => CancelSticky
<1> DEFINE Keeps == \A r \in Runs : disk[r].cancel => disk'[r].cancel
<1>1. ASSUME IInv, [Next]_vars
      PROVE  [Keeps]_vars
  <2>1. CASE UNCHANGED vars
    BY <2>1
  <2>2. CASE Next
    <3>1. DocumentStep
      BY <1>1, <2>2, DocumentSteps
    <3>2. disk \in [Runs -> States]
      BY <1>1 DEF IInv, TypeOK
    <3>3. CASE UNCHANGED disk
      BY <3>3
    <3>4. ASSUME NEW r \in Runs, disk[r] = Absent, NEW m \in States,
                 disk' = [disk EXCEPT ![r] = m]
          PROVE  Keeps
      BY <3>2, <3>4 DEF Absent
    <3>5. ASSUME NEW r \in Runs, NEW m \in States,
                 disk' = [disk EXCEPT ![r] = Merge(m, disk[r])]
          PROVE  Keeps
      <4>1. disk[r].cancel => Merge(m, disk[r]).cancel
        BY <3>2, MergeFacts
      <4> QED BY <3>2, <3>5, <4>1
    <3> QED BY <3>1, <3>3, <3>4, <3>5 DEF DocumentStep
  <2> QED BY <1>1, <2>1, <2>2
<1> QED BY <1>1, Invariance, PTL DEF Spec, CancelSticky

\* A step appends at most one event, with the next number, to one log.
LEMMA LogSteps ==
    ASSUME IInv, Next
    PROVE  \/ UNCHANGED log
           \/ \E a \in Actors : todo[a] # <<>> /\ log' = [log EXCEPT ![job[a]] = Appended(a)]
<1> USE DEF persisted
<1>1. CASE \E a \in Actors : Announce(a) \/ CrashInEvent(a)
  BY <1>1 DEF Announce, CrashInEvent
<1>2. CASE \/ Schedule \/ SubmitRaises \/ BeginClose \/ FinishClose \/ Restart \/ Serve
           \/ \E r \in Runs : CloseAsks(r) \/ CloseSettles(r) \/ CloseSkips(r)
  BY <1>2, QuietServiceSteps DEF Quiet
<1>3. ASSUME NEW r \in Runs,
             \/ StartWork(r) \/ DropCancelled(r) \/ LoadRun(r) \/ CheckStops(r)
             \/ CheckPasses(r) \/ WorkDone(r) \/ WorkFails(r) \/ TrainingSeesCancel(r)
             \/ BuildReport(r) \/ ReportFails(r) \/ LeaveRun(r)
      PROVE  UNCHANGED log
  BY <1>3, QuietWorkerSteps DEF Quiet
<1>4. ASSUME NEW a \in Cancellers \cup {Service},
             \/ \E r \in Runs : CancelLoad(a, r)
             \/ RefuseCancel(a) \/ CancelFuture(a) \/ LeaveToWorker(a)
             \/ ReloadLatest(a) \/ CancelTooLate(a) \/ CancelReturns(a)
      PROVE  UNCHANGED log
  BY <1>4, QuietCancelSteps DEF Quiet
<1>5. CASE Crash
  BY <1>5 DEF Crash
<1>6. CASE Queue \/ ScheduleFails
  BY <1>6 DEF Queue, ScheduleFails
<1>7. ASSUME NEW r \in Runs, EnterStage(r) \/ Complete(r) \/ FailRun(r) \/ Recover(r) \/
   Submit(r)
      PROVE  UNCHANGED log
  BY <1>7 DEF EnterStage, Complete, FailRun, Recover, Submit
<1>8. ASSUME NEW a \in Actors, CancelRun(a) \/ RequestCancel(a)
      PROVE  UNCHANGED log
  BY <1>8 DEF CancelRun, RequestCancel
<1> QED BY <1>1, <1>2, <1>3, <1>4, <1>5, <1>6, <1>7, <1>8, NextCases DEF Actors

\* The Run implements the abstract event log: readers never see an entry
\* change, disappear, repeat or skip a number.
THEOREM ImplementsEventLog == Spec => PublishesInOrder
<1>1. Init => Published!Init
  BY DEF Init, Published!Init
<1>2. ASSUME IInv, [Next]_vars
      PROVE  [Published!Next]_log
  <2>1. CASE UNCHANGED vars
    BY <2>1 DEF vars
  <2>2. CASE Next
    <3>1. CASE UNCHANGED log
      BY <3>1
    <3>2. ASSUME NEW a \in Actors, todo[a] # <<>>, log' = [log EXCEPT ![job[a]] = Appended(a)]
          PROVE  Published!Next
      <4> DEFINE r == job[a]
                 n == Len(log[r])
      <4>1. /\ r \in Runs /\ n \in Nat
            /\ Appended(a) \in Seq(Events) /\ Len(Appended(a)) = n + 1
            /\ Appended(a) = Append(log[r], Appended(a)[n + 1])
            /\ \A i \in DOMAIN Appended(a) : Appended(a)[i].seq = i
        BY <1>2, <3>2, AppendedFacts
      <4>2. log'[r] = Appended(a)
        BY <1>2, <3>2, <4>1 DEF IInv, TypeOK
      <4>3. /\ Len(log'[r]) = n + 1
            /\ log'[r][n + 1].seq = n + 1
            /\ log' = [log EXCEPT ![r] = Append(log[r], log'[r][n + 1])]
        <5>1. n + 1 \in DOMAIN Appended(a)
          BY <4>1
        <5> QED BY <3>2, <4>1, <4>2, <5>1
      <4> QED BY <4>1, <4>3 DEF Published!Next, Published!Publish
    <3> QED BY <1>2, <2>2, <3>1, <3>2, LogSteps
  <2> QED BY <1>2, <2>1, <2>2
<1> QED BY <1>1, <1>2, Invariance, PTL DEF Spec, PublishesInOrder, Published!Spec
=============================================================================
