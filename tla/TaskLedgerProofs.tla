--------------------------- MODULE TaskLedgerProofs ---------------------------
(* Proofs about TaskLedger for any Runs, approvals, threads and bounds.      *)
EXTENDS TaskLedger, TLAPS

Exclusive == {"record", "begin", "submit", "finalize", "failed"}
Viewing == {"view", "write", "complete"}
Used == {"consuming", "consumed", "failed"}
Absent(r) == run[r].status = "absent"

\* Who is between two writes of an operation has the lock, and so has who
\* consumes an authorization; a process that is down has no threads.
MutexOK ==
    /\ \A t \in Threads :
          /\ at[t] \in Exclusive \/ using[t] # NoGrant => lock = t
          /\ at[t] = "record" => using[t] = NoGrant
          /\ at[t] = "complete" => using[t] # NoGrant
    /\ ~serving => \A t \in Threads : at[t] = "idle" /\ using[t] = NoGrant

\* The Run a thread has announced does not exist before submit, and a view
\* never brings an intent back.
IntentOK ==
    \A t \in Threads :
        /\ at[t] \in {"submit", "finalize"} => doc[t].pending # NoIntent
        /\ at[t] = "submit" => Absent(doc[t].pending.run)
        /\ at[t] \in Viewing => doc[t].pending = NoIntent
        /\ at[t] = "record" /\ doc[t].pending # NoIntent => ~Absent(doc[t].pending.run)

\* An intent without Run is that of the thread about to create it.
PendingOK ==
    serving /\ task.pending # NoIntent /\ Absent(task.pending.run) =>
        /\ lock \in Threads
        /\ at[lock] = "submit"
        /\ doc[lock].pending = task.pending

\* A Run about to be created starts from a confirmed contract, and so did its
\* parent.
ConsentOK ==
    /\ Consent
    /\ \A t \in Threads : at[t] = "submit" =>
          /\ contract \in approved
          /\ doc[t].pending.parent # NoRun => run[doc[t].pending.parent].origin = contract

\* A Run was started by an authorization that is used up, for its contract;
\* one that is about to be used has started nothing yet.
GrantOK ==
    /\ GrantStartsOne
    /\ \A r \in RunIds :
          /\ Absent(r) => run[r].grant = NoGrant
          /\ run[r].grant # NoGrant =>
                /\ grant[run[r].grant].status \in Used
                /\ run[r].origin = grant[run[r].grant].scope.contract
    /\ \A t \in Threads : using[t] # NoGrant => grant[using[t]].status = "consuming"
    /\ \A t \in Threads : at[t] \in {"begin", "submit"} /\ using[t] # NoGrant =>
          /\ grant[using[t]].scope.contract = contract
          /\ \A r \in RunIds : run[r].grant # using[t]

\* The Run an authorization started is the task's current one until the
\* authorization is completed.
RunOf(d, g, rs) == d.pending = NoIntent /\ d.current # NoRun /\ rs[d.current].grant = g
OutcomeOK ==
    /\ \A t \in Threads : at[t] = "finalize" => run[doc[t].pending.run].grant = using[t]
    /\ ~overwritten =>
          /\ \A g \in Grants : grant[g].status = "consumed" =>
                grant[g].outcome # NoRun /\ run[grant[g].outcome].grant = g
          /\ \A t \in Threads : using[t] # NoGrant =>
                /\ at[t] = "return" => RunOf(task, using[t], run)
                /\ at[t] \in Viewing => RunOf(doc[t], using[t], run)

\* What the holder of the lock has read is still so, unless a view wrote an
\* older document.
AccountOK ==
    ~overwritten =>
        /\ RunsAccountedFor
        /\ \A t \in Threads :
              /\ at[t] \in {"submit", "finalize"} => task.pending = doc[t].pending
              /\ at[t] = "submit" => ~task.archived
              /\ at[t] = "record" => task.pending = doc[t].pending /\ task.runs = doc[t].runs

\* A document shows an outcome only if its Run has it or had it undone, also
\* after it has been taken back to what it was before an intent.
Ran(d, s, rs, us) ==
    s \in Ended => d.current # NoRun /\ s \in {rs[d.current].status} \cup us[d.current]
Truthful(d, rs, us) ==
    /\ Ran(d, d.status, rs, us)
    /\ d.pending # NoIntent /\ rs[d.pending.run].status = "absent" => Ran(d, d.pending.before, rs, us)

\* Nor does it show a confirmation that is not a user's: for the document and
\* every copy of it.
Good(d, rs, us, as) == d \in Tasks /\ Truthful(d, rs, us) /\ d.confirmed \in as \cup {0}
DocsOK == Good(task, run, undone, approved) /\ \A t \in Threads : Good(doc[t], run, undone, approved)

\* The copy of a Run's worker says what its document says, or said before a
\* canceller saved its own.  Who cancels a Run knows it, and still has the
\* document as it read it while it has the lock.
Cancelling == {"cancel", "asked", "settled"}
WorkOK ==
    /\ ~serving => \A r \in RunIds : worker[r] = "none"
    /\ \A r \in RunIds :
          /\ worker[r] = "active" => run[r].status = "active"
          /\ worker[r] \in Ended => run[r].status \in {"active", worker[r]}
          /\ worker[r] = "taken" => ~Absent(r)
CancelOK ==
    \A t \in Threads : at[t] \in Cancelling =>
        /\ copy[t] \in RunIds /\ ~Absent(copy[t]) /\ using[t] = NoGrant
        /\ lock = t =>
              /\ doc[t].pending # NoIntent => ~Absent(doc[t].pending.run)
              /\ ~overwritten => task.pending = doc[t].pending /\ task.runs = doc[t].runs

IInv ==
    /\ TypeOK /\ DocsOK /\ MutexOK /\ IntentOK /\ PendingOK /\ ConsentOK /\ GrantOK
    /\ OutcomeOK /\ AccountOK /\ WorkOK /\ CancelOK

-----------------------------------------------------------------------------
(* The helpers on documents.                                                 *)

\* What a reconciled document keeps and gains, for whatever Runs there are.
LEMMA ReconciledFacts ==
    ASSUME NEW d \in Tasks, NEW rs \in [RunIds -> RunRecords], NEW us
    PROVE  /\ Reconciled(d, rs) \in Tasks
           /\ Reconciled(d, rs).pending = NoIntent
           /\ d.pending = NoIntent => Reconciled(d, rs) = d
           /\ Reconciled(d, rs).confirmed = d.confirmed
           /\ Reconciled(d, rs).archived = d.archived
           /\ d.runs \subseteq Reconciled(d, rs).runs
           /\ d.pending # NoIntent /\ rs[d.pending.run].status # "absent" =>
                 d.pending.run \in Reconciled(d, rs).runs
           /\ Truthful(d, rs, us) => Truthful(Reconciled(d, rs), rs, us)
<1>1. CASE d.pending = NoIntent
  BY <1>1 DEF Reconciled
<1>2. CASE d.pending # NoIntent
  <2>1. d.pending \in Intents
    BY <1>2 DEF Tasks
  <2> DEFINE p == d.pending
  <2>2. p.run \in RunIds /\ p.before \in TaskStatuses
    BY <2>1 DEF Intents
  <2>3. rs[p.run].status \in RunStatuses
    BY <2>2 DEF RunRecords
  <2>4. CASE rs[p.run].status = "absent"
    <3>1. Reconciled(d, rs) = [d EXCEPT !.pending = NoIntent, !.status = p.before]
      BY <1>2, <2>4 DEF Reconciled
    <3> QED BY <3>1, <1>2, <2>2, <2>4 DEF Tasks, Truthful, Ran
  <2>5. CASE rs[p.run].status # "absent"
    <3>1. Reconciled(d, rs) = [d EXCEPT !.pending = NoIntent, !.runs = d.runs \cup {p.run},
                            !.current = p.run, !.status = Shown(rs[p.run].status)]
      BY <1>2, <2>5 DEF Reconciled
    <3>2. Shown(rs[p.run].status) \in TaskStatuses
      BY <2>3 DEF Shown, TaskStatuses
    <3>3. Shown(rs[p.run].status) \in Ended => Shown(rs[p.run].status) = rs[p.run].status
      BY DEF Shown, Ended, Recoverable
    <3>4. p.run # NoRun
      BY <2>2, TaskLedgerAssumption
    <3> DEFINE e == Reconciled(d, rs)
    <3>5. /\ e \in Tasks /\ e.pending = NoIntent /\ e.confirmed = d.confirmed
          /\ e.archived = d.archived /\ e.runs = d.runs \cup {p.run}
          /\ e.current = p.run /\ e.status = Shown(rs[p.run].status)
      <4> HIDE DEF p
      <4>1. e = [status |-> Shown(rs[p.run].status), current |-> p.run,
                 runs |-> d.runs \cup {p.run}, pending |-> NoIntent,
                 confirmed |-> d.confirmed, revision |-> d.revision,
                 archived |-> d.archived]
        BY <3>1 DEF Tasks
      <4> HIDE DEF e
      <4> QED BY <4>1, <3>2, <2>2 DEF Tasks
    <3>6. Truthful(e, rs, us)
      BY <3>3, <3>4, <3>5 DEF Truthful, Ran
    <3> QED BY <3>5, <3>6, <1>2
  <2> QED BY <2>4, <2>5
<1> QED BY <1>1, <1>2

\* Runs go on: none is new, and a verdict stands or is known to be undone.
GoOn(rs, ss, us, vs) ==
    \A r \in RunIds :
        /\ ss[r].status = "absent" <=> rs[r].status = "absent"
        /\ rs[r].status \in Ended => rs[r].status \in {ss[r].status} \cup vs[r]
        /\ us[r] \subseteq vs[r]
        /\ ss[r].origin = rs[r].origin /\ ss[r].grant = rs[r].grant

\* That Runs go on makes no document untrue.
LEMMA TruthIsStable ==
    ASSUME NEW d \in Tasks, NEW rs, NEW ss, NEW us, NEW vs, GoOn(rs, ss, us, vs),
           Truthful(d, rs, us)
    PROVE  Truthful(d, ss, vs)
<1>1. d.current # NoRun => d.current \in RunIds
  BY DEF Tasks
<1>2. d.pending # NoIntent => d.pending.run \in RunIds
  BY DEF Tasks, Intents
<1> QED BY <1>1, <1>2 DEF Truthful, Ran, GoOn

\* Nor does it make one untrue that a Run is created.
LEMMA TruthOutlivesCreation ==
    ASSUME NEW d \in Tasks, NEW rs \in [RunIds -> RunRecords], NEW us, NEW r \in RunIds, NEW x,
           rs[r].status = "absent", x.status # "absent", Truthful(d, rs, us)
    PROVE  Truthful(d, [rs EXCEPT ![r] = x], us)
<1>1. d.current # NoRun => d.current \in RunIds
  BY DEF Tasks
<1>2. d.pending # NoIntent => d.pending.run \in RunIds
  BY DEF Tasks, Intents
<1>3. "absent" \notin Ended
  BY DEF Ended, Recoverable
<1> QED BY <1>1, <1>2, <1>3 DEF Truthful, Ran

\* A new document is a good one.
LEMMA NewTaskFacts ==
    ASSUME NEW rs, NEW us, NEW as
    PROVE  /\ Good(NewTask, rs, us, as)
           /\ NewTask.pending = NoIntent
<1>1. NewTask \in Tasks
  BY TaskLedgerAssumption DEF NewTask, Tasks, TaskStatuses
<1>2. /\ NewTask.status = "data_ready" /\ NewTask.pending = NoIntent /\ NewTask.confirmed = 0
  BY DEF NewTask
<1>3. "data_ready" \notin Ended
  BY DEF Ended, Recoverable
<1> QED BY <1>1, <1>2, <1>3 DEF Good, Truthful, Ran

\* A reconciled document is as good as the one it was made of.
LEMMA ReconciledIsGood ==
    ASSUME NEW d, NEW rs \in [RunIds -> RunRecords], NEW us, NEW as, Good(d, rs, us, as)
    PROVE  Good(Reconciled(d, rs), rs, us, as)
  BY ReconciledFacts DEF Good

-----------------------------------------------------------------------------
(* Reading.                                                                  *)

\* Cancellers keep what they know while another thread, with the lock or about
\* to take it, does something else.
LEMMA OthersCancel ==
    ASSUME WorkOK, CancelOK, NEW t \in Threads, at'[t] \notin Cancelling,
           \A u \in Threads \ {t} :
              at'[u] = at[u] /\ doc'[u] = doc[u] /\ using'[u] = using[u],
           lock' \in {t, Nobody}, UNCHANGED <<run, serving, worker, copy>>
    PROVE  WorkOK' /\ CancelOK'
<1>1. WorkOK'
  BY DEF WorkOK, Absent
<1>2. \A u \in Threads \ {t} : lock' # u
  BY TaskLedgerAssumption
<1>3. CancelOK'
  BY <1>2 DEF CancelOK, Absent
<1> QED BY <1>1, <1>3

\* get_task's part under the lock makes a copy without intent.
LEMMA GetTaskStep ==
    ASSUME IInv, NEW t \in Threads, GetTask(t)
    PROVE  IInv'
<1> DEFINE d == Reconciled(task, run)
<1> USE DEF IInv, Goto, Idle, files, threads, process
<1>1. /\ task' = d /\ doc' = [doc EXCEPT ![t] = d] /\ at' = [at EXCEPT ![t] = "view"]
      /\ lock \in {Nobody, t} /\ at[t] \in {"idle", "return"} /\ serving
      /\ UNCHANGED <<contract, approved, run, grant, lock, using, process, overwritten>>
  BY DEF GetTask, MutexOK
<1>2. /\ d \in Tasks /\ d.pending = NoIntent /\ (task.pending = NoIntent => d = task)
      /\ d.archived = task.archived /\ task.runs \subseteq d.runs
      /\ (task.pending # NoIntent /\ run[task.pending.run].status # "absent" =>
             task.pending.run \in d.runs)
  BY ReconciledFacts DEF TypeOK
<1>3. Good(d, run, undone, approved)
  BY ReconciledIsGood DEF DocsOK, TypeOK
<1> HIDE DEF d
<1>4. TypeOK'
  BY <1>1, <1>2 DEF TypeOK, Places
<1>5. DocsOK'
  BY <1>1, <1>3 DEF DocsOK, TypeOK
<1>6. \A u \in Threads : at'[u] \notin Exclusive
  BY <1>1, TaskLedgerAssumption DEF MutexOK, TypeOK, Exclusive
<1>7. MutexOK'
  BY <1>1, <1>6 DEF MutexOK, TypeOK
<1>8. IntentOK'
  BY <1>1, <1>2, <1>6 DEF IntentOK, TypeOK, Exclusive, Viewing
<1>9. PendingOK'
  BY <1>1, <1>2 DEF PendingOK
<1>10. ConsentOK'
  BY <1>1, <1>6 DEF ConsentOK, Consent, Exists, Exclusive
<1>11. GrantOK'
  BY <1>1, <1>6 DEF GrantOK, GrantStartsOne, Absent, TypeOK, Exclusive
<1>12. OutcomeOK'
  <2>1. \A u \in Threads \ {t} : using[u] = NoGrant
    BY <1>1, TaskLedgerAssumption DEF MutexOK
  <2>2. using[t] # NoGrant => at[t] = "return" \/ lock = Nobody
    BY <1>1, TaskLedgerAssumption DEF GetTask, MutexOK
  <2>3. using[t] # NoGrant => at[t] = "return"
    BY <2>2, TaskLedgerAssumption DEF MutexOK
  <2>4. ~overwritten /\ using[t] # NoGrant => RunOf(d, using[t], run)
    BY <2>3, <1>2 DEF OutcomeOK, RunOf
  <2>5. \A u \in Threads : at'[u] # "finalize"
    BY <1>6 DEF Exclusive
  <2>6. \A u \in Threads : using[u] # NoGrant => at'[u] = "view" /\ doc'[u] = d
    BY <1>1, <2>1 DEF TypeOK
  <2> QED BY <1>1, <2>1, <2>4, <2>5, <2>6 DEF OutcomeOK, Viewing
<1>13. AccountOK'
  BY <1>1, <1>2, <1>6 DEF AccountOK, RunsAccountedFor, Exists, Exclusive, TypeOK
<1>14. WorkOK' /\ CancelOK'
  BY <1>1, OthersCancel DEF TypeOK, Cancelling
<1> QED BY <1>4, <1>5, <1>7, <1>8, <1>9, <1>10, <1>11, <1>12, <1>13, <1>14

\* A view that writes nothing changes at most its own copy.
LEMMA ViewStep ==
    ASSUME IInv, NEW t \in Threads, View(t) \/ ViewEnded(t) \/ WriteViewLost(t)
    PROVE  IInv'
<1> DEFINE d == doc'[t]
<1> USE DEF IInv, Goto, Answered, files, process
<1>1. /\ doc' = [doc EXCEPT ![t] = d] /\ at' = [at EXCEPT ![t] = at'[t]]
      /\ at[t] \in Viewing /\ at'[t] \in {"idle", "write", "complete"}
      /\ (at'[t] = "complete" => using[t] # NoGrant)
      /\ (at'[t] = "idle" => using[t] = NoGrant)
      /\ (~serving => at'[t] = "idle")
      /\ UNCHANGED <<files, lock, using, process, overwritten>>
  BY DEF View, ViewEnded, WriteViewLost, TypeOK, Viewing, MutexOK
<1>2. Good(d, run, undone, approved) /\ d.pending = NoIntent
      /\ (at'[t] # "idle" => d.current = doc[t].current)
  <2>1. CASE View(t) \/ WriteViewLost(t)
    <3>1. Good(NewTask, run, undone, approved) /\ NewTask.pending = NoIntent
      BY NewTaskFacts
    <3>2. d \in {doc[t], NewTask} /\ (at'[t] # "idle" => d = doc[t])
      BY <2>1 DEF View, WriteViewLost, TypeOK
    <3>3. Good(doc[t], run, undone, approved) /\ doc[t].pending = NoIntent
      BY <2>1 DEF View, WriteViewLost, DocsOK, IntentOK, Viewing
    <3> HIDE DEF d
    <3> QED BY <3>1, <3>2, <3>3
  <2>2. CASE ViewEnded(t)
    <3> DEFINE e == doc[t]
    <3>1. /\ e \in Tasks /\ Good(e, run, undone, approved) /\ e.pending = NoIntent
      BY <2>2 DEF ViewEnded, TypeOK, DocsOK, IntentOK, Viewing
    <3>2. /\ d = [e EXCEPT !.status = Shown(run[e.current].status)]
          /\ e.current # NoRun /\ run[e.current].status \in Ended
      BY <2>2 DEF ViewEnded, RunEnded, TypeOK
    <3>3. Shown(run[e.current].status) = run[e.current].status
      BY <3>2 DEF Shown
    <3>4. run[e.current].status \in TaskStatuses
      BY <3>2 DEF TaskStatuses
    <3> HIDE DEF e, d
    <3>5. /\ d \in Tasks /\ d.current = e.current /\ d.pending = NoIntent
          /\ d.status = run[e.current].status /\ d.confirmed = e.confirmed
      BY <3>1, <3>2, <3>3, <3>4 DEF Tasks
    <3>6. Truthful(d, run, undone)
      BY <3>2, <3>5 DEF Truthful, Ran
    <3> QED BY <3>1, <3>5, <3>6 DEF Good, e
  <2> QED BY <2>1, <2>2
<1> HIDE DEF d
<1>4. TypeOK'
  BY <1>1, <1>2 DEF TypeOK, Places, Good
<1>5. DocsOK'
  BY <1>1, <1>2 DEF DocsOK, TypeOK
<1>7. MutexOK'
  BY <1>1 DEF MutexOK, TypeOK, Exclusive, Viewing
<1>8. IntentOK'
  BY <1>1, <1>2 DEF IntentOK, TypeOK, Exclusive, Viewing, Absent
<1>9. PendingOK'
  BY <1>1 DEF PendingOK, TypeOK, Viewing, Absent
<1>10. ConsentOK'
  BY <1>1 DEF ConsentOK, Consent, Exists, TypeOK
<1>11. GrantOK'
  BY <1>1 DEF GrantOK, GrantStartsOne, Absent, TypeOK
<1>12. OutcomeOK'
  BY <1>1, <1>2 DEF OutcomeOK, Viewing, RunOf, TypeOK
<1>13. AccountOK'
  BY <1>1 DEF AccountOK, RunsAccountedFor, Exists, TypeOK
<1>14. WorkOK' /\ CancelOK'
  BY <1>1 DEF WorkOK, CancelOK, TypeOK, Cancelling, Absent
<1> QED BY <1>4, <1>5, <1>7, <1>8, <1>9, <1>10, <1>11, <1>12, <1>13, <1>14

\* A view that writes brings back a whole document, a good one, without an
\* intent; unless it has overwritten a newer one, only the status is new.
LEMMA WriteViewStep ==
    ASSUME IInv, NEW t \in Threads, WriteView(t)
    PROVE  IInv'
<1> DEFINE d == doc[t]
           e == doc'[t]
<1> USE DEF IInv, Goto, Answered, process
<1>1. /\ task' = d /\ doc' = [doc EXCEPT ![t] = e] /\ at' = [at EXCEPT ![t] = at'[t]]
      /\ at[t] = "write" /\ at'[t] \in {"idle", "complete"}
      /\ (at'[t] = "complete" => using[t] # NoGrant /\ e = d)
      /\ (at'[t] = "idle" => using[t] = NoGrant)
      /\ e \in {NewTask, d}
      /\ overwritten' = (overwritten \/ task \notin {d, [d EXCEPT !.status = "running"]})
      /\ UNCHANGED <<contract, approved, run, grant, lock, using, process>>
  BY DEF WriteView, TypeOK
<1>2. d \in Tasks /\ Good(d, run, undone, approved) /\ d.pending = NoIntent
  BY <1>1 DEF DocsOK, TypeOK, IntentOK, Viewing
<1>3. e \in Tasks /\ Good(e, run, undone, approved) /\ e.pending = NoIntent
  BY <1>1, <1>2, NewTaskFacts DEF Good
<1>4. ~overwritten' => /\ ~overwritten
                       /\ d.runs = task.runs /\ d.pending = task.pending
                       /\ d.current = task.current /\ d.archived = task.archived
  <2> HIDE DEF d, e
  <2> QED BY <1>1, <1>2 DEF Tasks
<1>5. serving
  BY <1>1 DEF MutexOK
<1> HIDE DEF d, e
<1>6. TypeOK'
  BY <1>1, <1>2, <1>3 DEF TypeOK, Places
<1>7. DocsOK'
  BY <1>1, <1>2, <1>3 DEF DocsOK, TypeOK
<1>8. MutexOK'
  BY <1>1, <1>5 DEF MutexOK, TypeOK, Exclusive
<1>9. IntentOK'
  BY <1>1, <1>3 DEF IntentOK, TypeOK, Exclusive, Viewing, Absent
<1>10. PendingOK'
  BY <1>1, <1>2 DEF PendingOK
<1>11. ConsentOK'
  BY <1>1 DEF ConsentOK, Consent, Exists, TypeOK
<1>12. GrantOK'
  BY <1>1 DEF GrantOK, GrantStartsOne, Absent, TypeOK
<1>13. OutcomeOK'
  <2>1. \A u \in Threads : at'[u] = "finalize" => run'[doc'[u].pending.run].grant = using'[u]
    BY <1>1 DEF OutcomeOK, TypeOK
  <2>2. ASSUME ~overwritten', NEW u \in Threads, using[u] # NoGrant, at'[u] = "return"
        PROVE  RunOf(task', using[u], run)
    <3>1. at[u] = "return"
      BY <1>1, <2>2 DEF TypeOK
    <3> QED BY <3>1, <2>2, <1>1, <1>4 DEF OutcomeOK, RunOf
  <2>3. ASSUME ~overwritten', NEW u \in Threads, using[u] # NoGrant, at'[u] \in Viewing
        PROVE  RunOf(doc'[u], using[u], run)
    <3>1. at[u] \in Viewing /\ doc'[u] = doc[u]
      BY <1>1, <2>3 DEF TypeOK, Viewing, d
    <3> QED BY <3>1, <2>3, <1>4 DEF OutcomeOK
  <2> QED BY <1>1, <1>4, <2>1, <2>2, <2>3 DEF OutcomeOK
<1>14. AccountOK'
  <2>1. \A u \in Threads : at'[u] \in {"submit", "finalize", "record"} =>
                               at[u] = at'[u] /\ doc'[u] = doc[u]
    BY <1>1 DEF TypeOK
  <2> QED BY <1>1, <1>4, <2>1 DEF AccountOK, RunsAccountedFor, Exists
<1>15. WorkOK' /\ CancelOK'
  BY <1>1, <1>4 DEF WorkOK, CancelOK, TypeOK, Cancelling, Absent
<1> QED BY <1>6, <1>7, <1>8, <1>9, <1>10, <1>11, <1>12, <1>13, <1>14, <1>15

-----------------------------------------------------------------------------
(* Configuring.                                                              *)

\* What every step at rest may rely on: nobody is between two writes.
AtRest == serving /\ lock = Nobody
LEMMA RestFacts ==
    ASSUME TypeOK, MutexOK, AtRest
    PROVE  \A u \in Threads : at[u] \notin Exclusive /\ using[u] = NoGrant
  BY TaskLedgerAssumption DEF MutexOK, AtRest

\* Steps at rest that change the document, and no Run, intent or lineage.
LEMMA DocumentStep ==
    ASSUME IInv, AtRest, NEW t \in Threads,
           Good(task', run, undone, approved'), approved \subseteq approved',
           approved' \in SUBSET (1 .. MaxContracts),
           task'.runs = task.runs, task'.pending = task.pending,
           at' = [at EXCEPT ![t] = at'[t]], at'[t] \in {"idle", "return"},
           UNCHANGED <<contract, run, grant, lock, doc, using, process, overwritten>>
    PROVE  IInv'
<1> USE DEF IInv, process
<1>1. \A u \in Threads : /\ at[u] \notin Exclusive /\ using[u] = NoGrant
                         /\ at'[u] \notin Exclusive /\ (at'[u] \in Viewing => at'[u] = at[u])
  BY RestFacts DEF TypeOK, Exclusive, Viewing
<1>2. TypeOK'
  BY DEF TypeOK, Places, Good
<1>3. DocsOK'
  BY DEF DocsOK, Good
<1>4. MutexOK'
  BY <1>1 DEF MutexOK, Viewing, AtRest, Exclusive
<1>5. IntentOK'
  BY <1>1 DEF IntentOK, Exclusive, Absent
<1>6. PendingOK'
  BY TaskLedgerAssumption DEF PendingOK, AtRest, Absent
<1>7. ConsentOK'
  BY <1>1 DEF ConsentOK, Consent, Exists, Exclusive
<1>8. GrantOK'
  BY <1>1 DEF GrantOK, GrantStartsOne, Absent
<1>9. OutcomeOK'
  BY <1>1 DEF OutcomeOK, Exclusive
<1>10. AccountOK'
  BY <1>1 DEF AccountOK, RunsAccountedFor, Exists, Exclusive
<1>11. WorkOK' /\ CancelOK'
  BY <1>1, OthersCancel DEF AtRest, Cancelling, TypeOK
<1> QED BY <1>2, <1>3, <1>4, <1>5, <1>6, <1>7, <1>8, <1>9, <1>10, <1>11

\* Archiving, confirming and dropping a confirmation are such steps.
LEMMA DocumentSteps ==
    ASSUME IInv, NEW t \in Threads,
           \/ ArchiveTask(t) \/ ConfirmContract(t)
           \/ \E parent \in RunIds \cup {NoRun} : RevokeConfirmation(t, parent)
    PROVE  IInv'
<1> USE DEF Idle, Goto, threads
<1>1. task \in Tasks /\ Good(task, run, undone, approved) /\ at \in [Threads -> Places]
      /\ contract \in 1 .. MaxContracts /\ approved \in SUBSET (1 .. MaxContracts)
  BY DEF IInv, TypeOK, DocsOK
<1>2. /\ task'.runs = task.runs /\ task'.pending = task.pending
      /\ task' \in Tasks /\ task'.current = task.current
      /\ (task'.status = task.status \/ task'.status \notin Ended)
      /\ task'.confirmed \in {0, task.confirmed} \cup approved'
  <2>1. CASE ArchiveTask(t)
    BY <1>1, <2>1 DEF ArchiveTask, Tasks, Good
  <2>2. CASE ConfirmContract(t)
    <3>1. task' = [task EXCEPT !.confirmed = contract, !.status = "ready"]
      BY <2>2 DEF ConfirmContract
    <3>2. task' = [status |-> "ready", current |-> task.current, runs |-> task.runs,
                   pending |-> task.pending, confirmed |-> contract,
                   revision |-> task.revision, archived |-> task.archived]
      BY <1>1, <3>1 DEF Tasks
    <3>3. task' \in Tasks
      BY <1>1, <3>2 DEF Tasks, TaskStatuses
    <3>4. contract \in approved' /\ "ready" \notin Ended
      BY <2>2 DEF ConfirmContract, Ended, Recoverable
    <3> QED BY <3>2, <3>3, <3>4
  <2>3. CASE \E parent \in RunIds \cup {NoRun} : RevokeConfirmation(t, parent)
    <3>1. task' = [task EXCEPT !.confirmed = 0, !.status = "data_ready"]
      BY <2>3 DEF RevokeConfirmation, Revoked
    <3>2. task' = [status |-> "data_ready", current |-> task.current, runs |-> task.runs,
                   pending |-> task.pending, confirmed |-> 0,
                   revision |-> task.revision, archived |-> task.archived]
      BY <1>1, <3>1 DEF Tasks
    <3>3. task' \in Tasks
      BY <1>1, <3>2, TaskLedgerAssumption DEF Tasks, TaskStatuses
    <3>4. "data_ready" \notin Ended
      BY DEF Ended, Recoverable
    <3> QED BY <3>2, <3>3, <3>4
  <2> QED BY <2>1, <2>2, <2>3
<1>3. approved \subseteq approved' /\ approved' \in SUBSET (1 .. MaxContracts)
  BY <1>1 DEF ArchiveTask, ConfirmContract, RevokeConfirmation
<1>4. Good(task', run, undone, approved')
  BY <1>1, <1>2, <1>3 DEF Good, Truthful, Ran
<1>5. /\ at' = [at EXCEPT ![t] = at'[t]] /\ at'[t] \in {"idle", "return"} /\ AtRest
      /\ UNCHANGED <<contract, run, grant, lock, doc, using, process, overwritten>>
  BY <1>1 DEF ArchiveTask, ConfirmContract, RevokeConfirmation, AtRest
<1> QED BY <1>2, <1>3, <1>4, <1>5, DocumentStep

\* update_contract writes the file, and keeps the lock and a good copy.
LEMMA UpdateContractStep ==
    ASSUME IInv, NEW t \in Threads, UpdateContract(t)
    PROVE  IInv'
<1> DEFINE d == [task EXCEPT !.confirmed = 0, !.current = NoRun, !.status = "data_ready"]
<1> USE DEF IInv, process
<1>1. /\ contract' = contract + 1 /\ contract < MaxContracts
      /\ doc' = [doc EXCEPT ![t] = d] /\ lock' = t /\ at' = [at EXCEPT ![t] = "record"]
      /\ UNCHANGED <<task, approved, run, grant, using, process, overwritten>>
      /\ AtRest
  BY DEF UpdateContract, Goto, Idle, AtRest
<1>2. /\ d \in Tasks /\ d.pending = task.pending /\ d.runs = task.runs
      /\ d.confirmed = 0 /\ d.status = "data_ready"
  <2>1. task \in Tasks
    BY DEF TypeOK
  <2>0. d = [task EXCEPT !.confirmed = 0, !.current = NoRun, !.status = "data_ready"]
    OBVIOUS
  <2> HIDE DEF d
  <2>2. d = [status |-> "data_ready", current |-> NoRun, runs |-> task.runs,
             pending |-> task.pending, confirmed |-> 0,
             revision |-> task.revision, archived |-> task.archived]
    BY <2>0, <2>1 DEF Tasks
  <2>3. d \in Tasks
    BY <2>1, <2>2, TaskLedgerAssumption DEF Tasks, TaskStatuses
  <2> QED BY <2>2, <2>3
<1> HIDE DEF d
<1>3. \A u \in Threads : at[u] \notin Exclusive /\ using[u] = NoGrant
  BY <1>1, RestFacts
<1>4. \A u \in Threads \ {t} : at'[u] = at[u] /\ doc'[u] = doc[u] /\ at'[u] \notin Exclusive
  BY <1>1, <1>3 DEF TypeOK
<1>5. at'[t] = "record" /\ doc'[t] = d
  BY <1>1 DEF TypeOK
<1>6. d.pending # NoIntent => ~Absent(d.pending.run)
  BY <1>1, <1>2, TaskLedgerAssumption DEF PendingOK, AtRest
<1>7. Good(d, run, undone, approved)
  <2>1. d.status \notin Ended
    BY <1>2 DEF Ended, Recoverable
  <2> QED BY <1>2, <1>6, <2>1 DEF Good, Truthful, Ran, Absent
<1>8. TypeOK'
  <2>1. contract' \in 1 .. MaxContracts
    BY <1>1, TaskLedgerAssumption DEF TypeOK
  <2> QED BY <1>1, <1>2, <2>1 DEF TypeOK, Places
<1>9. DocsOK'
  BY <1>1, <1>7, <1>4, <1>5 DEF DocsOK
<1>10. MutexOK'
  BY <1>1, <1>3, <1>4, <1>5 DEF MutexOK, AtRest
<1>11. IntentOK'
  BY <1>1, <1>2, <1>4, <1>5, <1>6 DEF IntentOK, Viewing, Absent
<1>12. PendingOK'
  BY <1>1, TaskLedgerAssumption DEF PendingOK, AtRest, Absent
<1>13. ConsentOK'
  BY <1>1, <1>4, <1>5 DEF ConsentOK, Consent, Exists, Exclusive
<1>14. GrantOK'
  BY <1>1, <1>3 DEF GrantOK, GrantStartsOne, Absent
<1>15. OutcomeOK'
  BY <1>1, <1>3, <1>4, <1>5 DEF OutcomeOK, Exclusive
<1>16. AccountOK'
  BY <1>1, <1>2, <1>4, <1>5 DEF AccountOK, RunsAccountedFor, Exists, Exclusive
<1>17. WorkOK' /\ CancelOK'
  BY <1>1, <1>4, <1>5, OthersCancel DEF Cancelling
<1> QED BY <1>8, <1>9, <1>10, <1>11, <1>12, <1>13, <1>14, <1>15, <1>16, <1>17

\* Then it writes the copy.
LEMMA RecordRevisionStep ==
    ASSUME IInv, NEW t \in Threads, RecordRevision(t)
    PROVE  IInv'
<1> DEFINE d == [doc[t] EXCEPT !.revision = contract]
<1> USE DEF IInv, process
<1>1. /\ at[t] = "record" /\ task' = d /\ lock' = Nobody /\ at' = [at EXCEPT ![t] = "return"]
      /\ UNCHANGED <<contract, approved, run, grant, doc, using, process, overwritten>>
  BY DEF RecordRevision, Goto
<1>2. /\ d \in Tasks /\ d.pending = doc[t].pending /\ d.runs = doc[t].runs
      /\ d.confirmed = doc[t].confirmed /\ d.status = doc[t].status
      /\ d.current = doc[t].current
  <2>1. doc[t] \in Tasks /\ contract \in 1 .. MaxContracts
    BY DEF TypeOK
  <2> QED BY <2>1 DEF Tasks
<1> HIDE DEF d
<1>3. lock = t /\ \A u \in Threads \ {t} : at[u] \notin Exclusive /\ using[u] = NoGrant
  BY <1>1 DEF MutexOK, Exclusive
<1>4. using[t] = NoGrant
  BY <1>1 DEF MutexOK
<1>5. \A u \in Threads \ {t} : at'[u] = at[u] /\ at'[u] \notin Exclusive
  BY <1>1, <1>3 DEF TypeOK
<1>6. at'[t] = "return"
  BY <1>1 DEF TypeOK
<1>7. Good(d, run, undone, approved)
  BY <1>2 DEF Good, Truthful, Ran, DocsOK
<1>8. TypeOK'
  BY <1>1, <1>2 DEF TypeOK, Places
<1>9. DocsOK'
  BY <1>1, <1>7 DEF DocsOK
<1>10. MutexOK'
  BY <1>1, <1>3, <1>4, <1>5, <1>6 DEF MutexOK, Exclusive
<1>11. IntentOK'
  BY <1>1, <1>5, <1>6 DEF IntentOK, Viewing, Absent
<1>12. PendingOK'
  BY <1>1, <1>2 DEF PendingOK, IntentOK, Absent
<1>13. ConsentOK'
  BY <1>1, <1>5, <1>6 DEF ConsentOK, Consent, Exists, Exclusive
<1>14. GrantOK'
  BY <1>1, <1>3, <1>4 DEF GrantOK, GrantStartsOne, Absent
<1>15. OutcomeOK'
  BY <1>1, <1>3, <1>4, <1>5, <1>6 DEF OutcomeOK, Exclusive
<1>16. AccountOK'
  BY <1>1, <1>2, <1>5, <1>6 DEF AccountOK, RunsAccountedFor, Exists, Exclusive
<1>17. WorkOK' /\ CancelOK'
  BY <1>1, <1>5, <1>6, OthersCancel DEF Cancelling
<1> QED BY <1>8, <1>9, <1>10, <1>11, <1>12, <1>13, <1>14, <1>15, <1>16, <1>17

-----------------------------------------------------------------------------
(* Authorizing.                                                              *)

\* What is startable is confirmed, at rest and announces nothing.
LEMMA StartableFacts ==
    ASSUME Startable(task)
    PROVE  /\ task.pending = NoIntent
           /\ Scope(task).contract = contract
  BY DEF Startable, Authorized, Confirmed, Scope

\* Issuing, refusing: the authorization has started nothing and does not.
LEMMA GrantSteps ==
    ASSUME IInv, NEW t \in Threads, NEW g \in Grants,
           \/ IssueGrant(t, g)
           \/ \E verdict \in {"expired", "invalidated"} : RefuseGrant(t, g, verdict)
    PROVE  IInv'
<1> USE DEF IInv, process
<1>1. /\ grant[g].status \notin Used /\ grant' = [grant EXCEPT ![g] = grant'[g]]
      /\ grant'[g] \in GrantRecords /\ grant'[g].status \notin Used
      /\ at' = [at EXCEPT ![t] = at'[t]] /\ at'[t] \in {"idle", "return"} /\ AtRest
      /\ UNCHANGED <<task, contract, approved, run, lock, doc, using, process, overwritten>>
  <2>1. CASE IssueGrant(t, g)
    <3>1. Scope(task) \in Scopes
      BY DEF TypeOK, Tasks, Scope, Scopes
    <3>2. grant'[g] = [status |-> "issued", scope |-> Scope(task), outcome |-> NoRun]
      BY <2>1 DEF IssueGrant, TypeOK
    <3>3. grant'[g] \in GrantRecords
      BY <3>1, <3>2 DEF GrantRecords, GrantStatuses
    <3> QED BY <2>1, <3>2, <3>3 DEF IssueGrant, TypeOK, Used, AtRest, Idle, Goto
  <2>2. CASE \E verdict \in {"expired", "invalidated"} : RefuseGrant(t, g, verdict)
    <3>1. PICK verdict \in {"expired", "invalidated"} : RefuseGrant(t, g, verdict)
      BY <2>2
    <3>2. grant[g] \in GrantRecords /\ grant'[g] = [grant[g] EXCEPT !.status = verdict]
      BY <3>1 DEF RefuseGrant, TypeOK
    <3>3. grant'[g] \in GrantRecords /\ grant'[g].status = verdict
      BY <3>2 DEF GrantRecords, GrantStatuses
    <3> QED BY <3>1, <3>2, <3>3 DEF RefuseGrant, TypeOK, Used, AtRest, Idle, threads
  <2> QED BY <2>1, <2>2
<1>2. \A u \in Threads : /\ at[u] \notin Exclusive /\ using[u] = NoGrant
                         /\ at'[u] \notin Exclusive /\ (at'[u] \in Viewing => at'[u] = at[u])
  BY <1>1, RestFacts DEF TypeOK, Exclusive, Viewing
<1>3. \A r \in RunIds : run[r].grant # g
  BY <1>1, TaskLedgerAssumption DEF GrantOK
<1>4. \A h \in Grants \ {g} : grant'[h] = grant[h]
  BY <1>1 DEF TypeOK
<1>5. \A r \in RunIds : run[r].grant \in Grants \cup {NoGrant}
  BY DEF TypeOK, RunRecords
<1>6. TypeOK'
  BY <1>1 DEF TypeOK, Places
<1>7. DocsOK'
  BY <1>1 DEF DocsOK
<1>8. MutexOK'
  BY <1>1, <1>2 DEF MutexOK, AtRest, Viewing
<1>9. IntentOK'
  BY <1>1, <1>2 DEF IntentOK, Exclusive, Absent
<1>10. PendingOK'
  BY <1>1, TaskLedgerAssumption DEF PendingOK, AtRest, Absent
<1>11. ConsentOK'
  BY <1>1, <1>2 DEF ConsentOK, Consent, Exists, Exclusive
<1>12. GrantOK'
  BY <1>1, <1>2, <1>3, <1>4, <1>5 DEF GrantOK, GrantStartsOne, Absent
<1>13. OutcomeOK'
  BY <1>1, <1>2, <1>4 DEF OutcomeOK, Exclusive, Used
<1>14. AccountOK'
  BY <1>1, <1>2 DEF AccountOK, RunsAccountedFor, Exists, Exclusive
<1>15. WorkOK' /\ CancelOK'
  BY <1>1, OthersCancel DEF AtRest, Cancelling, TypeOK
<1> QED BY <1>6, <1>7, <1>8, <1>9, <1>10, <1>11, <1>12, <1>13, <1>14, <1>15

\* reserve takes the lock with an authorization of the contract in force.
LEMMA ReserveStep ==
    ASSUME IInv, NEW t \in Threads, NEW g \in Grants, Reserve(t, g)
    PROVE  IInv'
<1> USE DEF IInv, process
<1>1. /\ grant[g].status = "issued" /\ grant[g].scope.contract = contract
      /\ grant[g] \in GrantRecords
      /\ grant' = [grant EXCEPT ![g] = [grant[g] EXCEPT !.status = "consuming"]]
      /\ at' = [at EXCEPT ![t] = "begin"] /\ using' = [using EXCEPT ![t] = g]
      /\ lock' = t /\ AtRest
      /\ UNCHANGED <<task, contract, approved, run, doc, process, overwritten>>
  BY StartableFacts DEF Reserve, Goto, Idle, AtRest, TypeOK
<1>2. /\ grant'[g] \in GrantRecords /\ grant'[g].status = "consuming"
      /\ grant'[g].scope = grant[g].scope /\ grant' = [grant EXCEPT ![g] = grant'[g]]
  <2> DEFINE x == [grant[g] EXCEPT !.status = "consuming"]
  <2>1. x \in GrantRecords /\ x.status = "consuming" /\ x.scope = grant[g].scope
    BY <1>1 DEF GrantRecords, GrantStatuses
  <2> HIDE DEF x
  <2>2. grant' = [grant EXCEPT ![g] = x]
    BY <1>1 DEF x
  <2> QED BY <2>1, <2>2 DEF TypeOK
<1>3. /\ \A h \in Grants \ {g} : grant'[h] = grant[h]
      /\ \A u \in Threads \ {t} : at'[u] = at[u] /\ using'[u] = NoGrant
      /\ \A u \in Threads : at[u] \notin Exclusive
      /\ at'[t] = "begin" /\ using'[t] = g
  BY <1>1, <1>2, RestFacts DEF TypeOK
<1>4. \A r \in RunIds : run[r].grant # g /\ run[r].grant \in Grants \cup {NoGrant}
  BY <1>1, TaskLedgerAssumption DEF GrantOK, Used, TypeOK, RunRecords
<1>5. TypeOK'
  BY <1>1, <1>2 DEF TypeOK, Places
<1>6. DocsOK'
  BY <1>1 DEF DocsOK
<1>7. MutexOK'
  BY <1>1, <1>3 DEF MutexOK, AtRest
<1>8. IntentOK'
  BY <1>1, <1>3 DEF IntentOK, Viewing, Absent
<1>9. PendingOK'
  BY <1>1, TaskLedgerAssumption DEF PendingOK, AtRest, Absent
<1>10. ConsentOK'
  BY <1>1, <1>3 DEF ConsentOK, Consent, Exists
<1>11. GrantOK'
  BY <1>1, <1>2, <1>3, <1>4 DEF GrantOK, GrantStartsOne, Absent, Exclusive
<1>12. OutcomeOK'
  BY <1>1, <1>2, <1>3 DEF OutcomeOK, Viewing
<1>13. AccountOK'
  BY <1>1, <1>3 DEF AccountOK, RunsAccountedFor, Exists
<1>14. WorkOK' /\ CancelOK'
  BY <1>1, <1>3, OthersCancel DEF Cancelling, TypeOK
<1> QED BY <1>5, <1>6, <1>7, <1>8, <1>9, <1>10, <1>11, <1>12, <1>13, <1>14

-----------------------------------------------------------------------------
(* Launching.                                                                *)

\* An intent is written over a document that is startable in the eyes of its
\* thread, which keeps the lock.
LEMMA BeginStep ==
    ASSUME IInv, NEW t \in Threads, NEW r \in RunIds, NEW parent \in RunIds \cup {NoRun},
           NEW op \in Operations,
           Idle(t) \/ at[t] = "begin", ~Recovers(task),
           Authorized(Reconciled(task, run), parent),
           BeginIntent(t, Reconciled(task, run), r, parent, op)
    PROVE  IInv'
<1> DEFINE d == Reconciled(task, run)
           i == [run |-> r, parent |-> parent, operation |-> op, before |-> d.status]
           e == [d EXCEPT !.pending = i]
<1> USE DEF IInv, process
<1>1. /\ run[r].status = "absent" /\ task' = e /\ doc' = [doc EXCEPT ![t] = e]
      /\ at' = [at EXCEPT ![t] = "submit"] /\ lock' = t
      /\ UNCHANGED <<contract, approved, run, grant, using, process, overwritten>>
  BY DEF BeginIntent, Goto
<1>2. /\ d \in Tasks /\ Good(d, run, undone, approved) /\ task.runs \subseteq d.runs
      /\ d.pending = NoIntent
  BY ReconciledFacts, ReconciledIsGood DEF TypeOK, DocsOK
<1>3. /\ contract \in approved /\ ~d.archived
      /\ (parent # NoRun => run[parent].origin = contract)
  BY <1>2 DEF Authorized, Confirmed, OwnLineage, Good
<1>4. /\ serving /\ lock \in {Nobody, t}
      /\ \A u \in Threads \ {t} : at[u] \notin Exclusive /\ using[u] = NoGrant
      /\ (using[t] # NoGrant => at[t] = "begin")
  BY TaskLedgerAssumption DEF MutexOK, Idle, Exclusive
<1> HIDE DEF d
<1>5. /\ e \in Tasks /\ e.pending = i /\ e.runs = d.runs /\ e.archived = d.archived
      /\ e.current = d.current /\ e.status = d.status /\ e.confirmed = d.confirmed
  <2>1. i \in Intents
    BY <1>2 DEF Intents, Tasks
  <2> HIDE DEF i
  <2> QED BY <1>2, <2>1 DEF Tasks
<1>6. i # NoIntent /\ i.run = r /\ i.parent = parent /\ i.before = d.status
  BY TaskLedgerAssumption DEF NoIntent
<1> HIDE DEF i, e
<1>7. Good(e, run, undone, approved)
  BY <1>2, <1>5, <1>6 DEF Good, Truthful, Ran
<1>8. /\ \A u \in Threads \ {t} : at'[u] = at[u] /\ doc'[u] = doc[u] /\ at'[u] \notin Exclusive
      /\ at'[t] = "submit" /\ doc'[t] = e
  BY <1>1, <1>4 DEF TypeOK
<1>9. TypeOK'
  BY <1>1, <1>5 DEF TypeOK, Places
<1>10. DocsOK'
  BY <1>1, <1>7, <1>8 DEF DocsOK
<1>11. MutexOK'
  BY <1>1, <1>4, <1>8 DEF MutexOK
<1>12. IntentOK'
  BY <1>1, <1>5, <1>6, <1>8 DEF IntentOK, Viewing, Absent, Exclusive
<1>13. PendingOK'
  BY <1>1, <1>8 DEF PendingOK
<1>14. ConsentOK'
  BY <1>1, <1>3, <1>5, <1>6, <1>8 DEF ConsentOK, Consent, Exists, Exclusive
<1>15. GrantOK'
  BY <1>1, <1>4, <1>8 DEF GrantOK, GrantStartsOne, Absent
<1>16. OutcomeOK'
  BY <1>1, <1>4, <1>8 DEF OutcomeOK, Viewing, Exclusive
<1>17. AccountOK'
  <2>1. ~overwritten => \A s \in RunIds : Exists(s) => s \in d.runs
    <3>1. SUFFICES ASSUME ~overwritten, NEW s \in RunIds, Exists(s) PROVE s \in d.runs
      OBVIOUS
    <3>2. s \in task.runs \/ task.pending.run = s
      BY <3>1 DEF AccountOK, RunsAccountedFor
    <3>3. task.pending.run = s => task.pending = NoIntent
      BY <3>1 DEF Recovers, Exists
    <3>4. task.pending.run # s
      BY <3>3, TaskLedgerAssumption DEF NoIntent
    <3> QED BY <1>2, <3>2, <3>4
  <2> QED BY <1>1, <1>3, <1>5, <1>8, <2>1 DEF AccountOK, RunsAccountedFor, Exists, Exclusive
<1>18. WorkOK' /\ CancelOK'
  BY <1>1, <1>8, OthersCancel DEF Cancelling
<1> QED BY <1>9, <1>10, <1>11, <1>12, <1>13, <1>14, <1>15, <1>16, <1>17, <1>18

\* A document that no longer fits costs its confirmation at most.
LEMMA StartRefusedStep ==
    ASSUME IInv, NEW t \in Threads, StartRefused(t)
    PROVE  IInv'
<1> USE DEF IInv, process
<1>1. /\ at[t] = "begin" /\ at' = [at EXCEPT ![t] = "failed"]
      /\ task' \in {task, Revoked(task)}
      /\ UNCHANGED <<contract, approved, run, grant, lock, doc, using, process, overwritten>>
  BY DEF StartRefused, Goto
<1>2. /\ task' \in Tasks /\ task'.pending = task.pending /\ task'.runs = task.runs
      /\ task'.current = task.current /\ task'.archived = task.archived
      /\ (task'.status = task.status \/ task'.status \notin Ended)
      /\ task'.confirmed \in {0, task.confirmed}
  <2>1. task \in Tasks
    BY DEF TypeOK
  <2> DEFINE e == Revoked(task)
  <2>0. e = [task EXCEPT !.confirmed = 0, !.status = "data_ready"]
    BY DEF Revoked
  <2> HIDE DEF e
  <2>2. e = [status |-> "data_ready", current |-> task.current,
             runs |-> task.runs, pending |-> task.pending, confirmed |-> 0,
             revision |-> task.revision, archived |-> task.archived]
    BY <2>0, <2>1 DEF Tasks
  <2>3. e \in Tasks /\ "data_ready" \notin Ended
    BY <2>1, <2>2, TaskLedgerAssumption DEF Tasks, TaskStatuses, Ended, Recoverable
  <2>4. task' \in {task, e}
    BY <1>1 DEF e
  <2> QED BY <2>1, <2>2, <2>3, <2>4
<1>3. Good(task', run, undone, approved)
  BY <1>2 DEF Good, Truthful, Ran, DocsOK
<1>4. lock = t /\ \A u \in Threads \ {t} : at'[u] = at[u] /\ at[u] \notin Exclusive
  BY <1>1 DEF MutexOK, Exclusive, TypeOK
<1>5. at'[t] = "failed"
  BY <1>1 DEF TypeOK
<1>6. TypeOK'
  BY <1>1, <1>2 DEF TypeOK, Places
<1>7. DocsOK'
  BY <1>1, <1>3 DEF DocsOK
<1>8. MutexOK'
  BY <1>1, <1>4, <1>5 DEF MutexOK
<1>9. IntentOK'
  BY <1>1, <1>4, <1>5 DEF IntentOK, Exclusive, Viewing, Absent
<1>10. PendingOK'
  BY <1>1, <1>2, <1>4 DEF PendingOK, Absent
<1>11. ConsentOK'
  BY <1>1, <1>4, <1>5 DEF ConsentOK, Consent, Exists, Exclusive
<1>12. GrantOK'
  BY <1>1, <1>4, <1>5 DEF GrantOK, GrantStartsOne, Absent
<1>13. OutcomeOK'
  BY <1>1, <1>2, <1>4, <1>5 DEF OutcomeOK, Viewing, Exclusive, RunOf
<1>14. AccountOK'
  BY <1>1, <1>2, <1>4, <1>5 DEF AccountOK, RunsAccountedFor, Exists, Exclusive
<1>15. WorkOK' /\ CancelOK'
  BY <1>1, <1>4, <1>5, OthersCancel DEF Cancelling
<1> QED BY <1>6, <1>7, <1>8, <1>9, <1>10, <1>11, <1>12, <1>13, <1>14, <1>15

\* A Run is created as it was announced: of the contract in force, and for the
\* authorization its thread consumes.
LEMMA CreatedFacts ==
    ASSUME IInv, NEW t \in Threads, at[t] = "submit", ParentAllows(Intent(t)),
           NEW s \in RunStatuses \ {"absent"}
    PROVE  LET r == doc[t].pending.run
               x == Created(t, s)[r]
           IN  /\ r \in RunIds /\ Absent(r)
               /\ Created(t, s) = [run EXCEPT ![r] = x]
               /\ x \in RunRecords /\ x.status = s
               /\ x.origin = contract /\ x.grant = using[t]
<1> DEFINE i == doc[t].pending
           x == [status |-> s,
                 line |-> {i.run} \cup IF i.parent # NoRun THEN run[i.parent].line ELSE {},
                 origin |-> IF i.parent # NoRun THEN run[i.parent].origin ELSE contract,
                 grant |-> using[t]]
<1>1. i \in Intents
  <2>1. doc[t] \in Tasks
    BY DEF IInv, TypeOK
  <2>2. i # NoIntent
    BY DEF IInv, IntentOK
  <2> QED BY <2>1, <2>2 DEF Tasks
<1>2. i.run \in RunIds /\ (i.parent # NoRun => i.parent \in RunIds)
  BY <1>1 DEF Intents
<1>3. Absent(i.run)
  BY DEF IInv, IntentOK
<1>4. Created(t, s) = [run EXCEPT ![i.run] = x]
  BY DEF Created, Intent
<1>5. x.status = s /\ x.origin = contract /\ x.grant = using[t]
  BY DEF IInv, ConsentOK
<1>6. i.parent # NoRun => run[i.parent] \in RunRecords
  BY <1>2 DEF IInv, TypeOK
<1>7. x.line \subseteq RunIds
  BY <1>2, <1>6 DEF RunRecords
<1>8. contract \in 0 .. MaxContracts /\ using[t] \in Grants \cup {NoGrant}
  BY DEF IInv, TypeOK
<1>9. x = [status |-> s, line |-> x.line, origin |-> contract, grant |-> using[t]]
  BY <1>5
<1> HIDE DEF x
<1>10. x \in RunRecords
  BY <1>5, <1>7, <1>8, <1>9 DEF RunRecords
<1>11. Created(t, s)[i.run] = x
  BY <1>2, <1>4 DEF IInv, TypeOK
<1> QED BY <1>2, <1>3, <1>4, <1>5, <1>10, <1>11

\* Submitting creates that Run, whether the executor then takes it or not.
LEMMA SubmitStep ==
    ASSUME IInv, NEW t \in Threads, Submit(t) \/ SubmitUnscheduled(t)
    PROVE  IInv'
<1> DEFINE r == doc[t].pending.run
           x == run'[r]
<1> USE DEF IInv, process
<1>1. /\ at[t] = "submit" /\ ParentAllows(Intent(t))
      /\ run' = Created(t, "active") \/ run' = Created(t, "interrupted")
      /\ at' = [at EXCEPT ![t] = at'[t]] /\ at'[t] \in {"finalize", "failed"}
      /\ worker' \in [RunIds -> WorkerStates]
      /\ UNCHANGED <<task, contract, approved, grant, lock, doc, using, serving, restarts,
                     copy, undone, overwritten>>
  BY DEF Submit, SubmitUnscheduled, Goto, TypeOK, WorkerStates
<1>2. /\ r \in RunIds /\ Absent(r) /\ run' = [run EXCEPT ![r] = x] /\ x \in RunRecords
      /\ x.status # "absent" /\ x.origin = contract /\ x.grant = using[t]
  BY <1>1, CreatedFacts DEF RunStatuses, Ended, Recoverable
<1> HIDE DEF x
<1>3. \A q \in RunIds \ {r} : run'[q] = run[q]
  BY <1>2 DEF TypeOK
<1>4. run'[r] = x
  BY <1>2 DEF TypeOK
<1>5. lock = t /\ \A u \in Threads \ {t} : /\ at'[u] = at[u] /\ at[u] \notin Exclusive
                                           /\ using[u] = NoGrant
  BY <1>1 DEF MutexOK, Exclusive, TypeOK
<1>6. \A u \in Threads : at'[u] # "submit" /\ at'[u] # "record" /\ at'[u] # "begin"
  BY <1>1, <1>5 DEF Exclusive
<1> HIDE DEF r
<1>7. TypeOK'
  BY <1>1, <1>2 DEF TypeOK, Places
<1>8. DocsOK'
  <2>1. ASSUME NEW d, Good(d, run, undone, approved) PROVE Good(d, run', undone, approved)
    BY <1>2, <2>1, TruthOutlivesCreation DEF Good, Absent, TypeOK
  <2> QED BY <1>1, <2>1 DEF DocsOK
<1>9. MutexOK'
  BY <1>1, <1>5 DEF MutexOK, Exclusive
<1>10. IntentOK'
  BY <1>1, <1>5, <1>6 DEF IntentOK, Exclusive, Viewing
<1>11. PendingOK'
  BY <1>1, <1>2, <1>4, <1>5 DEF PendingOK, Absent, r
<1>12. ConsentOK'
  BY <1>1, <1>2, <1>3, <1>4, <1>6 DEF ConsentOK, Consent, Exists
<1>13. GrantOK'
  <2>1. using[t] # NoGrant => /\ grant[using[t]].scope.contract = contract
                              /\ \A q \in RunIds : run[q].grant # using[t]
                              /\ grant[using[t]].status = "consuming"
    BY <1>1 DEF GrantOK
  <2>2. GrantStartsOne'
    BY <1>2, <1>3, <1>4, <2>1 DEF GrantOK, GrantStartsOne
  <2>3. \A q \in RunIds :
          /\ Absent(q)' => run'[q].grant = NoGrant
          /\ run'[q].grant # NoGrant =>
                /\ grant[run'[q].grant].status \in Used
                /\ run'[q].origin = grant[run'[q].grant].scope.contract
    BY <1>2, <1>3, <1>4, <2>1 DEF GrantOK, Absent, Used
  <2> QED BY <1>1, <1>6, <2>2, <2>3 DEF GrantOK
<1>14. OutcomeOK'
  <2>1. \A q \in RunIds : run[q].grant # NoGrant => run'[q] = run[q]
    BY <1>2, <1>3 DEF GrantOK, Absent
  <2>2. \A g \in Grants : grant[g].status = "consumed" /\ ~overwritten =>
          grant[g].outcome # NoRun /\ run'[grant[g].outcome].grant = g
    <3>1. SUFFICES ASSUME NEW g \in Grants, grant[g].status = "consumed", ~overwritten
                   PROVE  grant[g].outcome # NoRun /\ run'[grant[g].outcome].grant = g
      OBVIOUS
    <3>2. grant[g].outcome # NoRun /\ run[grant[g].outcome].grant = g
      BY <3>1 DEF OutcomeOK
    <3>3. grant[g].outcome \in RunIds
      BY <3>2 DEF TypeOK, GrantRecords
    <3> QED BY <2>1, <3>2, <3>3, TaskLedgerAssumption
  <2>3. \A u \in Threads : at'[u] = "finalize" => u = t
    BY <1>5 DEF Exclusive
  <2>4. run'[doc[t].pending.run].grant = using[t]
    BY <1>2, <1>4 DEF r
  <2>5. \A u \in Threads : using[u] # NoGrant => at'[u] \notin {"return"} \cup Viewing
    BY <1>1, <1>5 DEF Viewing
  <2> QED BY <1>1, <2>2, <2>3, <2>4, <2>5 DEF OutcomeOK, Viewing
<1>15. AccountOK'
  <2>1. ~overwritten => task.pending = doc[t].pending
    BY <1>1 DEF AccountOK
  <2>2. \A q \in RunIds : Exists(q)' => Exists(q) \/ q = r
    BY <1>3 DEF Exists
  <2> QED BY <1>1, <1>5, <1>6, <2>1, <2>2 DEF AccountOK, RunsAccountedFor, r, Exclusive
<1>16. WorkOK' /\ CancelOK'
  <2>1. WorkOK'
    <3>1. worker[r] = "none"
      BY <1>2 DEF WorkOK, Absent, TypeOK, WorkerStates, Ended, Recoverable
    <3>2. \/ worker' = worker
          \/ worker' = [worker EXCEPT ![r] = "active"] /\ x.status = "active"
      BY <1>1, <1>4, CreatedFacts DEF Submit, SubmitUnscheduled, Intent, r, RunStatuses
    <3>3. \A q \in RunIds \ {r} : worker'[q] = worker[q]
      BY <3>2 DEF TypeOK
    <3>4. worker'[r] \in {"none", "active"} /\ (worker'[r] = "active" => run'[r].status = "active")
      BY <1>2, <1>4, <3>1, <3>2 DEF TypeOK
    <3>5. serving
      BY <1>1 DEF MutexOK
    <3> QED BY <1>1, <1>3, <3>3, <3>4, <3>5 DEF WorkOK, Absent, Ended, Recoverable
  <2>2. \A u \in Threads \ {t} : lock # u
    BY <1>5
  <2>3. CancelOK'
    <3>1. at'[t] \notin Cancelling
      BY <1>1 DEF Cancelling, TypeOK
    <3>2. \A q \in RunIds : ~Absent(q) => ~Absent(q)'
      BY <1>2, <1>3, <1>4 DEF Absent
    <3>3. \A u \in Threads \ {t} : lock' # u /\ at'[u] = at[u]
      BY <1>1, <1>5, <2>2
    <3> QED BY <1>1, <3>1, <3>2, <3>3 DEF CancelOK
  <2> QED BY <2>1, <2>3
<1> QED BY <1>7, <1>8, <1>9, <1>10, <1>11, <1>12, <1>13, <1>14, <1>15, <1>16

\* An intent whose Run is not created is taken back.
LEMMA SubmitRefusedStep ==
    ASSUME IInv, NEW t \in Threads, SubmitRefused(t)
    PROVE  IInv'
<1> USE DEF IInv, process
<1>1. /\ at[t] = "submit" /\ at' = [at EXCEPT ![t] = "failed"]
      /\ UNCHANGED <<contract, approved, run, grant, lock, doc, using, process, overwritten>>
  BY DEF SubmitRefused, Goto
<1>2. lock = t /\ \A u \in Threads \ {t} : /\ at'[u] = at[u] /\ at[u] \notin Exclusive
                                           /\ using[u] = NoGrant
  BY <1>1 DEF MutexOK, Exclusive, TypeOK
<1>3. at'[t] = "failed" /\ serving
  BY <1>1 DEF TypeOK, MutexOK
<1>4. /\ task' \in Tasks /\ Good(task', run, undone, approved) /\ task'.runs = task.runs
      /\ (task.pending # NoIntent /\ Absent(task.pending.run) => task'.pending = NoIntent)
      /\ (task'.pending # NoIntent => task'.pending = task.pending)
      /\ (Pending(t) => task.pending # NoIntent /\ Absent(task.pending.run))
  <2>0. task \in Tasks /\ doc[t] \in Tasks /\ Good(task, run, undone, approved)
    BY DEF TypeOK, DocsOK
  <2>1. doc[t].pending \in Intents /\ Absent(doc[t].pending.run)
    BY <1>1, <2>0 DEF IntentOK, Tasks
  <2>2. doc[t].pending.run \in RunIds
    BY <2>1 DEF Intents
  <2>3. CASE Pending(t)
    <3>1. task' = [task EXCEPT !.pending = NoIntent, !.status = task.pending.before]
      BY <2>3 DEF SubmitRefused
    <3>2. task.pending.run = doc[t].pending.run
      BY <2>3 DEF Pending, Intent
    <3>3. task.pending # NoIntent /\ task.pending \in Intents /\ Absent(task.pending.run)
      BY <2>0, <2>1, <2>2, <3>2, TaskLedgerAssumption DEF NoIntent, Tasks
    <3>4. task' = [status |-> task.pending.before, current |-> task.current,
                   runs |-> task.runs, pending |-> NoIntent, confirmed |-> task.confirmed,
                   revision |-> task.revision, archived |-> task.archived]
      BY <2>0, <3>1 DEF Tasks
    <3>5. task.pending.before \in TaskStatuses
      BY <3>3 DEF Intents
    <3>6. task' \in Tasks
      BY <2>0, <3>4, <3>5 DEF Tasks
    <3>7. Good(task', run, undone, approved)
      BY <2>0, <3>3, <3>4, <3>6 DEF Good, Truthful, Ran, Absent
    <3> QED BY <3>3, <3>4, <3>6, <3>7
  <2>4. CASE ~Pending(t)
    <3>1. task' = task
      BY <2>4 DEF SubmitRefused
    <3>2. task.pending # NoIntent /\ Absent(task.pending.run) =>
             task.pending.run = doc[t].pending.run
      BY <1>2, <1>3 DEF PendingOK
    <3> QED BY <2>0, <2>4, <3>1, <3>2 DEF Pending, Intent
  <2> QED BY <2>3, <2>4
<1>5. TypeOK'
  BY <1>1, <1>4 DEF TypeOK, Places
<1>6. DocsOK'
  BY <1>1, <1>4 DEF DocsOK
<1>7. MutexOK'
  BY <1>1, <1>2, <1>3 DEF MutexOK
<1>8. IntentOK'
  BY <1>1, <1>2, <1>3 DEF IntentOK, Exclusive, Viewing, Absent
<1>9. PendingOK'
  BY <1>1, <1>4 DEF PendingOK, Absent
<1>10. ConsentOK'
  BY <1>1, <1>2, <1>3 DEF ConsentOK, Consent, Exists, Exclusive
<1>11. GrantOK'
  BY <1>1, <1>2, <1>3 DEF GrantOK, GrantStartsOne, Absent
<1>12. OutcomeOK'
  BY <1>1, <1>2, <1>3 DEF OutcomeOK, Viewing, Exclusive
<1>13. AccountOK'
  <2>1. ~overwritten => \A r \in RunIds : Exists(r) => r \in task'.runs \/ task'.pending.run = r
    <3>1. CASE Pending(t)
      BY <1>4, <3>1 DEF AccountOK, RunsAccountedFor, Exists, Absent
    <3>2. CASE ~Pending(t)
      BY <3>2 DEF AccountOK, RunsAccountedFor, SubmitRefused
    <3> QED BY <3>1, <3>2
  <2> QED BY <1>1, <1>2, <1>3, <2>1 DEF AccountOK, RunsAccountedFor, Exists, Exclusive
<1>14. WorkOK' /\ CancelOK'
  BY <1>1, <1>2, <1>3, OthersCancel DEF Cancelling
<1> QED BY <1>5, <1>6, <1>7, <1>8, <1>9, <1>10, <1>11, <1>12, <1>13, <1>14

\* Entering the Run makes it the current one of the task.
LEMMA FinalizeStep ==
    ASSUME IInv, NEW t \in Threads, Finalize(t)
    PROVE  IInv'
<1> DEFINE r == doc[t].pending.run
<1> USE DEF IInv, process
<1>1. /\ at[t] = "finalize" /\ at' = [at EXCEPT ![t] = "return"]
      /\ task.pending.run = r
      /\ lock' \in {t, Nobody} /\ (using[t] # NoGrant => lock' = t)
      /\ UNCHANGED <<contract, approved, run, grant, doc, using, process, overwritten>>
  BY DEF Finalize, Goto, Pending, Intent
<1>2. lock = t /\ \A u \in Threads \ {t} : /\ at'[u] = at[u] /\ at[u] \notin Exclusive
                                           /\ using[u] = NoGrant
  BY <1>1 DEF MutexOK, Exclusive, TypeOK
<1>3. at'[t] = "return" /\ serving
  BY <1>1 DEF TypeOK, MutexOK
<1>4. r \in RunIds
  <2>1. doc[t] \in Tasks /\ doc[t].pending # NoIntent
    BY <1>1 DEF TypeOK, IntentOK
  <2>2. doc[t].pending \in Intents
    BY <2>1 DEF Tasks
  <2> QED BY <2>2 DEF Intents
<1>5. run[r].grant = using[t]
  BY <1>1 DEF OutcomeOK
<1>6. task' = [status |-> "running", current |-> r, runs |-> task.runs \cup {r},
               pending |-> NoIntent, confirmed |-> task.confirmed,
               revision |-> task.revision, archived |-> task.archived]
  <2>1. task \in Tasks
    BY DEF TypeOK
  <2>2. task' = [task EXCEPT !.pending = NoIntent, !.current = r,
                             !.runs = task.runs \cup {r}, !.status = "running"]
    BY DEF Finalize, Intent
  <2> HIDE DEF r
  <2> QED BY <2>1, <2>2 DEF Tasks
<1> HIDE DEF r
<1>7. task \in Tasks /\ task.confirmed \in approved \cup {0}
  BY DEF TypeOK, DocsOK, Good
<1>8. task' \in Tasks
  BY <1>4, <1>6, <1>7 DEF Tasks, TaskStatuses
<1>9. Good(task', run, undone, approved)
  <2>1. "running" \notin Ended
    BY DEF Ended, Recoverable
  <2> QED BY <1>6, <1>7, <1>8, <2>1 DEF Good, Truthful, Ran
<1>10. TypeOK'
  BY <1>1, <1>8 DEF TypeOK, Places
<1>11. DocsOK'
  BY <1>1, <1>9 DEF DocsOK
<1>12. MutexOK'
  BY <1>1, <1>2, <1>3 DEF MutexOK, Exclusive
<1>13. IntentOK'
  BY <1>1, <1>2, <1>3 DEF IntentOK, Exclusive, Viewing, Absent
<1>14. PendingOK'
  BY <1>6 DEF PendingOK
<1>15. ConsentOK'
  BY <1>1, <1>2, <1>3 DEF ConsentOK, Consent, Exists, Exclusive
<1>16. GrantOK'
  BY <1>1, <1>2, <1>3 DEF GrantOK, GrantStartsOne, Absent
<1>17. OutcomeOK'
  <2>1. RunOf(task', using[t], run)
    BY <1>4, <1>5, <1>6, TaskLedgerAssumption DEF RunOf
  <2> QED BY <1>1, <1>2, <1>3, <2>1 DEF OutcomeOK, Viewing, Exclusive
<1>18. AccountOK'
  BY <1>1, <1>2, <1>3, <1>6 DEF AccountOK, RunsAccountedFor, Exists, Exclusive
<1>19. WorkOK' /\ CancelOK'
  BY <1>1, <1>2, <1>3, OthersCancel DEF Cancelling
<1> QED BY <1>10, <1>11, <1>12, <1>13, <1>14, <1>15, <1>16, <1>17, <1>18, <1>19

\* A thread whose intent is lost gives up.
LEMMA IntentLostStep ==
    ASSUME IInv, NEW t \in Threads, IntentLost(t)
    PROVE  IInv'
<1> USE DEF IInv, process
<1>1. /\ at[t] = "finalize" /\ at' = [at EXCEPT ![t] = "failed"]
      /\ UNCHANGED <<files, lock, doc, using, process, overwritten>>
  BY DEF IntentLost, Goto
<1> USE DEF files
<1>2. lock = t /\ \A u \in Threads \ {t} : at'[u] = at[u] /\ at[u] \notin Exclusive
  BY <1>1 DEF MutexOK, Exclusive, TypeOK
<1>3. at'[t] = "failed"
  BY <1>1 DEF TypeOK
<1>5. TypeOK'
  BY <1>1 DEF TypeOK, Places
<1>6. DocsOK'
  BY <1>1 DEF DocsOK
<1>7. MutexOK'
  BY <1>1, <1>2, <1>3 DEF MutexOK
<1>8. IntentOK'
  BY <1>1, <1>2, <1>3 DEF IntentOK, Exclusive, Viewing, Absent
<1>9. PendingOK'
  BY <1>1, <1>2 DEF PendingOK, Absent
<1>10. ConsentOK'
  BY <1>1, <1>2, <1>3 DEF ConsentOK, Consent, Exists, Exclusive
<1>11. GrantOK'
  BY <1>1, <1>2, <1>3 DEF GrantOK, GrantStartsOne, Absent
<1>12. OutcomeOK'
  BY <1>1, <1>2, <1>3 DEF OutcomeOK, Viewing, Exclusive
<1>13. AccountOK'
  BY <1>1, <1>2, <1>3 DEF AccountOK, RunsAccountedFor, Exists, Exclusive
<1>14. WorkOK' /\ CancelOK'
  BY <1>1, <1>2, <1>3, OthersCancel DEF Cancelling
<1> QED BY <1>5, <1>6, <1>7, <1>8, <1>9, <1>10, <1>11, <1>12, <1>13, <1>14

\* A start ends: its authorization says what became of it, and the thread lets
\* go of everything.
LEMMA LeaveStep ==
    ASSUME IInv, NEW t \in Threads, Fail(t) \/ Complete(t)
    PROVE  IInv'
<1> DEFINE g == using[t]
<1> USE DEF IInv, process
<1>1. /\ at[t] \in {"failed", "complete"} /\ (at[t] = "complete" => g # NoGrant)
      /\ lock' = Nobody /\ using' = [using EXCEPT ![t] = NoGrant]
      /\ doc' = [doc EXCEPT ![t] = NewTask] /\ at' = [at EXCEPT ![t] = "idle"]
      /\ UNCHANGED <<task, contract, approved, run, process, overwritten>>
  BY DEF Fail, Complete, Leave, Goto, MutexOK
<1>2. lock = t /\ \A u \in Threads \ {t} : /\ at'[u] = at[u] /\ at[u] \notin Exclusive
                                           /\ using[u] = NoGrant /\ using'[u] = NoGrant
                                           /\ doc'[u] = doc[u]
  BY <1>1 DEF MutexOK, Exclusive, TypeOK
<1>3. /\ at'[t] = "idle" /\ using'[t] = NoGrant /\ doc'[t] = NewTask
      /\ g \in Grants \cup {NoGrant}
  BY <1>1 DEF TypeOK
<1>4. NewTask \in Tasks /\ Good(NewTask, run, undone, approved) /\ NewTask.pending = NoIntent
  BY NewTaskFacts DEF Good
<1>5. g = NoGrant => grant' = grant
  BY <1>1 DEF Fail, Complete
<1>6. g # NoGrant => /\ grant[g].status = "consuming"
                     /\ grant'[g] \in GrantRecords /\ grant'[g].scope = grant[g].scope
                     /\ grant'[g].status \in {"failed", "consumed"}
                     /\ grant' = [grant EXCEPT ![g] = grant'[g]]
                     /\ (grant'[g].status = "consumed" /\ ~overwritten =>
                           grant'[g].outcome # NoRun /\ run[grant'[g].outcome].grant = g)
  <2> SUFFICES ASSUME g # NoGrant
               PROVE  /\ grant[g].status = "consuming"
                      /\ grant'[g] \in GrantRecords /\ grant'[g].scope = grant[g].scope
                      /\ grant'[g].status \in {"failed", "consumed"}
                      /\ grant' = [grant EXCEPT ![g] = grant'[g]]
                      /\ (grant'[g].status = "consumed" /\ ~overwritten =>
                           grant'[g].outcome # NoRun /\ run[grant'[g].outcome].grant = g)
    OBVIOUS
  <2>1. /\ grant[g].status = "consuming" /\ g \in Grants /\ grant[g] \in GrantRecords
        /\ grant \in [Grants -> GrantRecords]
    BY <1>3 DEF GrantOK, TypeOK
  <2>2. CASE Fail(t)
    <3>1. grant' = [grant EXCEPT ![g].status = "failed"]
      BY <2>2 DEF Fail
    <3> HIDE DEF g
    <3>2. grant'[g] = [grant[g] EXCEPT !.status = "failed"]
      BY <2>1, <3>1
    <3>3. grant'[g] \in GrantRecords /\ grant'[g].status = "failed"
          /\ grant'[g].scope = grant[g].scope
      BY <2>1, <3>2 DEF GrantRecords, GrantStatuses
    <3>4. grant' = [grant EXCEPT ![g] = grant'[g]]
      BY <2>1, <3>1
    <3> QED BY <2>1, <3>3, <3>4
  <2>3. CASE Complete(t)
    <3> DEFINE c == doc[t].current
               s == IF c = NoRun THEN "failed" ELSE "consumed"
    <3>1. grant' = [grant EXCEPT ![g].status = s, ![g].outcome = c]
      BY <2>3 DEF Complete
    <3>2. c \in RunIds \cup {NoRun}
      BY DEF TypeOK, Tasks
    <3>3. ~overwritten => RunOf(doc[t], g, run)
      BY <2>3 DEF Complete, OutcomeOK, Viewing
    <3>4. ~overwritten => c # NoRun /\ run[c].grant = g
      BY <3>3 DEF RunOf
    <3>5. s \in {"failed", "consumed"} /\ (s = "consumed" => c # NoRun)
      OBVIOUS
    <3> HIDE DEF g, c, s
    <3>6. grant'[g] = [[grant[g] EXCEPT !.status = s] EXCEPT !.outcome = c]
      BY <2>1, <3>1
    <3>7. /\ grant'[g] \in GrantRecords /\ grant'[g].status = s
          /\ grant'[g].scope = grant[g].scope /\ grant'[g].outcome = c
      BY <2>1, <3>2, <3>5, <3>6 DEF GrantRecords, GrantStatuses
    <3>8. grant' = [grant EXCEPT ![g] = grant'[g]]
      BY <2>1, <3>1
    <3> QED BY <2>1, <3>4, <3>5, <3>7, <3>8
  <2> QED BY <2>2, <2>3
<1> HIDE DEF g
<1>7. \A h \in Grants \ {g} : grant'[h] = grant[h]
  BY <1>5, <1>6 DEF TypeOK
<1>8. \A r \in RunIds : run[r].grant \in Grants \cup {NoGrant}
  BY DEF TypeOK, RunRecords
<1>9. TypeOK'
  BY <1>1, <1>4, <1>5, <1>6 DEF TypeOK, Places
<1>10. DocsOK'
  BY <1>1, <1>2, <1>3, <1>4 DEF DocsOK
<1>11. MutexOK'
  BY <1>1, <1>2, <1>3 DEF MutexOK, Exclusive
<1>12. IntentOK'
  BY <1>1, <1>2, <1>3 DEF IntentOK, Exclusive, Viewing, Absent
<1>13. PendingOK'
  BY <1>1, <1>2 DEF PendingOK, Absent
<1>14. ConsentOK'
  BY <1>1, <1>2, <1>3 DEF ConsentOK, Consent, Exists, Exclusive
<1>15. GrantOK'
  <2>1. \A r \in RunIds : run[r].grant # NoGrant =>
          /\ grant'[run[r].grant].status \in Used
          /\ run[r].origin = grant'[run[r].grant].scope.contract
    BY <1>5, <1>6, <1>7, <1>8 DEF GrantOK, Used
  <2> QED BY <1>1, <1>2, <1>3, <2>1 DEF GrantOK, GrantStartsOne, Absent
<1>16. OutcomeOK'
  <2>1. ~overwritten => \A h \in Grants : grant'[h].status = "consumed" =>
          grant'[h].outcome # NoRun /\ run[grant'[h].outcome].grant = h
    BY <1>3, <1>5, <1>6, <1>7 DEF OutcomeOK
  <2> QED BY <1>1, <1>2, <1>3, <2>1 DEF OutcomeOK, Viewing, Exclusive
<1>17. AccountOK'
  BY <1>1, <1>2, <1>3 DEF AccountOK, RunsAccountedFor, Exists, Exclusive
<1>18. WorkOK' /\ CancelOK'
  BY <1>1, <1>2, <1>3, OthersCancel DEF Cancelling
<1> QED BY <1>9, <1>10, <1>11, <1>12, <1>13, <1>14, <1>15, <1>16, <1>17, <1>18

-----------------------------------------------------------------------------
(* Runs and processes end.                                                   *)

\* A Run's document is saved with another status.
LEMMA StatusFacts ==
    ASSUME TypeOK, NEW r \in RunIds, NEW s \in RunStatuses
    PROVE  LET x == [run[r] EXCEPT !.status = s]
           IN  /\ x \in RunRecords /\ x.status = s
               /\ x.origin = run[r].origin /\ x.grant = run[r].grant
               /\ [run EXCEPT ![r].status = s] = [run EXCEPT ![r] = x]
               /\ run \in [RunIds -> RunRecords]
<1>1. run[r] \in RunRecords /\ run \in [RunIds -> RunRecords]
  BY DEF TypeOK
<1> QED BY <1>1 DEF RunRecords

\* What a worker or a canceller does to a Run.
Works(r) == WorkerSaves(r) \/ \E verdict \in Ended : RunEnds(r, verdict)
Cancels(t) == CancelSaves(t) \/ CancelSettles(t)

\* Where the saving thread gets its status from, and what becomes of the one
\* before.
LEMMA SaveFacts ==
    ASSUME IInv, NEW r \in RunIds,
           Works(r) \/ \E t \in Threads : copy[t] = r /\ Cancels(t)
    PROVE  \E s \in RunStatuses \ {"absent"} :
              /\ run' = run \/ run' = [run EXCEPT ![r].status = s]
              /\ run[r].status # "absent"
              /\ run[r].status \in Ended => run[r].status \in {s} \cup undone'[r]
              /\ worker' = [worker EXCEPT ![r] = worker'[r]] /\ worker'[r] \in WorkerStates
              /\ undone' = [undone EXCEPT ![r] = undone'[r]]
              /\ undone[r] \subseteq undone'[r] /\ undone'[r] \subseteq Ended
              /\ worker'[r] = "active" => run'[r].status = "active"
              /\ worker'[r] \in Ended => run'[r].status \in {"active", worker'[r]}
<1> USE DEF IInv
<1>1. /\ worker \in [RunIds -> WorkerStates] /\ undone \in [RunIds -> SUBSET Ended]
      /\ run \in [RunIds -> RunRecords] /\ run[r] \in RunRecords
  BY DEF TypeOK
<1>2. /\ "active" \notin Ended /\ "absent" \notin Ended /\ "taken" \notin Ended
      /\ "failed" \in Ended /\ Ended \subseteq RunStatuses \ {"absent"}
      /\ "active" \in RunStatuses \ {"absent"}
  BY DEF Ended, Recoverable, RunStatuses
<1>3. \A s : [run EXCEPT ![r].status = s][r].status = s
  BY <1>1 DEF RunRecords
<1>4. CASE \E verdict \in Ended : RunEnds(r, verdict)
  <2>1. PICK verdict \in Ended : RunEnds(r, verdict)
    BY <1>4
  <2>2. /\ run[r].status = "active" /\ undone' = undone
        /\ run' = [run EXCEPT ![r].status = verdict]
        /\ worker' = [worker EXCEPT ![r] = verdict]
    BY <2>1 DEF RunEnds, WorkOK
  <2>3. worker'[r] = verdict /\ run'[r].status = verdict
    BY <1>1, <1>3, <2>2
  <2>4. verdict \in WorkerStates
    BY DEF WorkerStates
  <2> QED BY <1>1, <1>2, <2>2, <2>3, <2>4
<1>5. CASE WorkerSaves(r)
  <2>1. /\ worker[r] \in Ended /\ run' = [run EXCEPT ![r].status = worker[r]]
        /\ worker' = worker /\ undone' = undone
        /\ run[r].status \in {"active", worker[r]}
    BY <1>5 DEF WorkerSaves, WorkOK, process
  <2>2. run'[r].status = worker[r]
    BY <1>3, <2>1
  <2> QED BY <1>1, <1>2, <2>1, <2>2
<1>6. CASE \E t \in Threads : copy[t] = r /\ CancelSaves(t)
  <2>1. PICK t \in Threads : copy[t] = r /\ CancelSaves(t)
    BY <1>6
  <2>2. /\ run' = [run EXCEPT ![r].status = "active"] /\ worker' = worker
        /\ undone' = [undone EXCEPT ![r] = undone[r] \cup ({run[r].status} \cap Ended)]
        /\ run[r].status # "absent"
    BY <2>1 DEF CancelSaves, CancelOK, Cancelling, Absent
  <2>3. run'[r].status = "active"
    BY <1>3, <2>2
  <2>4. undone'[r] = undone[r] \cup ({run[r].status} \cap Ended)
    BY <1>1, <2>2
  <2> QED BY <1>1, <1>2, <2>2, <2>3, <2>4
<1>7. CASE \E t \in Threads : copy[t] = r /\ CancelSettles(t)
  <2>1. PICK t \in Threads : copy[t] = r /\ CancelSettles(t)
    BY <1>7
  <2>2. /\ worker' = [worker EXCEPT ![r] = "taken"] /\ undone' = undone
        /\ run' = IF run[r].status = "active"
                  THEN [run EXCEPT ![r].status = "failed"] ELSE run
        /\ run[r].status # "absent"
    BY <2>1 DEF CancelSettles, CancelOK, Cancelling, Absent
  <2>3. worker'[r] = "taken" /\ "taken" \in WorkerStates /\ run[r].status \in RunStatuses
    BY <1>1, <2>2 DEF WorkerStates, RunRecords
  <2>4. CASE run[r].status = "active"
    BY <1>1, <1>2, <2>2, <2>3, <2>4
  <2>5. CASE run[r].status # "active"
    BY <1>1, <1>2, <2>2, <2>3, <2>5
  <2> QED BY <2>4, <2>5
<1> QED BY <1>4, <1>5, <1>6, <1>7 DEF Works, Cancels

\* Runs go on by what is saved of them or by being interrupted.
LEMMA RunsGoOn ==
    ASSUME IInv,
           \/ \E r \in RunIds : Works(r)
           \/ \E t \in Threads : Cancels(t)
           \/ Restart
    PROVE  run' \in [RunIds -> RunRecords] /\ GoOn(run, run', undone, undone')
<1>0. TypeOK /\ run \in [RunIds -> RunRecords] /\ undone \in [RunIds -> SUBSET Ended]
  BY DEF IInv, TypeOK
<1>1. ASSUME NEW r \in RunIds, Works(r) \/ \E t \in Threads : copy[t] = r /\ Cancels(t)
      PROVE  run' \in [RunIds -> RunRecords] /\ GoOn(run, run', undone, undone')
  <2>1. PICK s \in RunStatuses \ {"absent"} :
              /\ run' = run \/ run' = [run EXCEPT ![r].status = s]
              /\ run[r].status # "absent"
              /\ run[r].status \in Ended => run[r].status \in {s} \cup undone'[r]
              /\ undone' = [undone EXCEPT ![r] = undone'[r]]
              /\ undone[r] \subseteq undone'[r]
    BY <1>1, SaveFacts
  <2>2. \A q \in RunIds \ {r} : undone'[q] = undone[q]
    BY <1>0, <2>1
  <2>3. CASE run' = run
    BY <1>0, <2>1, <2>2, <2>3 DEF GoOn
  <2>4. CASE run' = [run EXCEPT ![r].status = s]
    <3> DEFINE x == [run[r] EXCEPT !.status = s]
    <3>1. /\ x \in RunRecords /\ x.status = s
          /\ x.origin = run[r].origin /\ x.grant = run[r].grant
          /\ run' = [run EXCEPT ![r] = x]
      BY <1>0, <2>4, StatusFacts
    <3> HIDE DEF x
    <3>2. run'[r] = x /\ \A q \in RunIds \ {r} : run'[q] = run[q]
      BY <1>0, <3>1
    <3> QED BY <1>0, <2>1, <2>2, <3>1, <3>2 DEF GoOn
  <2> QED BY <2>1, <2>3, <2>4
<1>2. CASE \E t \in Threads : Cancels(t)
  <2>1. PICK t \in Threads : Cancels(t)
    BY <1>2
  <2>2. copy[t] \in RunIds
    BY <2>1 DEF Cancels, CancelSaves, CancelSettles, IInv, CancelOK, Cancelling
  <2> QED BY <1>1, <2>1, <2>2
<1>3. CASE Restart
  <2>2. "interrupted" \in RunStatuses /\ "active" \notin Ended
    BY DEF RunStatuses, Ended, Recoverable
  <2>3. \A r \in RunIds :
          LET x == [run[r] EXCEPT !.status = "interrupted"]
          IN  /\ x \in RunRecords /\ x.status = "interrupted"
              /\ x.origin = run[r].origin /\ x.grant = run[r].grant
    BY <1>0, <2>2 DEF RunRecords
  <2>4. /\ run' = [r \in RunIds |-> IF run[r].status = "active"
                      THEN [run[r] EXCEPT !.status = "interrupted"] ELSE run[r]]
        /\ undone' = undone
    BY <1>3 DEF Restart, Interrupted, runtime
  <2> QED BY <1>0, <2>2, <2>3, <2>4 DEF GoOn
<1> QED BY <1>1, <1>2, <1>3

\* What is said of Runs that go on, or of who they belong to, is still so.
LEMMA RunStep ==
    ASSUME IInv, TypeOK', WorkOK', CancelOK', GoOn(run, run', undone, undone'),
           \A u \in Threads : at'[u] # at[u] => at'[u] \in Cancelling /\ at[u] \in Cancelling,
           UNCHANGED <<task, contract, approved, grant, lock, doc, using, serving, overwritten>>
    PROVE  IInv'
<1> USE DEF IInv
<1>1. \A u \in Threads : at'[u] \in Exclusive \cup Viewing \cup {"idle", "return"} => at'[u] = at[u]
  BY DEF Exclusive, Viewing, Cancelling
<1>2. \A d \in Tasks : /\ d.current # NoRun => d.current \in RunIds
                       /\ d.pending # NoIntent => /\ d.pending.run \in RunIds
                                                  /\ d.pending.parent # NoRun =>
                                                        d.pending.parent \in RunIds
  BY DEF Tasks, Intents
<1>3. task \in Tasks /\ \A u \in Threads : doc[u] \in Tasks
  BY DEF TypeOK
<1>5. DocsOK'
  BY TruthIsStable DEF DocsOK, Good
<1>6. MutexOK'
  BY <1>1 DEF MutexOK, Exclusive, Viewing, Cancelling
<1>7. IntentOK'
  BY <1>1, <1>2, <1>3 DEF IntentOK, Absent, GoOn, Exclusive, Viewing
<1>8. PendingOK'
  <2>1. ASSUME serving, task.pending # NoIntent, Absent(task.pending.run)'
        PROVE  lock \in Threads /\ at'[lock] = "submit" /\ doc[lock].pending = task.pending
    <3>1. lock \in Threads /\ at[lock] = "submit" /\ doc[lock].pending = task.pending
      BY <1>2, <1>3, <2>1 DEF PendingOK, Absent, GoOn
    <3> QED BY <3>1 DEF Cancelling
  <2> QED BY <2>1 DEF PendingOK
<1>9. ConsentOK'
  BY <1>1, <1>2, <1>3 DEF ConsentOK, IntentOK, Consent, Exists, GoOn, Exclusive
<1>10. GrantOK'
  BY <1>1 DEF GrantOK, GrantStartsOne, Absent, GoOn, Exclusive
<1>11. OutcomeOK'
  <2>1. \A g \in Grants : grant[g].outcome \in RunIds \cup {NoRun}
    BY DEF TypeOK, GrantRecords
  <2>2. \A d \in Tasks, g \in Grants : RunOf(d, g, run) => RunOf(d, g, run')
    BY <1>2 DEF RunOf, GoOn
  <2>3. \A u \in Threads : using[u] # NoGrant => using[u] \in Grants
    BY DEF TypeOK
  <2>4. \A u \in Threads : at'[u] = "finalize" => run'[doc[u].pending.run].grant = using[u]
    BY <1>1, <1>2, <1>3 DEF OutcomeOK, IntentOK, GoOn, Exclusive
  <2>5. ~overwritten => \A g \in Grants : grant[g].status = "consumed" =>
          grant[g].outcome # NoRun /\ run'[grant[g].outcome].grant = g
    BY <2>1 DEF OutcomeOK, GoOn
  <2> QED BY <1>1, <1>3, <2>2, <2>3, <2>4, <2>5 DEF OutcomeOK
<1>12. AccountOK'
  BY <1>1 DEF AccountOK, RunsAccountedFor, Exists, GoOn, Exclusive
<1> QED BY <1>5, <1>6, <1>7, <1>8, <1>9, <1>10, <1>11, <1>12

\* A worker's or a canceller's save is such a step.
LEMMA SaveStep ==
    ASSUME IInv, (\E r \in RunIds : Works(r)) \/ (\E t \in Threads : Cancels(t))
    PROVE  IInv'
<1>1. run' \in [RunIds -> RunRecords] /\ GoOn(run, run', undone, undone')
  BY RunsGoOn
<1>2. /\ \A u \in Threads : at'[u] # at[u] => at'[u] \in Cancelling /\ at[u] \in Cancelling
      /\ at' \in [Threads -> Places]
      /\ UNCHANGED <<task, contract, approved, grant, lock, doc, using, serving, restarts,
                     copy, overwritten>>
  <2>1. CASE \E r \in RunIds : Works(r)
    BY <2>1 DEF Works, WorkerSaves, RunEnds, threads, process, IInv, TypeOK
  <2>2. CASE \E t \in Threads : Cancels(t)
    BY <2>2 DEF Cancels, CancelSaves, CancelSettles, Goto, Cancelling, IInv, TypeOK, Places
  <2> QED BY <2>1, <2>2
<1>3. \E r \in RunIds :
         /\ worker' = [worker EXCEPT ![r] = worker'[r]] /\ worker'[r] \in WorkerStates
         /\ undone' = [undone EXCEPT ![r] = undone'[r]] /\ undone'[r] \subseteq Ended
         /\ run[r].status # "absent"
         /\ worker'[r] = "active" => run'[r].status = "active"
         /\ worker'[r] \in Ended => run'[r].status \in {"active", worker'[r]}
         /\ \A q \in RunIds \ {r} : run'[q] = run[q]
         /\ serving
  <2>1. ASSUME NEW r \in RunIds, Works(r) \/ \E t \in Threads : copy[t] = r /\ Cancels(t)
        PROVE  /\ worker' = [worker EXCEPT ![r] = worker'[r]] /\ worker'[r] \in WorkerStates
               /\ undone' = [undone EXCEPT ![r] = undone'[r]] /\ undone'[r] \subseteq Ended
               /\ run[r].status # "absent"
               /\ worker'[r] = "active" => run'[r].status = "active"
               /\ worker'[r] \in Ended => run'[r].status \in {"active", worker'[r]}
               /\ \A q \in RunIds \ {r} : run'[q] = run[q]
    BY <2>1, SaveFacts DEF IInv, TypeOK
  <2>2. serving
    <3>1. CASE \E r \in RunIds : Works(r)
      BY <3>1 DEF Works, WorkerSaves, RunEnds, IInv, WorkOK, Ended, Recoverable
    <3>2. CASE \E t \in Threads : Cancels(t)
      BY <3>2 DEF Cancels, CancelSaves, CancelSettles, IInv, MutexOK
    <3> QED BY <3>1, <3>2
  <2>3. CASE \E r \in RunIds : Works(r)
    BY <2>1, <2>2, <2>3
  <2>4. CASE \E t \in Threads : Cancels(t)
    <3>1. PICK t \in Threads : Cancels(t)
      BY <2>4
    <3>2. copy[t] \in RunIds
      BY <3>1 DEF Cancels, CancelSaves, CancelSettles, IInv, CancelOK, Cancelling
    <3> QED BY <2>1, <2>2, <3>1, <3>2
  <2> QED BY <2>3, <2>4
<1>4. TypeOK'
  BY <1>1, <1>2, <1>3 DEF IInv, TypeOK
<1>5. WorkOK'
  <2>1. PICK r \in RunIds :
         /\ worker' = [worker EXCEPT ![r] = worker'[r]]
         /\ run[r].status # "absent"
         /\ worker'[r] = "active" => run'[r].status = "active"
         /\ worker'[r] \in Ended => run'[r].status \in {"active", worker'[r]}
         /\ \A q \in RunIds \ {r} : run'[q] = run[q]
         /\ serving
    BY <1>3
  <2>2. \A q \in RunIds \ {r} : worker'[q] = worker[q]
    BY <2>1 DEF IInv, TypeOK
  <2>3. run'[r].status # "absent"
    BY <1>1, <2>1 DEF GoOn
  <2> QED BY <1>2, <2>1, <2>2, <2>3 DEF IInv, WorkOK, Absent
<1>6. CancelOK'
  <2>1. \A r \in RunIds : ~Absent(r) => ~Absent(r)'
    BY <1>1 DEF Absent, GoOn
  <2>2. \A u \in Threads : doc[u].pending # NoIntent => doc[u].pending.run \in RunIds
    BY DEF IInv, TypeOK, Tasks, Intents
  <2>3. \A u \in Threads : at'[u] \in Cancelling => at[u] \in Cancelling
    BY <1>2
  <2> QED BY <1>2, <2>1, <2>2, <2>3 DEF IInv, CancelOK
<1> QED BY <1>1, <1>2, <1>4, <1>5, <1>6, RunStep

\* cancel_run takes the lock and a copy of the document.
LEMMA CancelRunStep ==
    ASSUME IInv, NEW t \in Threads, NEW r \in RunIds, CancelRun(t, r)
    PROVE  IInv'
<1> USE DEF IInv
<1>1. /\ doc' = [doc EXCEPT ![t] = task] /\ lock' = t /\ at' = [at EXCEPT ![t] = "cancel"]
      /\ copy' = [copy EXCEPT ![t] = r] /\ run[r].status = "active" /\ AtRest
      /\ UNCHANGED <<task, contract, approved, run, grant, using, serving, restarts, worker,
                     undone, overwritten>>
  BY DEF CancelRun, Goto, Idle, AtRest, files
<1>3. \A u \in Threads : at[u] \notin Exclusive /\ using[u] = NoGrant
  BY <1>1, RestFacts
<1>4. \A u \in Threads \ {t} : at'[u] = at[u] /\ doc'[u] = doc[u] /\ copy'[u] = copy[u]
  BY <1>1 DEF TypeOK
<1>5. at'[t] = "cancel" /\ doc'[t] = task /\ copy'[t] = r
  BY <1>1 DEF TypeOK
<1>6. task.pending # NoIntent => ~Absent(task.pending.run)
  BY <1>1, TaskLedgerAssumption DEF PendingOK, AtRest
<1>7. \A u \in Threads : at'[u] \notin Exclusive
  BY <1>3, <1>4, <1>5 DEF Exclusive
<1>8. TypeOK'
  BY <1>1 DEF TypeOK, Places
<1>9. DocsOK'
  BY <1>1, <1>4, <1>5 DEF DocsOK
<1>10. MutexOK'
  BY <1>1, <1>3, <1>4, <1>5, <1>7 DEF MutexOK, AtRest
<1>11. IntentOK'
  BY <1>1, <1>4, <1>5 DEF IntentOK, Viewing, Absent
<1>12. PendingOK'
  BY <1>1, <1>6 DEF PendingOK, Absent
<1>13. ConsentOK'
  BY <1>1, <1>7 DEF ConsentOK, Consent, Exists, Exclusive
<1>14. GrantOK'
  BY <1>1, <1>3 DEF GrantOK, GrantStartsOne, Absent
<1>15. OutcomeOK'
  BY <1>1, <1>3, <1>7 DEF OutcomeOK, Exclusive
<1>16. AccountOK'
  BY <1>1, <1>7 DEF AccountOK, RunsAccountedFor, Exists, Exclusive
<1>17. WorkOK' /\ CancelOK'
  <2>1. WorkOK'
    BY <1>1 DEF WorkOK, Absent
  <2>2. \A u \in Threads \ {t} : lock' # u
    BY <1>1
  <2>3. CancelOK'
    BY <1>1, <1>3, <1>4, <1>5, <1>6, <2>2 DEF CancelOK, Absent
  <2> QED BY <2>1, <2>3
<1> QED BY <1>8, <1>9, <1>10, <1>11, <1>12, <1>13, <1>14, <1>15, <1>16, <1>17

\* close() goes from one Run to the next without it.
LEMMA CloseStep ==
    ASSUME IInv, NEW t \in Threads,
           CloseGoesOn(t) \/ \E r \in RunIds : CloseAsks(t, r)
    PROVE  IInv'
<1> USE DEF IInv
<1>1. /\ at' = [at EXCEPT ![t] = at'[t]] /\ at'[t] \in {"cancel", "closed"}
      /\ copy' = [copy EXCEPT ![t] = copy'[t]] /\ copy'[t] \in RunIds \cup {NoRun}
      /\ at[t] \in {"idle", "closed"} \cup Cancelling
      /\ (at'[t] = "cancel" => /\ copy'[t] \in RunIds /\ ~Absent(copy'[t])
                               /\ at[t] \in {"idle", "closed"} /\ lock # t)
      /\ (at'[t] = "closed" => at[t] \in Cancelling)
      /\ serving
      /\ UNCHANGED <<task, contract, approved, run, grant, lock, doc, using, serving,
                     restarts, worker, undone, overwritten>>
  BY DEF CloseGoesOn, CloseAsks, Cancelled, Goto, TypeOK, Absent, files, Cancelling, MutexOK
<1>2. \A u \in Threads \ {t} : at'[u] = at[u] /\ copy'[u] = copy[u]
  BY <1>1 DEF TypeOK
<1>4. TypeOK'
  BY <1>1 DEF TypeOK, Places
<1>5. DocsOK'
  BY <1>1 DEF DocsOK
<1>6. MutexOK'
  BY <1>1, <1>2 DEF MutexOK, Exclusive
<1>7. IntentOK'
  BY <1>1, <1>2 DEF IntentOK, Viewing, Absent
<1>8. PendingOK'
  BY <1>1, <1>2 DEF PendingOK, Absent, Cancelling
<1>9. ConsentOK'
  BY <1>1, <1>2 DEF ConsentOK, Consent, Exists
<1>10. GrantOK'
  BY <1>1, <1>2 DEF GrantOK, GrantStartsOne, Absent
<1>11. OutcomeOK'
  BY <1>1, <1>2 DEF OutcomeOK, Viewing
<1>12. AccountOK'
  BY <1>1, <1>2 DEF AccountOK, RunsAccountedFor, Exists
<1>13. WorkOK' /\ CancelOK'
  <2>1. at'[t] = "cancel" => lock # t /\ using[t] = NoGrant
    BY <1>1 DEF MutexOK
  <2> QED BY <1>1, <1>2, <2>1 DEF WorkOK, CancelOK, Absent, Cancelling
<1> QED BY <1>4, <1>5, <1>6, <1>7, <1>8, <1>9, <1>10, <1>11, <1>12, <1>13

\* cancel_run writes its copy back and lets go of the lock.
LEMMA CancelReturnsStep ==
    ASSUME IInv, NEW t \in Threads, CancelReturns(t)
    PROVE  IInv'
<1> USE DEF IInv
<1>1. /\ at[t] \in Cancelling /\ lock = t /\ task' = doc[t] /\ lock' = Nobody
      /\ at' = [at EXCEPT ![t] = "return"] /\ copy' = [copy EXCEPT ![t] = NoRun]
      /\ UNCHANGED <<contract, approved, run, grant, doc, using, serving, restarts, worker,
                     undone, overwritten>>
  BY DEF CancelReturns, Cancelled, Goto, Cancelling
<1>2. /\ using[t] = NoGrant /\ (doc[t].pending # NoIntent => ~Absent(doc[t].pending.run))
      /\ (~overwritten => task.pending = doc[t].pending /\ task.runs = doc[t].runs)
  BY <1>1 DEF CancelOK
<1>3. \A u \in Threads : at[u] \notin Exclusive /\ using[u] = NoGrant
  BY <1>1, <1>2 DEF MutexOK, Exclusive, Cancelling
<1>4. /\ \A u \in Threads \ {t} : at'[u] = at[u] /\ copy'[u] = copy[u]
      /\ at'[t] = "return"
  BY <1>1 DEF TypeOK
<1>5. \A u \in Threads : at'[u] \notin Exclusive
  BY <1>3, <1>4 DEF Exclusive
<1>6. doc[t] \in Tasks /\ Good(doc[t], run, undone, approved)
  BY DEF TypeOK, DocsOK
<1>8. TypeOK'
  BY <1>1, <1>6 DEF TypeOK, Places
<1>9. DocsOK'
  BY <1>1, <1>6 DEF DocsOK
<1>10. MutexOK'
  BY <1>1, <1>3, <1>4, <1>5 DEF MutexOK, Cancelling
<1>11. IntentOK'
  BY <1>1, <1>4 DEF IntentOK, Viewing, Absent
<1>12. PendingOK'
  BY <1>1, <1>2 DEF PendingOK, Absent
<1>13. ConsentOK'
  BY <1>1, <1>5 DEF ConsentOK, Consent, Exists, Exclusive
<1>14. GrantOK'
  BY <1>1, <1>3 DEF GrantOK, GrantStartsOne, Absent
<1>15. OutcomeOK'
  BY <1>1, <1>3, <1>5 DEF OutcomeOK, Exclusive
<1>16. AccountOK'
  BY <1>1, <1>2, <1>5 DEF AccountOK, RunsAccountedFor, Exists, Exclusive
<1>17. WorkOK' /\ CancelOK'
  <2>1. WorkOK'
    BY <1>1 DEF WorkOK, Absent
  <2>2. \A u \in Threads : lock' # u
    BY <1>1, TaskLedgerAssumption
  <2>3. CancelOK'
    BY <1>1, <1>4, <2>2 DEF CancelOK, Absent, Cancelling
  <2> QED BY <2>1, <2>3
<1> QED BY <1>8, <1>9, <1>10, <1>11, <1>12, <1>13, <1>14, <1>15, <1>16, <1>17

\* A process that dies leaves no thread, copy or lock.
LEMMA CrashStep ==
    ASSUME IInv, Crash
    PROVE  IInv'
<1> USE DEF IInv
<1>1. /\ serving' = FALSE /\ restarts < MaxRestarts /\ restarts' = restarts + 1
      /\ lock' = Nobody /\ at' = [u \in Threads |-> "idle"]
      /\ doc' = [u \in Threads |-> NewTask] /\ using' = [u \in Threads |-> NoGrant]
      /\ worker' = [r \in RunIds |-> "none"] /\ copy' = [u \in Threads |-> NoRun]
      /\ UNCHANGED <<task, contract, approved, run, grant, undone, overwritten>>
  BY DEF Crash, files
<1>2. \A u \in Threads : at'[u] = "idle" /\ using'[u] = NoGrant /\ doc'[u] = NewTask
  BY <1>1
<1>3. NewTask \in Tasks /\ Good(NewTask, run, undone, approved)
  BY NewTaskFacts DEF Good
<1>4. TypeOK'
  <2>1. restarts' \in 0 .. MaxRestarts
    BY <1>1, TaskLedgerAssumption DEF TypeOK
  <2> QED BY <1>1, <1>3, <2>1 DEF TypeOK, Places, WorkerStates
<1>5. DocsOK'
  BY <1>1, <1>2, <1>3 DEF DocsOK
<1>6. MutexOK'
  BY <1>2 DEF MutexOK, Exclusive
<1>7. IntentOK'
  BY <1>2 DEF IntentOK, Viewing
<1>8. PendingOK'
  BY <1>1 DEF PendingOK
<1>9. ConsentOK'
  BY <1>1, <1>2 DEF ConsentOK, Consent, Exists
<1>10. GrantOK'
  BY <1>1, <1>2 DEF GrantOK, GrantStartsOne, Absent
<1>11. OutcomeOK'
  BY <1>1, <1>2 DEF OutcomeOK
<1>12. AccountOK'
  BY <1>1, <1>2 DEF AccountOK, RunsAccountedFor, Exists
<1>13. WorkOK' /\ CancelOK'
  BY <1>1, <1>2 DEF WorkOK, CancelOK, Cancelling, Ended, Recoverable
<1> QED BY <1>4, <1>5, <1>6, <1>7, <1>8, <1>9, <1>10, <1>11, <1>12, <1>13

\* A new process interrupts the Runs, then reconciles the task.
LEMMA RestartStep ==
    ASSUME IInv, Restart
    PROVE  IInv'
<1> DEFINE d == Reconciled(task, run')
<1> USE DEF IInv, threads
<1>1. /\ task' = d /\ serving' = TRUE /\ ~serving
      /\ UNCHANGED <<contract, approved, grant, threads, restarts, worker, copy, undone, overwritten>>
  BY DEF Restart, runtime
<1>2. run' \in [RunIds -> RunRecords] /\ GoOn(run, run', undone, undone)
  BY <1>1, RunsGoOn
<1>3. task \in Tasks /\ Good(task, run', undone, approved)
  BY <1>2, TruthIsStable DEF TypeOK, DocsOK, Good
<1>4. /\ d \in Tasks /\ d.pending = NoIntent /\ task.runs \subseteq d.runs
      /\ (task.pending # NoIntent /\ run'[task.pending.run].status # "absent" =>
             task.pending.run \in d.runs)
  BY <1>2, <1>3, ReconciledFacts
<1>5. Good(d, run', undone, approved)
  BY <1>2, <1>3, ReconciledIsGood
<1> HIDE DEF d
<1>6. \A u \in Threads : at[u] = "idle" /\ using[u] = NoGrant
  BY <1>1 DEF MutexOK
<1>7. TypeOK'
  BY <1>1, <1>2, <1>4 DEF TypeOK
<1>8. DocsOK'
  BY <1>1, <1>2, <1>5, TruthIsStable DEF DocsOK, Good
<1>9. MutexOK'
  BY <1>1, <1>6 DEF MutexOK, Exclusive
<1>10. IntentOK'
  BY <1>1, <1>6 DEF IntentOK, Viewing
<1>11. PendingOK'
  BY <1>1, <1>4 DEF PendingOK
<1>12. ConsentOK'
  BY <1>1, <1>2, <1>6 DEF ConsentOK, Consent, Exists, GoOn
<1>13. GrantOK'
  BY <1>1, <1>2, <1>6 DEF GrantOK, GrantStartsOne, Absent, GoOn
<1>14. OutcomeOK'
  <2>1. \A g \in Grants : grant[g].outcome \in RunIds \cup {NoRun}
    BY DEF TypeOK, GrantRecords
  <2> QED BY <1>1, <1>2, <1>6, <2>1 DEF OutcomeOK, GoOn
<1>15. AccountOK'
  <2>1. ~overwritten => \A r \in RunIds : Exists(r)' => r \in d.runs
    <3>1. SUFFICES ASSUME ~overwritten, NEW r \in RunIds, Exists(r)' PROVE r \in d.runs
      OBVIOUS
    <3>2. Exists(r)
      BY <1>2, <3>1 DEF Exists, GoOn
    <3>3. r \in task.runs \/ task.pending.run = r
      BY <3>1, <3>2 DEF AccountOK, RunsAccountedFor
    <3>4. task.pending.run = r => task.pending # NoIntent
      BY TaskLedgerAssumption DEF NoIntent
    <3> QED BY <1>4, <3>1, <3>3, <3>4 DEF Exists
  <2> QED BY <1>1, <1>6, <2>1 DEF AccountOK, RunsAccountedFor
<1>16. WorkOK' /\ CancelOK'
  BY <1>1, <1>6 DEF WorkOK, CancelOK, Cancelling, Ended, Recoverable
<1> QED BY <1>7, <1>8, <1>9, <1>10, <1>11, <1>12, <1>13, <1>14, <1>15, <1>16

-----------------------------------------------------------------------------
(* The theorems.                                                             *)

\* A new task satisfies the invariant.
LEMMA InitStep == Init => IInv
<1> SUFFICES ASSUME Init PROVE IInv
  OBVIOUS
<1>1. NewTask \in Tasks /\ Good(NewTask, run, undone, approved) /\ NewTask.pending = NoIntent
  BY NewTaskFacts DEF Good
<1>2. /\ task = NewTask /\ contract = 1 /\ approved = {} /\ lock = Nobody
      /\ run = [r \in RunIds |-> Unborn]
      /\ grant = [g \in Grants |-> [status |-> "none", scope |-> NoScope, outcome |-> NoRun]]
      /\ serving = TRUE /\ restarts = 0 /\ overwritten = FALSE
      /\ at = [t \in Threads |-> "idle"] /\ doc = [t \in Threads |-> NewTask]
      /\ using = [t \in Threads |-> NoGrant] /\ copy = [t \in Threads |-> NoRun]
      /\ worker = [r \in RunIds |-> "none"] /\ undone = [r \in RunIds |-> {}]
  BY DEF Init
<1>3. Unborn \in RunRecords /\ Unborn.status = "absent" /\ Unborn.grant = NoGrant
  BY TaskLedgerAssumption DEF Unborn, RunRecords, RunStatuses
<1>4. NoScope \in Scopes
  BY TaskLedgerAssumption DEF NoScope, Scopes, TaskStatuses
<1>5. [status |-> "none", scope |-> NoScope, outcome |-> NoRun] \in GrantRecords
  BY <1>4 DEF GrantRecords, GrantStatuses
<1>6. TypeOK
  <2>1. contract \in 1 .. MaxContracts /\ restarts \in 0 .. MaxRestarts
    BY <1>2, TaskLedgerAssumption
  <2>2. grant \in [Grants -> GrantRecords]
    BY <1>2, <1>5
  <2> QED BY <1>1, <1>2, <1>3, <2>1, <2>2 DEF TypeOK, Places, WorkerStates
<1>7. DocsOK
  BY <1>1, <1>2 DEF DocsOK
<1>8. MutexOK
  BY <1>2 DEF MutexOK, Exclusive
<1>9. IntentOK /\ PendingOK
  BY <1>1, <1>2 DEF IntentOK, PendingOK, Viewing
<1>10. ConsentOK
  BY <1>2, <1>3 DEF ConsentOK, Consent, Exists
<1>11. GrantOK
  BY <1>2, <1>3 DEF GrantOK, GrantStartsOne
<1>12. OutcomeOK
  BY <1>2 DEF OutcomeOK
<1>13. AccountOK
  BY <1>2, <1>3 DEF AccountOK, RunsAccountedFor, Exists
<1>14. WorkOK /\ CancelOK
  BY <1>2 DEF WorkOK, CancelOK, Cancelling, Ended, Recoverable
<1> QED BY <1>6, <1>7, <1>8, <1>9, <1>10, <1>11, <1>12, <1>13, <1>14 DEF IInv

\* Whatever a thread does, the invariant is kept.
LEMMA ThreadStep ==
    ASSUME IInv, NEW t \in Threads,
           Read(t) \/ Cancel(t) \/ ArchiveTask(t) \/ Configure(t) \/ Launch(t)
              \/ \E g \in Grants : Authorize(t, g)
    PROVE  IInv'
<1>1. CASE Read(t)
  BY <1>1, GetTaskStep, ViewStep, WriteViewStep DEF Read
<1>2. CASE ArchiveTask(t) \/ Configure(t)
  BY <1>2, DocumentSteps, UpdateContractStep, RecordRevisionStep DEF Configure
<1>3. CASE \E g \in Grants : Authorize(t, g)
  BY <1>3, GrantSteps, ReserveStep DEF Authorize
<1>4. CASE Launch(t)
  <2>1. CASE \E r \in RunIds : StartRun(t, r)
    <3>1. PICK r \in RunIds : StartRun(t, r)
      BY <2>1
    <3>2. "start" \in Operations
      BY DEF Operations
    <3> QED BY <3>1, <3>2, BeginStep DEF StartRun
  <2>2. CASE \E r, parent \in RunIds, op \in Operations : StartChild(t, r, parent, op)
    BY <2>2, BeginStep DEF StartChild
  <2>3. CASE \/ StartRefused(t) \/ Submit(t) \/ SubmitUnscheduled(t) \/ SubmitRefused(t)
             \/ Finalize(t) \/ IntentLost(t) \/ Fail(t) \/ Complete(t)
    BY <2>3, StartRefusedStep, SubmitStep, SubmitRefusedStep, FinalizeStep,
       IntentLostStep, LeaveStep
  <2> QED BY <1>4, <2>1, <2>2, <2>3 DEF Launch
<1>5. CASE Cancel(t)
  BY <1>5, CancelRunStep, SaveStep, CancelReturnsStep, CloseStep DEF Cancel, Cancels
<1> QED BY <1>1, <1>2, <1>3, <1>4, <1>5

\* So it is by every step.
LEMMA NextStep ==
    ASSUME IInv, [Next]_vars
    PROVE  IInv'
<1>1. CASE UNCHANGED vars
  BY <1>1 DEF vars, IInv, TypeOK, DocsOK, MutexOK, IntentOK, PendingOK, ConsentOK, GrantOK,
       OutcomeOK, AccountOK, WorkOK, CancelOK, Consent, Exists, GrantStartsOne, Absent,
       RunsAccountedFor
<1>2. CASE \E t \in Threads :
              Read(t) \/ Cancel(t) \/ ArchiveTask(t) \/ Configure(t) \/ Launch(t)
                 \/ \E g \in Grants : Authorize(t, g)
  BY <1>2, ThreadStep
<1>3. CASE \/ \E r \in RunIds : Works(r)
           \/ \E t \in Threads, r \in RunIds : CloseAsks(t, r)
           \/ Crash \/ Restart
  BY <1>3, SaveStep, CloseStep, CrashStep, RestartStep
<1>4. Cancellers \subseteq Threads /\ Callers \subseteq Threads /\ Viewers \subseteq Threads
  BY TaskLedgerAssumption DEF Threads
<1> QED BY <1>1, <1>2, <1>3, <1>4 DEF Next, Works

\* The invariant, for any Runs, approvals, threads, contracts and deaths.
THEOREM Invariance == Spec => []IInv
  BY InitStep, NextStep, PTL DEF Spec

\* The documents have their types.
THEOREM TypeCorrect == Spec => []TypeOK
<1>1. IInv => TypeOK
  BY DEF IInv
<1> QED BY <1>1, Invariance, PTL

\* No Run trains from a contract version no user confirmed.
THEOREM ConsentGiven == Spec => []Consent
<1>1. IInv => Consent
  BY DEF IInv, ConsentOK
<1> QED BY <1>1, Invariance, PTL

\* One approval starts one Run at most.
THEOREM ApprovalStartsOne == Spec => []GrantStartsOne
<1>1. IInv => GrantStartsOne
  BY DEF IInv, GrantOK
<1> QED BY <1>1, Invariance, PTL

\* The Run an authorization started is the one that was approved, and the one
\* it names.
THEOREM ApprovalIsExact == Spec => []GrantIsExact
<1>1. IInv => GrantIsExact
  BY DEF IInv, GrantOK, OutcomeOK, GrantIsExact, Used
<1> QED BY <1>1, Invariance, PTL

\* Every Run belongs to the task or to its intent, wherever a process died.
THEOREM NoRunIsLost == Spec => []RunsAccountedFor
<1>1. IInv => RunsAccountedFor
  BY DEF IInv, AccountOK, RunsAccountedFor
<1> QED BY <1>1, Invariance, PTL

\* A task shows an outcome of its Run, the one it has unless a canceller undid
\* it, or none.
THEOREM OutcomeIsTrue == Spec => []OutcomeIsTheRuns
<1>1. IInv => OutcomeIsTheRuns
  BY DEF IInv, DocsOK, Good, Truthful, Ran, OutcomeIsTheRuns
<1> QED BY <1>1, Invariance, PTL

\* A Run comes into being only by submit, whose thread has announced it.
LEMMA WhoCreates ==
    ASSUME IInv, [Next]_vars, NEW r \in RunIds, ~Exists(r), run'[r].status # "absent"
    PROVE  /\ run'[r].origin = contract /\ contract \in approved
           /\ overwritten \/ ~task.archived
<1>1. ~(run' = run)
  BY DEF Exists
<1>2. ~(GoOn(run, run', undone, undone'))
  BY DEF Exists, GoOn
<1>3. PICK t \in Threads : Submit(t) \/ SubmitUnscheduled(t)
  <2>1. ~(\/ \E q \in RunIds : WorkerSaves(q) \/ \E verdict \in Ended : RunEnds(q, verdict)
          \/ Restart)
    BY <1>2, RunsGoOn DEF Works
  <2>2. ~UNCHANGED vars /\ ~Crash
    BY <1>1 DEF vars, Crash, files
  <2>8. \A t \in Threads : ~Cancel(t) /\ \A q \in RunIds : ~CloseAsks(t, q)
    <3>1. \A t \in Threads : ~CancelSaves(t) /\ ~CancelSettles(t)
      BY <1>2, RunsGoOn DEF Cancels
    <3> QED BY <1>1, <3>1 DEF Cancel, CancelRun, CancelReturns, CloseGoesOn, CloseAsks, files
  <2>3. \A t \in Threads : ~Read(t) /\ ~ArchiveTask(t) /\ ~Configure(t)
    BY <1>1 DEF Read, GetTask, View, ViewEnded, WriteView, WriteViewLost, ArchiveTask, files,
           Configure, UpdateContract, RecordRevision, ConfirmContract, RevokeConfirmation
  <2>4. \A t \in Threads, g \in Grants : ~Authorize(t, g)
    BY <1>1 DEF Authorize, IssueGrant, Reserve, RefuseGrant
  <2>5. PICK t \in Callers : Launch(t)
    <3>1. Cancellers \subseteq Threads /\ Callers \subseteq Threads /\ Viewers \subseteq Threads
      BY TaskLedgerAssumption DEF Threads
    <3> QED BY <2>1, <2>2, <2>3, <2>4, <2>8, <3>1 DEF Next
  <2>6. /\ \A q \in RunIds : ~StartRun(t, q)
        /\ \A q, parent \in RunIds, op \in Operations : ~StartChild(t, q, parent, op)
    BY <1>1 DEF StartRun, StartChild, BeginIntent
  <2>7. /\ ~StartRefused(t) /\ ~SubmitRefused(t) /\ ~Finalize(t) /\ ~IntentLost(t)
        /\ ~Fail(t) /\ ~Complete(t)
    BY <1>1 DEF StartRefused, SubmitRefused, Finalize, IntentLost, files, Fail, Complete, Leave
  <2> QED BY <2>5, <2>6, <2>7 DEF Launch, Threads
<1> DEFINE q == doc[t].pending.run
<1>4. /\ at[t] = "submit" /\ ParentAllows(Intent(t))
      /\ run' = Created(t, "active") \/ run' = Created(t, "interrupted")
  BY <1>3 DEF Submit, SubmitUnscheduled
<1>5. run' = [run EXCEPT ![q] = run'[q]] /\ run'[q].origin = contract /\ q \in RunIds
  BY <1>4, CreatedFacts DEF RunStatuses, Ended, Recoverable
<1> HIDE DEF q
<1>6. r = q
  <2>1. r # q => run'[r] = run[r]
    BY <1>5 DEF IInv, TypeOK
  <2> QED BY <2>1 DEF Exists
<1>7. contract \in approved /\ (~overwritten => ~task.archived)
  BY <1>4 DEF IInv, ConsentOK, AccountOK
<1> QED BY <1>5, <1>6, <1>7

\* A Run is created for the contract in force, whatever its parent was.
THEOREM LineStaysCurrent == Spec => LineIsCurrent
<1>1. IInv /\ [Next]_vars =>
        [\A r \in RunIds : ~Exists(r) /\ run'[r].status # "absent" =>
          run'[r].origin = contract /\ contract \in approved]_vars
  BY WhoCreates
<1> QED BY <1>1, Invariance, PTL DEF Spec, LineIsCurrent

\* An archived task starts nothing.
THEOREM ArchiveHolds == Spec => ArchivedStartsNothing
<1>1. IInv /\ [Next]_vars =>
        [\A r \in RunIds : ~Exists(r) /\ run'[r].status # "absent" =>
          ~task.archived \/ overwritten]_vars
  BY WhoCreates
<1> QED BY <1>1, Invariance, PTL DEF Spec, ArchivedStartsNothing
=============================================================================
