----------------------------- MODULE AgentTurns -----------------------------
(* The agent runs of one task (multi_agent.py).  The host keeps a durable    *)
(* list of runs, one per request id, and hands each message to the root      *)
(* session of an external agent runtime, which queues and runs the turns.    *)
(* Submitting, cancelling, answering, archiving and refreshing hold one lock *)
(* in the host, so `op` is the one handler at work; the runtime moves on     *)
(* between any two of its calls, and the process may die there.  A refresh   *)
(* that cannot read the runtime changes nothing and is left out.             *)
EXTENDS Naturals, Sequences, FiniteSets, SequencesExt

CONSTANTS
    MaxRequests, \* bound: request ids; each names one message, hence one run
    Questions,   \* what the agent may ask, word for word
    MaxMoves,    \* bound: runs, checkpoints, ends of turns, cancellations, crashes
    MaxEvents    \* bound: length of the history

ASSUME AgentTurnsAssumption ==
    /\ MaxRequests \in Nat /\ MaxMoves \in Nat /\ MaxEvents \in Nat
    /\ Questions \cap {"finished", "answered", "error", "cancelled", "result", "approval"} = {}

VARIABLES
    history,    \* runtime: the checkpoints, results of questions and approvals
                \* and ends of turns, in source order
    queue,      \* runtime: messages waiting for their turn
    turn,       \* runtime: the run whose turn is open
    aborting,   \* runtime: the open turn is to be cancelled
    asking,     \* runtime: the checkpoint whose tool is at work (its event), or 0
    replied,    \* runtime: that checkpoint has its answer
    runs,       \* team.json: the runs, oldest first
    status,     \* team.json: their statuses
    floor,      \* team.json: length of the history when a run was queued
    fence,      \* team.json: cancellation_targets.agent_run_ids
    seen,       \* the audit ledger: how much of the history is persisted
    audit,      \* the audit ledger: what became of each checkpoint
    cards,      \* the event hub's durable pending checkpoints
    archived,   \* task.json: archived_at_utc is set
    op,         \* the handler that holds the lock
    delivered,  \* history: how often each request was prompted
    dropped,    \* history: prompts the runtime dropped for a cancellation
    stopped,    \* history: the latest run when a cancellation was accepted
    spent       \* how many cancellations and crashes there were

runtimeVars == <<history, queue, turn, aborting, asking, replied>>
teamVars == <<runs, status, floor, fence>>
ledgerVars == <<seen, audit, cards, archived>>
ghostVars == <<delivered, dropped, stopped, spent>>
vars == <<runtimeVars, teamVars, ledgerVars, op, ghostVars>>

-----------------------------------------------------------------------------
\* Request ids are numbered as they come up.
Requests == 1..MaxRequests
NoRun == 0
Terminals == {"finished", "answered", "error", "cancelled"}
Checkpoints == Questions \cup {"approval"}
Events == [kind : Terminals \cup Checkpoints \cup {"result"}, run : Requests]
Active == {"queued", "running", "waiting_for_human"}
Statuses == Active \cup {"none", "cancel_requested", "cancelled", "failed",
                         "observation_degraded", "completed", "idle_without_final"}

Latest == IF runs = <<>> THEN NoRun ELSE Last(runs)
Submitted == ToSet(runs)

Unsettled == Active \cup {"idle_without_final"}

\* What the ledger says of a checkpoint: for one its turn has outlived, the
\* run and the end of its turn.
Resolved(how) == [how |-> how, run |-> NoRun, end |-> 0]
Open == Resolved("open")

Idle == [at |-> "idle", req |-> NoRun, upto |-> 0, ran |-> FALSE, end |-> 0, held |-> {}]

\* The events of a run of one kind, among the first n of the history.
EventsOf(r, kinds, n) == {i \in 1..n : history[i].run = r /\ history[i].kind \in kinds}

\* Mutant of Accepted: whose answer it is is not looked at.
AcceptedByAny(r, n) == \E i \in 1..n : history[i].kind = "answered" /\ i >= floor[r]

\* The run's last candidate for a final answer was accepted.
Accepted(r, n) ==
    LET ends == EventsOf(r, {"finished", "answered"}, n)
    IN  ends # {} /\ history[Max(ends)].kind = "answered"

\* A terminal of this kind is held against run r if it names the run, or came
\* from the session after the run was queued.
TurnEndedBy(kind, r, n) ==
    \E i \in 1..n : /\ history[i].kind = kind
                    /\ history[i].run = r \/ i > floor[r]

\* The tool call of checkpoint i has its result.
Returned(i, n) == i < n /\ history[i + 1].kind = "result"

\* The events a checkpoint may stem from: an approval carries its id; a
\* question is matched by its words, and while no such words are on record by
\* the calls that asked something and have no result.
Candidates(c, n) ==
    LET worded == {i \in 1..n : history[i].kind = history[c].kind}
    IN  IF history[c].kind = "approval" THEN {c} \cap (1..n)
        ELSE IF worded # {} THEN worded
        ELSE {i \in 1..n : history[i].kind \in Questions /\ ~Returned(i, n)}

\* The newest of them.
Origin(c, n) == IF Candidates(c, n) = {} THEN 0 ELSE Max(Candidates(c, n))

\* Mutant of Outlived: any end of the turn counts, before the question too.
OutlivedOnce(c, n) ==
    Origin(c, n) # 0 /\ EventsOf(history[Origin(c, n)].run, Terminals, n) # {}

\* The turn of the checkpoint has ended since it was asked.
Outlived(c, n) ==
    LET origin == Origin(c, n)
    IN  origin # 0 /\ \E t \in (origin + 1)..n : /\ history[t].run = history[origin].run
                                               /\ history[t].kind \in Terminals

Owner(c, n) == IF Origin(c, n) = 0 THEN Latest ELSE history[Origin(c, n)].run
OutlivedOf(c, n) ==
    [how |-> "outlived", run |-> Owner(c, n), end |-> Max(EventsOf(Owner(c, n), Terminals, n))]

\* Resolve checkpoints in the ledger (the first outcome of each stays) and
\* drop them from the hub.
Retire(outcome) ==
    /\ audit' = [c \in DOMAIN audit |->
                    IF c \in DOMAIN outcome /\ audit[c] = Open THEN outcome[c] ELSE audit[c]]
    /\ cards' = cards \ DOMAIN outcome

-----------------------------------------------------------------------------
Init ==
    /\ history = <<>> /\ queue = <<>> /\ turn = NoRun
    /\ aborting = FALSE /\ asking = 0 /\ replied = FALSE
    /\ runs = <<>> /\ status = [r \in Requests |-> "none"]
    /\ floor = [r \in Requests |-> 0] /\ fence = {}
    /\ seen = 0 /\ audit = [c \in 1..MaxEvents |-> Open]
    /\ cards = {} /\ archived = FALSE
    /\ op = Idle
    /\ delivered = [r \in Requests |-> 0] /\ dropped = {} /\ stopped = NoRun
    /\ spent = 0

-----------------------------------------------------------------------------
(* The agent runtime (external).                                             *)

Room ==
    LET moves == {i \in DOMAIN history : history[i].kind # "result"}
    IN  Len(history) < MaxEvents /\ Len(runs) + Cardinality(moves) + spent < MaxMoves
Happens(kind, r) == history' = Append(history, [kind |-> kind, run |-> r])
HostStays == UNCHANGED <<teamVars, ledgerVars, op, ghostVars>>

TurnStarts ==
    /\ turn = NoRun /\ queue # <<>> /\ Room
    /\ turn' = Head(queue)
    /\ queue' = Tail(queue)
    /\ UNCHANGED <<history, aborting, asking, replied>> /\ HostStays

TurnAsks(kind) ==
    /\ turn # NoRun /\ asking = 0 /\ ~aborting /\ Room
    /\ Happens(kind, turn)
    /\ asking' = Len(history) + 1
    /\ UNCHANGED <<queue, turn, aborting, replied>> /\ HostStays

\* The tool of a checkpoint returns once it is answered or aborted; a turn that
\* ends first leaves it without a result.
ToolReturns ==
    /\ asking # 0 /\ (replied \/ aborting) /\ Len(history) < MaxEvents
    /\ Happens("result", turn)
    /\ asking' = 0 /\ replied' = FALSE
    /\ UNCHANGED <<queue, turn, aborting>> /\ HostStays

\* A turn waits for its checkpoint, unless it fails or is cancelled.
TurnEnds(kind) ==
    /\ turn # NoRun /\ Room
    /\ kind \in {"finished", "answered"} => asking = 0 /\ ~aborting
    /\ kind = "cancelled" => aborting
    /\ Happens(kind, turn)
    /\ turn' = NoRun /\ asking' = 0 /\ replied' = FALSE /\ aborting' = FALSE
    /\ UNCHANGED queue /\ HostStays

\* root_context: stop_automatic_continuations.
Stopped == Latest \in fence

\* The report of a child agent continues the last turn; the runtime asks the
\* host first (root_context, which takes no lock).
TurnContinues ==
    /\ turn = NoRun /\ queue = <<>> /\ history # <<>> /\ Room
    /\ ~Stopped
    /\ turn' = Last(history).run
    /\ UNCHANGED <<history, queue, aborting, asking, replied>> /\ HostStays

Runtime == \/ TurnStarts \/ TurnContinues \/ ToolReturns
           \/ \E kind \in Checkpoints : TurnAsks(kind)
           \/ \E kind \in Terminals : TurnEnds(kind)

\* session.prompt, accepted.
Prompted(r) ==
    /\ queue' = Append(queue, r)
    /\ delivered' = [delivered EXCEPT ![r] = @ + 1]
    /\ UNCHANGED <<history, turn, aborting, asking, replied, dropped, stopped, spent>>

\* session.cancel, accepted: the queue is dropped, the open turn will end.
Cancelled ==
    /\ queue' = <<>>
    /\ aborting' = (turn # NoRun)
    /\ dropped' = dropped \cup ToSet(queue)
    /\ stopped' = Latest
    /\ UNCHANGED <<history, turn, asking, replied, delivered, spent>>

-----------------------------------------------------------------------------
(* The event hub: its thread hears of checkpoints late, again or never.      *)

\* The turn waits for an answer.
Waiting == asking # 0 /\ ~replied

HubHears ==
    /\ Waiting /\ asking \notin cards
    /\ cards' = cards \cup {asking}
    /\ UNCHANGED <<runtimeVars, teamVars, seen, audit, archived, op, ghostVars>>

HubForgets ==
    /\ \E c \in cards : ~(Waiting /\ c = asking) /\ cards' = cards \ {c}
    /\ UNCHANGED <<runtimeVars, teamVars, seen, audit, archived, op, ghostVars>>

-----------------------------------------------------------------------------
(* submit_message.                                                           *)

\* Mutant of IsNew: a request that failed may be sent once more.
IsNewOrFailed(r) == r \notin Submitted \/ status[r] = "failed"

\* A request id that is known already is answered from its run.
IsNew(r) == r \notin Submitted

\* Append the run, with the boundary of the history before it.
SubmitAppends(r) ==
    /\ \/ op.at = "idle" /\ ~archived /\ IsNew(r) /\ r <= Len(runs) + 1 /\ Room
       \/ op.at = "suspended" /\ r = op.req
    /\ runs' = Append(runs, r)
    /\ status' = [status EXCEPT ![r] = "queued"]
    /\ floor' = [floor EXCEPT ![r] = Len(history)]
    /\ op' = [Idle EXCEPT !.at = "appended", !.req = r]
    /\ UNCHANGED <<runtimeVars, fence, ledgerVars, ghostVars>>

\* The call may fail before the runtime has the message, or after.
SubmitPrompts ==
    /\ op.at = "appended"
    /\ \/ Prompted(op.req) /\ status' = status
       \/ Prompted(op.req) /\ status' = [status EXCEPT ![op.req] = "failed"]
       \/ /\ status' = [status EXCEPT ![op.req] = "failed"]
          /\ UNCHANGED <<runtimeVars, ghostVars>>
    /\ op' = Idle
    /\ UNCHANGED <<runs, floor, fence, ledgerVars>>

-----------------------------------------------------------------------------
(* conversation, archive_task and a message about a checkpoint: each reads   *)
(* the history, then asks the runtime what runs, and goes on from that; which *)
(* of them it is shows in its last step.  The reads of the children come      *)
(* between the two last steps, and the runtime moves on meanwhile.            *)

Reads ==
    /\ op.at = "idle"
    /\ op' = [Idle EXCEPT !.at = "reads", !.upto = Len(history)]
    /\ UNCHANGED <<runtimeVars, teamVars, ledgerVars, ghostVars>>

\* session.list: whether the root session runs; what was read is persisted.
Lists ==
    /\ op.at = "reads"
    /\ seen' = op.upto
    /\ op' = [op EXCEPT !.at = "listed", !.ran = (turn # NoRun)]
    /\ UNCHANGED <<runtimeVars, teamVars, audit, cards, archived, ghostVars>>

\* Checkpoints that were outlived are retired.
Outlasted(n) == {c \in cards : Outlived(c, n)}
Retires(n) == Retire([c \in Outlasted(n) |-> OutlivedOf(c, n)])

\* _converge_cancel_requested_runs: one quiet observation settles them all.
Converged(r, quiet, degraded) ==
    IF status[r] = "cancel_requested" /\ quiet /\ ~degraded THEN "cancelled" ELSE status[r]

\* Mutant of Outcome: the reason code of an error is taken for the status.
OutcomeCode(r, n, degraded) ==
    IF TurnEndedBy("error", r, n) THEN "dsh_turn_error"
    ELSE IF TurnEndedBy("cancelled", r, n) THEN "cancelled"
    ELSE IF Accepted(r, n) THEN "completed" ELSE "idle_without_final"

\* How the turn of a run ended, its error first.
Outcome(r, n, degraded) ==
    IF TurnEndedBy("error", r, n) THEN "failed"
    ELSE IF TurnEndedBy("cancelled", r, n) THEN "cancelled"
    ELSE IF degraded THEN "observation_degraded"
    ELSE IF Accepted(r, n) THEN "completed" ELSE "idle_without_final"

\* Mutant of LatestSettled: a requested cancellation is no case of its own.
LatestFollows(was, waiting, running, n, degraded) ==
    IF was = "cancelled" THEN was
    ELSE IF waiting THEN "waiting_for_human"
    ELSE IF running THEN "running"
    ELSE Outcome(Latest, n, degraded)

\* _reconcile_team: the latest run follows what is observed of the session.
LatestSettled(was, waiting, running, n, degraded) ==
    IF was \in {"cancel_requested", "cancelled"} THEN was
    ELSE IF was \in Unsettled /\ waiting THEN "waiting_for_human"
    ELSE IF was \in Unsettled /\ running THEN "running"
    ELSE IF running THEN was
    ELSE Outcome(Latest, n, degraded)

\* Older runs are settled by their own end of turn only.
OlderSettled(r, was, n) ==
    IF \/ was = "completed"
       \/ /\ EventsOf(r, {"finished", "answered"}, n) # {}
          /\ was \in {"running", "waiting_for_human", "idle_without_final"}
    THEN IF Accepted(r, n) THEN "completed" ELSE "idle_without_final"
    ELSE was

Settled(n, degraded) ==
    LET waiting == cards \ Outlasted(n) # {}
        running == op.ran /\ ~waiting
        quiet == ~op.ran /\ ~waiting
    IN  [r \in Requests |->
            LET was == Converged(r, quiet, degraded)
            IN  IF r \notin Submitted THEN "none"
                ELSE IF r = Latest THEN LatestSettled(was, waiting, running, n, degraded)
                ELSE OlderSettled(r, was, n)]

Settles(degraded) ==
    /\ Retires(op.upto)
    /\ status' = Settled(op.upto, degraded)
    /\ op' = Idle
    /\ UNCHANGED <<runtimeVars, runs, floor, fence, seen, ghostVars>>

\* The rest of a refresh: pending checkpoints, reconciliation.
RefreshSettles(degraded) == op.at = "listed" /\ Settles(degraded) /\ UNCHANGED archived

\* Mutant of ObservedTerminal: any turn that ended will do.
ObservedAnyTerminal(r, n) == r \in Requests /\ \E o \in Requests : EventsOf(o, Terminals, n) # {}

\* A turn of the run was seen to end.
ObservedTerminal(r, n) == EventsOf(r, Terminals, n) # {}

\* The phase of the settled conversation permits archiving.
MayArchive(degraded) ==
    LET after == Settled(op.upto, degraded)
    IN  /\ ~degraded
        /\ ~op.ran /\ cards \ Outlasted(op.upto) = {}
        /\ \A r \in Requests : after[r] # "cancel_requested"
        /\ Latest # NoRun => \/ after[Latest] \in {"completed", "failed", "cancelled"}
                             \/ ObservedTerminal(Latest, op.upto)

\* A refused archiving leaves what a refresh leaves.
ArchiveSettles(degraded) ==
    /\ op.at = "listed" /\ ~archived /\ MayArchive(degraded)
    /\ Settles(degraded)
    /\ archived' = TRUE

-----------------------------------------------------------------------------
(* A message about a checkpoint suspends it first.                           *)

\* The latest run waits for the checkpoint, or its turn has outlived it.
Live(c) == c \in cards \ Outlasted(op.upto)
Discussable(c) ==
    /\ Cardinality({r \in Submitted : status[r] \in Active}) <= 1
    /\ IF Live(c) THEN Owner(c, op.upto) = Latest /\ op.ran
       ELSE audit'[c].how = "outlived" /\ audit'[c].run = Latest /\ ~op.ran

\* A live checkpoint takes the cancellation of its turn, which may be refused.
DiscussSuspends(r, c) ==
    /\ op.at = "listed" /\ ~archived /\ IsNew(r) /\ r <= Len(runs) + 1
    /\ Retires(op.upto)
    /\ \/ /\ ~Discussable(c)
          /\ op' = Idle
          /\ UNCHANGED <<fence, runtimeVars, ghostVars>>
       \/ /\ Discussable(c) /\ Live(c)
          /\ fence' = {Latest}
          /\ \/ /\ Cancelled
                /\ op' = [Idle EXCEPT !.at = "waits", !.req = r, !.held = cards']
             \/ /\ op' = Idle
                /\ UNCHANGED <<runtimeVars, ghostVars>>
       \/ /\ Discussable(c) /\ ~Live(c)
          /\ fence' = {Latest}
          /\ op' = [Idle EXCEPT !.at = "waits", !.req = r, !.end = audit'[c].end, !.held = cards']
          /\ UNCHANGED <<runtimeVars, ghostVars>>
    /\ UNCHANGED <<runs, status, floor, seen, archived>>

\* What becomes of the run whose checkpoint is discussed.
Handoff ==
    IF op.end = 0 \/ history[op.end].kind = "cancelled" THEN "cancelled"
    ELSE IF history[op.end].kind = "error" THEN "failed" ELSE "idle_without_final"

\* A cancelled turn has to be seen to stop.
DiscussResolves ==
    /\ op.at = "waits" /\ (op.end = 0 => turn = NoRun)
    /\ Retire([c \in op.held |-> Resolved("superseded")])
    /\ status' = [r \in Requests |->
                    IF r \in Submitted /\ status[r] \in Active THEN Handoff ELSE status[r]]
    /\ op' = [Idle EXCEPT !.at = "suspended", !.req = op.req]
    /\ UNCHANGED <<runtimeVars, runs, floor, fence, seen, archived, ghostVars>>

DiscussGivesUp ==
    /\ op.at = "waits" /\ op.end = 0 /\ turn # NoRun
    /\ op' = Idle
    /\ UNCHANGED <<runtimeVars, teamVars, ledgerVars, ghostVars>>

-----------------------------------------------------------------------------
(* cancel: the fence is published before the runtime is called.              *)

\* Mutant of CancelFences: the fence is left to the end of the handler.
CancelFencesLate ==
    /\ op.at = "idle" /\ Room
    /\ spent' = spent + 1
    /\ op' = [Idle EXCEPT !.at = "fenced"]
    /\ UNCHANGED <<runtimeVars, teamVars, ledgerVars, delivered, dropped, stopped>>

CancelFences ==
    /\ op.at = "idle" /\ Room
    /\ spent' = spent + 1
    /\ fence' = Submitted
    /\ op' = [Idle EXCEPT !.at = "fenced"]
    /\ UNCHANGED <<runtimeVars, runs, status, floor, ledgerVars, delivered, dropped, stopped>>

CancelSignals ==
    /\ op.at = "fenced"
    /\ \/ Cancelled
       \/ UNCHANGED <<runtimeVars, ghostVars>>
    /\ op' = [op EXCEPT !.at = "signalled", !.ran = (turn # NoRun)]
    /\ UNCHANGED <<teamVars, ledgerVars>>

\* An idle latest run may still be under way.
ToCancel(r) ==
    \/ status[r] \in Active
    \/ /\ r = Latest /\ status[r] = "idle_without_final"
       /\ op.ran \/ ~ObservedTerminal(r, seen)

CancelRecords ==
    /\ op.at = "signalled"
    /\ fence' = Submitted
    /\ status' = [r \in Requests |-> IF ToCancel(r) THEN "cancel_requested" ELSE status[r]]
    /\ op' = Idle
    /\ UNCHANGED <<runtimeVars, runs, floor, ledgerVars, ghostVars>>

-----------------------------------------------------------------------------
(* answer_approval and answer_question.                                      *)

\* The hub's checkpoints are checked against what is persisted; the runtime
\* takes an answer only to what it asks.  An answer whose reply is lost is
\* not recorded.
Answer(c) ==
    /\ op.at = "idle" /\ ~archived
    /\ seen' = seen
    /\ \/ /\ c \notin Outlasted(seen) /\ Waiting /\ asking = c
          /\ replied' = TRUE
          /\ \/ Retire([d \in {c} \cup Outlasted(seen) |->
                          IF d = c THEN Resolved("answered") ELSE OutlivedOf(d, seen)])
             \/ Retires(seen)
       \/ /\ ~(c \notin Outlasted(seen) /\ Waiting /\ asking = c)
          /\ UNCHANGED replied
          /\ Retires(seen)
    /\ UNCHANGED <<history, queue, turn, aborting, asking, teamVars, archived, op, ghostVars>>

-----------------------------------------------------------------------------
\* The process dies and starts again: nothing of a handler survives but what
\* it has written.
Crash ==
    /\ op.at # "idle" /\ Room
    /\ op' = Idle
    /\ spent' = spent + 1
    /\ UNCHANGED <<runtimeVars, teamVars, ledgerVars, delivered, dropped, stopped>>

Submit == \/ \E r \in Requests : SubmitAppends(r)
          \/ SubmitPrompts

Refresh == \E degraded \in BOOLEAN : RefreshSettles(degraded) \/ ArchiveSettles(degraded)
Discuss == \/ \E r \in Requests, c \in 1..Len(history) :
                history[c].kind \in Checkpoints /\ DiscussSuspends(r, c)
           \/ DiscussResolves \/ DiscussGivesUp
Answers == \E c \in cards : Answer(c)

Next == \/ Runtime \/ HubHears \/ HubForgets
        \/ Submit \/ Reads \/ Lists \/ Refresh \/ Discuss
        \/ CancelFences \/ CancelSignals \/ CancelRecords
        \/ Answers \/ Crash

Spec == Init /\ [][Next]_vars

-----------------------------------------------------------------------------
TypeOK ==
    /\ history \in Seq(Events) /\ Len(history) <= MaxEvents
    /\ queue \in Seq(Requests)
    /\ turn \in Requests \cup {NoRun} /\ aborting \in BOOLEAN
    /\ asking \in 0..Len(history) /\ replied \in BOOLEAN
    /\ runs \in Seq(Requests)
    /\ status \in [Requests -> Statuses]
    /\ floor \in [Requests -> 0..MaxEvents]
    /\ fence \subseteq Requests
    /\ seen \in 0..Len(history)
    /\ audit \in [1..MaxEvents -> [how : {"open", "answered", "superseded", "outlived"},
                                run : Requests \cup {NoRun}, end : 0..Len(history)]]
    /\ cards \subseteq {c \in 1..Len(history) : history[c].kind \in Checkpoints}
    /\ archived \in BOOLEAN
    /\ op \in [at : {"idle", "appended", "reads", "listed", "waits", "suspended",
                     "fenced", "signalled"},
               req : Requests \cup {NoRun},
               upto : 0..Len(history), ran : BOOLEAN, end : 0..Len(history),
               held : SUBSET (1..Len(history))]

\* However often a request id is sent again, and wherever the process dies,
\* its message reaches the agent once at most, and it has one run.
PromptedOnce ==
    /\ \A r \in Requests : delivered[r] <= 1
    /\ \A i, j \in DOMAIN runs : runs[i] = runs[j] => i = j

\* Event e stands in for question c: it asked the same, or its call never had
\* a result, and a turn of its run has ended since.
StandsIn(e, c) ==
    /\ history[e].kind \in Questions /\ history[c].kind \in Questions
    /\ history[e].kind = history[c].kind \/ history[e + 1].kind # "result"
    /\ \E t \in (e + 1)..(c - 1) : /\ history[t].run = history[e].run
                                  /\ history[t].kind \in Terminals

\* The run of checkpoint c went on after an end of its turn to ask it.
Continued(c) ==
    \E t \in 1..(c - 1) : history[t].run = history[c].run /\ history[t].kind \in Terminals

\* A checkpoint the agent waits for is not retired behind the user's back for
\* an earlier end of the same turn.  Two cases are left: a question taken for
\* an earlier one, and a turn a child's report continued while a message about
\* an outlived checkpoint was on its way, which retires what is pending.
LiveCardSurvives ==
    Waiting => \/ audit[asking] = Open
               \/ /\ audit[asking].how = "outlived"
                  /\ \E e \in 1..(asking - 1) : StandsIn(e, asking)
               \/ audit[asking].how = "superseded" /\ Continued(asking)

\* Native order keeps an answerable checkpoint from being retired, says the
\* comment at multi_agent.py:4042: not so for a question that is not persisted.
LiveCardIsOwn == Waiting => audit[asking].how # "outlived"

\* The same for the checkpoint of a turn that went on meanwhile.
LiveCardIsKept == Waiting => audit[asking].how # "superseded"

\* A run is reported completed only if the agent gave it an accepted answer.
CompletedIsTrue ==
    \A r \in Requests : status[r] = "completed" => EventsOf(r, {"answered"}, Len(history)) # {}

\* The failure or cancellation a run is reported with is its own.
OwnOutcome(r) ==
    /\ status[r] = "failed" => EventsOf(r, {"error"}, Len(history)) # {}
    /\ status[r] = "cancelled" => EventsOf(r, {"cancelled"}, Len(history)) # {} \/ r \in dropped

\* A requested cancellation is only ever confirmed, and a confirmed one stays.
CancelSticks ==
    [][\A r \in Requests :
        /\ status[r] = "cancelled" => status'[r] = "cancelled"
        /\ status[r] = "cancel_requested" => status'[r] \in {"cancel_requested", "cancelled"}]_vars

\* Once the runtime has accepted to stop a run, a child's report does not set
\* the agent to work again before the user sends something new.
StopIsFinal ==
    [][turn = NoRun /\ turn' # NoRun /\ queue' = queue
        => stopped = NoRun \/ Latest # stopped]_vars

\* Archiving strands no message of the user: none waits in the queue, and a
\* turn that is open only goes on after an end of it (a child's report opened
\* it behind the observation), if the latest run's outcome is its own.
NoMessageStranded ==
    [][~archived /\ archived' =>
        \/ /\ queue = <<>>
           /\ turn # NoRun => EventsOf(turn, Terminals, Len(history)) # {}
        \/ Latest # NoRun /\ ~OwnOutcome(Latest)']_vars

\* archive_task claims to compare and archive atomically: nothing runs, waits
\* or queues then.
ArchiveIsQuiet ==
    [][~archived /\ archived' =>
        \/ turn = NoRun /\ queue = <<>> /\ asking = 0
        \/ Latest # NoRun /\ ~OwnOutcome(Latest)']_vars

\* A run is reported as failed or cancelled only for its own turn: the
\* docstrings of _latest_run_turn_error and _latest_run_turn_cancelled say so.
OutcomeIsOwn ==
    [][\A r \in Requests :
        /\ status[r] = "running" /\ status'[r] \in {"failed", "cancelled"} => OwnOutcome(r)']_vars
=============================================================================
