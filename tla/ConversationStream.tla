------------------------- MODULE ConversationStream -------------------------
(* The live conversation of one task (conversation_stream.py): one producer  *)
(* projects the conversation of the agent runtime, numbers what changed and  *)
(* keeps a bounded history; subscribers are sent a snapshot or the records   *)
(* after the cursor they come back with; GET requests run projections under  *)
(* the same mutex; the broker drops the hub of an idle task when others need *)
(* room.  All of it runs on one event loop; a projection is a thread.        *)
EXTENDS Naturals, Sequences, FiniteSetsExt, Selection

CONSTANTS
    Getters,       \* GET requests for the whole conversation
    Entries,       \* what a conversation consists of: items, actions, ...
    HistoryLimit,  \* records kept for replay, heartbeats apart
    MaxChanges,    \* bound: changes of the conversation
    MaxFailures,   \* bound: projections that raise
    MaxBeats,      \* bound: heartbeats
    MaxHubs        \* bound: hubs made for the task

Nobody == "nobody"
Producer == "producer"

ASSUME ConversationStreamAssumption ==
    /\ Nobody \notin Getters /\ Producer \notin Getters
    /\ HistoryLimit \in Nat /\ HistoryLimit >= 2
    /\ MaxChanges \in Nat /\ MaxFailures \in Nat /\ MaxBeats \in Nat
    /\ MaxHubs \in Nat \ {0}

VARIABLES
    truth,     \* the conversation, as it was when it was last projected
    hub,       \* the broadcaster: epoch, numbered history, latest projection
    producer,  \* where its producer task is
    worker,    \* whether a projection thread runs
    holder,    \* who holds the projection mutex
    getter,    \* where each GET request is
    shutdown,  \* "open", "closed" (no more records) or "drained" (close is back)
    others,    \* whether other clients are subscribed
    at,        \* where the client's subscription is
    pinned,    \* the hub its reservation pins
    needs,     \* whether it waits for a projection newer than its registration
    batch,     \* records it is being sent
    token,     \* the last event id it saw (its seq: delivered_cursor)
    view,      \* the conversation it has put together
    astray,    \* history: it was served across epochs or past an old heartbeat
    spent      \* how much of the bounds is used up

hubVars == <<hub, producer, worker, holder, getter, shutdown>>
clientVars == <<others, at, pinned, needs, batch, token, view, astray>>
vars == <<truth, hubVars, clientVars, spent>>

-----------------------------------------------------------------------------
\* A conversation: its entries and the state fields, which are always sent
\* whole.  (The projector's revision is a constant of the process.)
Conversations == [items : SUBSET Entries, state : {"idle", "running"}]
Unknown == [items |-> {}, state |-> "unknown"]
Bodies == [items : SUBSET Entries, state : {"idle", "running", "unknown"}]
Views == Conversations \cup {Unknown}

Events == {"snapshot", "delta", "state", "heartbeat", "error"}
Records == [cursor : Nat, event : Events, body : Bodies]
NoCursor == [stream |-> 0, seq |-> 0]

Connected == {"waiting", "sending", "live"}
Subscribed == others \/ at \in Connected
Reserved == at # "away" \/ others \/ \E g \in Getters : getter[g] # "off"
Closed == shutdown # "open"

Semantic(r) == r.event # "heartbeat"
Semantics(s) == {i \in DOMAIN s : Semantic(s[i])}

-----------------------------------------------------------------------------
(* The history.                                                              *)

\* Incremental records can add and replace entries, never take one away.
RequiresSnapshot(before, after) == ~(before.items \subseteq after.items)

Body(event, conv) ==
    CASE event = "snapshot" -> conv
      [] event = "delta" -> [Unknown EXCEPT !.items = conv.items]
      [] event = "state" -> [Unknown EXCEPT !.state = conv.state]
      [] OTHER -> Unknown

Beat == [event |-> "heartbeat", body |-> Unknown]
Error == [event |-> "error", body |-> Unknown]

\* Mutant of AppendLocked: a heartbeat at the head is never passed over.
AppendBounded(h, r) ==
    LET record == [cursor |-> h.cursor + 1, event |-> r.event, body |-> Body(r.event, r.body)]
        kept == IF Semantic(r) THEN h.history ELSE InOrder(h.history, Semantics(h.history))
        grown == Append(kept, record)
    IN  [h EXCEPT !.cursor = @ + 1,
                  !.history = IF Cardinality(Semantics(grown)) > HistoryLimit
                                 /\ Semantic(Head(grown))
                              THEN Tail(grown)
                              ELSE grown]

\* One record more: heartbeats coalesce, then the oldest record that is not a
\* heartbeat makes room.
AppendLocked(h, r) ==
    LET record == [cursor |-> h.cursor + 1, event |-> r.event, body |-> Body(r.event, r.body)]
        kept == IF Semantic(r) THEN h.history ELSE InOrder(h.history, Semantics(h.history))
        grown == Append(kept, record)
        old == Semantics(grown)
    IN  [h EXCEPT !.cursor = @ + 1,
                  !.history = IF Cardinality(old) > HistoryLimit
                              THEN InOrder(grown, DOMAIN grown \ {Min(old)})
                              ELSE grown]

\* What a new projection adds to the history.
WithDelta(h, before, after) ==
    IF after.items = before.items THEN h
    ELSE AppendLocked(h, [event |-> "delta", body |-> [after EXCEPT !.items = @ \ before.items]])
WithState(h, before, after) ==
    IF after.state = before.state THEN h
    ELSE AppendLocked(h, [event |-> "state", body |-> after])
WithChanges(h, before, after) ==
    IF before = Unknown \/ RequiresSnapshot(before, after)
    THEN AppendLocked(h, [event |-> "snapshot", body |-> after])
    ELSE WithState(WithDelta(h, before, after), before, after)

\* Mutant of CursorIsReplayable: only cursors of the future are refused.
CursorIsKnown(n) == n <= hub.cursor

CursorIsReplayable(n) ==
    /\ n <= hub.cursor
    /\ IF hub.history = <<>> THEN n = hub.cursor ELSE n >= hub.history[1].cursor - 1

\* Mutant of RecordsAfter: the record of the cursor itself is sent again.
RecordsFrom(n) ==
    InOrder(hub.history, {i \in DOMAIN hub.history : hub.history[i].cursor >= n})

RecordsAfter(n) ==
    InOrder(hub.history, {i \in DOMAIN hub.history : hub.history[i].cursor > n})

SnapshotForSubscriber ==
    <<[cursor |-> hub.cursor, event |-> "snapshot", body |-> hub.latest]>>

\* The oldest record is a heartbeat whose successors have been dropped.
HeadIsStale ==
    /\ Len(hub.history) > 1
    /\ hub.history[2].cursor > hub.history[1].cursor + 1

NewHub(n) == [id |-> n, stream |-> hub.stream + 1, history |-> <<>>, cursor |-> 0,
              latest |-> Unknown, fatal |-> 0]

-----------------------------------------------------------------------------
Init ==
    /\ truth = [items |-> {}, state |-> "idle"]
    /\ hub = [id |-> 1, stream |-> 1, history |-> <<>>, cursor |-> 0,
              latest |-> Unknown, fatal |-> 0]
    /\ producer = "none"
    /\ worker = FALSE
    /\ holder = Nobody
    /\ getter = [g \in Getters |-> "off"]
    /\ shutdown = "open"
    /\ others = FALSE
    /\ at = "away"
    /\ pinned = 0
    /\ needs = FALSE
    /\ batch = <<>>
    /\ token = NoCursor
    /\ view = Unknown
    /\ astray = FALSE
    /\ spent = [changes |-> 0, failures |-> 0, beats |-> 0]

-----------------------------------------------------------------------------
(* A projection: the mutex, then a thread that outlives its caller.          *)

\* The holder takes over a thread that still runs, or starts one.
TakesMutex(who) ==
    /\ holder = Nobody
    /\ holder' = who
    /\ worker' = TRUE

Stirred ==
    \/ Closed
    \/ ~CursorIsReplayable(token.seq)
    \/ RecordsAfter(token.seq) # <<>>
    \/ hub.fatal # 0 /\ token.seq >= hub.fatal

\* What the agent runtime may show next: an entry more or less, a turn of the
\* state, or a new entry with the turn it brings.
Other(state) == CHOOSE x \in {"idle", "running"} : x # state
Turns ==
    {[truth EXCEPT !.items = @ \ {e}] : e \in truth.items} \cup
    {[truth EXCEPT !.state = Other(@)]} \cup
    [items : {truth.items \cup {e} : e \in Entries \ truth.items},
     state : {truth.state, Other(truth.state)}]

\* The thread is back and the holder of the mutex continues, after the loop
\* has run the subscriber it had woken before.
Returned(who) ==
    /\ holder = who
    /\ ~(at = "live" /\ Stirred)
    /\ worker' = FALSE
    /\ holder' = Nobody

Shows(conv, beats) ==
    /\ \/ conv = truth /\ spent' = [spent EXCEPT !.beats = @ + beats]
       \/ /\ conv \in Turns
          /\ spent.changes < MaxChanges
          /\ spent' = [spent EXCEPT !.changes = @ + 1, !.beats = @ + beats]
    /\ truth' = conv

Fails ==
    /\ spent.failures < MaxFailures
    /\ spent' = [spent EXCEPT !.failures = @ + 1]

\* _accept_projection, under the condition; nothing is published for nobody.
Accepted(conv) ==
    IF Closed \/ ~Subscribed THEN hub
    ELSE WithChanges([hub EXCEPT !.latest = conv], hub.latest, conv)
ServesWaiting ==
    needs' = IF Closed \/ ~Subscribed THEN needs ELSE FALSE

\* A thread whose request was cancelled ends unheard.
WorkerEnds ==
    /\ worker
    /\ holder = Nobody
    /\ worker' = FALSE
    /\ UNCHANGED <<truth, hub, producer, holder, getter, shutdown, clientVars, spent>>

-----------------------------------------------------------------------------
(* The producer.                                                             *)
Idle == Closed \/ ~Subscribed

\* The loop starts over: it ends when nobody listens, else wants the mutex.
ProducerWakes ==
    /\ producer = "ready"
    /\ \/ /\ Idle
          /\ producer' = "none"
          /\ UNCHANGED <<holder, worker>>
       \/ /\ ~Idle
          /\ TakesMutex(Producer)
          /\ producer' = "projecting"
       \/ /\ ~Idle /\ holder # Nobody
          /\ producer' = "asking"
          /\ UNCHANGED <<holder, worker>>
    /\ UNCHANGED <<truth, hub, getter, shutdown, clientVars, spent>>

\* The mutex is free again.  A closed hub refuses: the producer gives up.
ProducerAsks ==
    /\ producer = "asking"
    /\ \/ /\ Closed /\ holder = Nobody
          /\ producer' = "none"
          /\ UNCHANGED <<holder, worker>>
       \/ /\ ~Closed
          /\ TakesMutex(Producer)
          /\ producer' = "projecting"
    /\ UNCHANGED <<truth, hub, getter, shutdown, clientVars, spent>>

\* A heartbeat follows when the last one is long enough ago.
ProducerAccepts ==
    /\ Returned(Producer)
    /\ \E conv \in Turns \cup {truth} :
          \/ /\ Shows(conv, 0)
             /\ hub' = Accepted(conv)
          \/ /\ ~Idle
             /\ spent.beats < MaxBeats
             /\ Shows(conv, 1)
             /\ hub' = AppendLocked(Accepted(conv), Beat)
    /\ ServesWaiting
    /\ producer' = IF Idle THEN "none" ELSE "ready"
    /\ UNCHANGED <<getter, shutdown, others, at, pinned, batch, token, view, astray>>

\* The typed error that ends an epoch.
ProducerFails ==
    /\ Returned(Producer)
    /\ Fails
    /\ hub' = IF Idle THEN hub
              ELSE LET h == AppendLocked(hub, Error) IN [h EXCEPT !.fatal = h.cursor]
    /\ producer' = "none"
    /\ UNCHANGED <<truth, getter, shutdown, clientVars>>

-----------------------------------------------------------------------------
(* GET requests.                                                             *)
GetAsks(g) ==
    /\ getter[g] = "off"
    /\ ~Closed
    /\ \/ /\ TakesMutex(g)
          /\ getter' = [getter EXCEPT ![g] = "projecting"]
       \/ /\ holder # Nobody
          /\ getter' = [getter EXCEPT ![g] = "asking"]
          /\ UNCHANGED <<holder, worker>>
    /\ UNCHANGED <<truth, hub, producer, shutdown, clientVars, spent>>

\* Mutant of GetProjects: whether the hub is closed is not asked again.
GetProjectsAnyway(g) ==
    /\ getter[g] = "asking"
    /\ TakesMutex(g)
    /\ getter' = [getter EXCEPT ![g] = "projecting"]
    /\ UNCHANGED <<truth, hub, producer, shutdown, clientVars, spent>>

\* A closed hub refuses the projection.
GetProjects(g) ==
    /\ getter[g] = "asking"
    /\ \/ /\ Closed /\ holder = Nobody
          /\ getter' = [getter EXCEPT ![g] = "off"]
          /\ UNCHANGED <<holder, worker>>
       \/ /\ ~Closed
          /\ TakesMutex(g)
          /\ getter' = [getter EXCEPT ![g] = "projecting"]
    /\ UNCHANGED <<truth, hub, producer, shutdown, clientVars, spent>>

GetReturns(g) ==
    /\ Returned(g)
    /\ \E conv \in Turns \cup {truth} :
          /\ Shows(conv, 0)
          /\ hub' = Accepted(conv)
    /\ ServesWaiting
    /\ getter' = [getter EXCEPT ![g] = "off"]
    /\ UNCHANGED <<producer, shutdown, others, at, pinned, batch, token, view, astray>>

GetFails(g) ==
    /\ Returned(g)
    /\ Fails
    /\ getter' = [getter EXCEPT ![g] = "off"]
    /\ UNCHANGED <<truth, hub, producer, shutdown, clientVars>>

\* The request is cancelled; its thread, if any, runs on.
GetCancelled(g) ==
    /\ getter[g] # "off"
    /\ holder' = IF holder = g THEN Nobody ELSE holder
    /\ getter' = [getter EXCEPT ![g] = "off"]
    /\ UNCHANGED <<truth, hub, producer, worker, shutdown, clientVars, spent>>

-----------------------------------------------------------------------------
(* Subscriptions.                                                            *)

\* The handler pins the hub before it hands the stream to the server.
Reserve ==
    /\ at = "away"
    /\ ~Closed
    /\ at' = "reserved"
    /\ pinned' = hub.id
    /\ \/ UNCHANGED <<token, view, astray>>
       \/ /\ token # NoCursor    \* a client that starts from nothing
          /\ token' = NoCursor
          /\ view' = Unknown
          /\ astray' = FALSE
    /\ UNCHANGED <<truth, hubVars, others, needs, batch, spent>>

\* The first subscriber starts the producer; after an error, in a new epoch,
\* whatever the subscribers of the old one have still to read.
StartsProducer ==
    /\ producer = "none"
    /\ producer' = "ready"
    /\ hub' = IF hub.fatal = 0 THEN hub ELSE NewHub(hub.id)

\* Mutant of Register: a producer that has stopped is taken for running.
RegisterIdle ==
    /\ at = "reserved"
    /\ ~Closed
    /\ at' = "waiting"
    /\ \/ hub.cursor = 0 /\ StartsProducer /\ needs' = TRUE
       \/ producer # "none" /\ needs' = FALSE /\ UNCHANGED <<producer, hub>>
       \/ producer = "none" /\ hub.cursor # 0 /\ needs' = FALSE
          /\ UNCHANGED <<producer, hub>>
    /\ UNCHANGED <<truth, worker, holder, getter, shutdown, others, pinned, batch,
                   token, view, astray, spent>>

Register ==
    /\ at = "reserved"
    /\ ~Closed
    /\ at' = "waiting"
    /\ \/ StartsProducer /\ needs' = TRUE
       \/ producer # "none" /\ needs' = FALSE /\ UNCHANGED <<producer, hub>>
    /\ UNCHANGED <<truth, worker, holder, getter, shutdown, others, pinned, batch,
                   token, view, astray, spent>>

OthersRegister ==
    /\ ~Closed
    /\ others' = TRUE
    /\ \/ /\ StartsProducer
          /\ astray' = (astray \/ (hub.fatal # 0 /\ at \in Connected))
       \/ producer # "none" /\ ~others /\ UNCHANGED <<producer, hub, astray>>
    /\ UNCHANGED <<truth, worker, holder, getter, shutdown, at, pinned, needs,
                   batch, token, view, spent>>

OthersLeave ==
    /\ others
    /\ others' = FALSE
    /\ UNCHANGED <<truth, hubVars, at, pinned, needs, batch, token, view, astray, spent>>

\* The answer to the first question: where does this client continue?
Continues ==
    /\ token # NoCursor
    /\ token.stream = hub.stream
    /\ CursorIsReplayable(token.seq)

\* Once a batch is through, the subscription waits for more.
AfterBatch(rest) == IF rest = <<>> THEN "live" ELSE "sending"

Ready ==
    /\ at = "waiting"
    /\ (hub.latest # Unknown /\ ~needs) \/ hub.fatal # 0 \/ Closed
    /\ batch' = CASE hub.latest = Unknown -> hub.history
                  [] hub.latest # Unknown /\ Continues -> RecordsAfter(token.seq)
                  [] OTHER -> SnapshotForSubscriber
    /\ at' = AfterBatch(batch')
    /\ astray' = (astray \/ (hub.latest # Unknown /\ Continues /\ HeadIsStale))
    /\ UNCHANGED <<truth, hubVars, others, pinned, needs, token, view, spent>>

Apply(conv, r) ==
    CASE r.event = "snapshot" -> r.body
      [] r.event = "delta" -> [conv EXCEPT !.items = @ \cup r.body.items]
      [] r.event = "state" -> [conv EXCEPT !.state = r.body.state]
      [] OTHER -> conv

Leaves ==
    /\ at' = "away"
    /\ needs' = FALSE
    /\ pinned' = 0
    /\ batch' = <<>>

\* A record goes out under the stream id the hub has now.
Send ==
    /\ at = "sending"
    /\ batch # <<>>
    /\ LET r == Head(batch)
       IN  /\ view' = Apply(view, r)
           /\ token' = [stream |-> hub.stream, seq |-> r.cursor]
           /\ IF r.event = "error" THEN Leaves
              ELSE /\ at' = AfterBatch(Tail(batch))
                   /\ batch' = Tail(batch)
                   /\ UNCHANGED <<needs, pinned>>
    /\ UNCHANGED <<truth, hubVars, others, astray, spent>>

Wake ==
    /\ at = "live"
    /\ Stirred
    /\ LET behind == RecordsAfter(token.seq)
           replays == CursorIsReplayable(token.seq)
       IN  \/ /\ \/ Closed
                 \/ ~replays /\ hub.latest = Unknown
                 \/ replays /\ behind = <<>>
              /\ Leaves
              /\ UNCHANGED astray
           \/ /\ ~Closed
              /\ \/ ~replays /\ hub.latest # Unknown
                 \/ replays /\ behind # <<>>
              /\ at' = "sending"
              /\ batch' = IF replays THEN behind ELSE SnapshotForSubscriber
              /\ astray' = (astray \/ (replays /\ HeadIsStale))
              /\ UNCHANGED <<needs, pinned>>
    /\ UNCHANGED <<truth, hubVars, others, token, view, spent>>

\* The client goes away, or its stream is refused by a closed hub.
Disconnect ==
    /\ at \in Connected \/ at = "reserved"
    /\ Leaves
    /\ UNCHANGED <<truth, hubVars, others, token, view, astray, spent>>

-----------------------------------------------------------------------------
(* The broker.                                                               *)

\* Mutant of Evict: only subscribers keep a hub, not reservations.
EvictReserved ==
    /\ hub.id < MaxHubs
    /\ ~Closed
    /\ ~Subscribed
    /\ producer = "none"
    /\ ~worker
    /\ hub' = NewHub(hub.id + 1)
    /\ UNCHANGED <<truth, producer, worker, holder, getter, shutdown, clientVars, spent>>

\* Other tasks need room: the hub of an idle task is dropped, and the next
\* reservation finds a new one.
Evict ==
    /\ hub.id < MaxHubs
    /\ ~Closed
    /\ ~Reserved
    /\ producer = "none"
    /\ ~worker
    /\ hub' = NewHub(hub.id + 1)
    /\ UNCHANGED <<truth, producer, worker, holder, getter, shutdown, clientVars, spent>>

Close ==
    /\ ~Closed
    /\ shutdown' = "closed"
    /\ UNCHANGED <<truth, hub, producer, worker, holder, getter, clientVars, spent>>

\* close() waits for the producer, the mutex and the threads, in this order.
CloseReturns ==
    /\ shutdown = "closed"
    /\ producer = "none"
    /\ holder = Nobody
    /\ ~worker
    /\ shutdown' = "drained"
    /\ UNCHANGED <<truth, hub, producer, worker, holder, getter, clientVars, spent>>

Produce == ProducerWakes \/ ProducerAsks \/ ProducerAccepts \/ ProducerFails
Get(g) == GetAsks(g) \/ GetProjects(g) \/ GetReturns(g) \/ GetFails(g) \/ GetCancelled(g)
Subscribe == Register \/ Ready \/ Send \/ Wake

Next ==
    \/ WorkerEnds \/ Produce \/ Evict \/ Close \/ CloseReturns
    \/ \E g \in Getters : Get(g)
    \/ Reserve \/ Subscribe \/ Disconnect \/ OthersRegister \/ OthersLeave

Spec == Init /\ [][Next]_vars

\* The loop runs: threads come back, woken tasks continue, the mutex is handed
\* out in turn, and a client that is connected reads on.
Fairness ==
    /\ WF_vars(WorkerEnds)
    /\ WF_vars(ProducerWakes \/ ProducerAccepts \/ ProducerFails)
    /\ SF_vars(ProducerAsks)
    /\ \A g \in Getters : WF_vars(GetReturns(g) \/ GetFails(g))
    /\ WF_vars(Subscribe)
FairSpec == Spec /\ Fairness

-----------------------------------------------------------------------------
TypeOK ==
    /\ truth \in Conversations
    /\ hub.history \in Seq(Records)
    /\ hub.latest \in Views
    /\ hub.fatal \in 0 .. hub.cursor
    /\ Cardinality(Semantics(hub.history)) <= HistoryLimit
    /\ Len(hub.history) <= HistoryLimit + 1
    /\ producer \in {"none", "asking", "projecting", "ready"}
    /\ holder \in {Nobody, Producer} \cup Getters
    /\ at \in {"away", "reserved"} \cup Connected
    /\ batch \in Seq(Records)
    /\ view \in Bodies

UpToDate == at = "live" /\ ~Stirred

\* A subscriber that has read everything shows exactly the conversation the
\* hub last projected, whether it was sent a snapshot, replayed records or
\* followed the stream ("no duplicates, no losses", EXECUTION-PLAN.md:688).
\* Excepted is a client astray; see EveryViewIsCurrent.
ViewIsCurrent == UpToDate /\ ~astray => view = hub.latest

\* The same of every client, astray or not: a cursor that is too old, unknown
\* or of another epoch is answered by a snapshot (EXECUTION-PLAN.md:654).
EveryViewIsCurrent == UpToDate => view = hub.latest

\* Nobody waits for records that nobody will produce.
Attended ==
    at = "waiting" \/ UpToDate => producer # "none" \/ hub.fatal # 0 \/ Closed

\* A reservation or a subscription keeps its hub: a task never has two
\* producers, one of them unknown to the broker.
OneHub == at # "away" => pinned = hub.id

\* When close() has come back, no projection touches the runtime again.
ClosedMeansQuiet == shutdown = "drained" => ~worker /\ holder = Nobody

\* Within an epoch, a subscriber is never sent a change again: only a snapshot
\* may repeat what it has.
NoRepeat ==
    token.stream = hub.stream /\ ~astray
    => \A i \in DOMAIN batch :
          batch[i].cursor > token.seq \/ batch[i].event = "snapshot"

\* A client that stays connected ends up with the conversation as it is.
Informed == <>[](at \in Connected /\ ~astray) => <>[](view = truth)
=============================================================================
