--------------------------- MODULE RunEventStream ---------------------------
(* Readers of a Run's live events (GET /runs/{run_id}/events/stream) next to *)
(* the Run itself.  The generator alternates two reads that nothing keeps    *)
(* together, the log after its cursor and then the status, and ends when the *)
(* status is terminal and the last read of the log brought nothing.  Between *)
(* the two it yields the records it read one by one, and a client may leave  *)
(* after any of them.                                                        *)
EXTENDS RunLifecycle, Selection

CONSTANT Readers
ASSUME RunEventStreamAssumption == Readers # {}

VARIABLES
    watched,  \* the Run a reader asked for
    cursor,   \* sequence: the number of the last event it was sent
    sent,     \* events sent to the client, over all its connections
    batch,    \* records: what the last read of the log brought, not yet sent
    fresh,    \* whether the last read of the log brought any
    at        \* where the reader is

readers == <<watched, cursor, sent, batch, fresh, at>>
streamVars == <<vars, readers>>

StreamInit ==
    /\ Init
    /\ watched = [d \in Readers |-> NoRun]
    /\ cursor = [d \in Readers |-> 0]
    /\ sent = [d \in Readers |-> <<>>]
    /\ batch = [d \in Readers |-> <<>>]
    /\ fresh = [d \in Readers |-> FALSE]
    /\ at = [d \in Readers |-> "away"]

\* The client connects, or connects again after the last event it was sent.
Connect(d, r) ==
    /\ Alive
    /\ at[d] = "away"
    /\ disk[r] # Absent
    /\ watched[d] \in {NoRun, r}
    /\ watched' = [watched EXCEPT ![d] = r]
    /\ at' = [at EXCEPT ![d] = "events"]
    /\ UNCHANGED <<vars, cursor, sent, batch, fresh>>

\* Mutant of After: the event at the cursor is sent again.
From(r, n) == InOrder(log[r], {i \in DOMAIN log[r] : log[r][i].seq >= n})

\* service.events(run_id, after_seq)
After(r, n) == InOrder(log[r], {i \in DOMAIN log[r] : log[r][i].seq > n})

ReadEvents(d) ==
    /\ at[d] = "events"
    /\ LET records == After(watched[d], cursor[d])
       IN  /\ batch' = [batch EXCEPT ![d] = records]
           /\ fresh' = [fresh EXCEPT ![d] = records # <<>>]
           /\ at' = [at EXCEPT ![d] = IF records = <<>> THEN "status" ELSE "yield"]
    /\ UNCHANGED <<vars, watched, cursor, sent>>

\* One record goes out, and the cursor with it.
YieldRecord(d) ==
    /\ at[d] = "yield"
    /\ sent' = [sent EXCEPT ![d] = Append(@, Head(batch[d]))]
    /\ cursor' = [cursor EXCEPT ![d] = Head(batch[d]).seq]
    /\ batch' = [batch EXCEPT ![d] = Tail(@)]
    /\ at' = [at EXCEPT ![d] = IF Tail(batch[d]) = <<>> THEN "status" ELSE "yield"]
    /\ UNCHANGED <<vars, watched, fresh>>

\* Mutant of ReadStatus: only a completed Run ends its stream.
ReadCompletion(d) ==
    /\ at[d] = "status"
    /\ at' = [at EXCEPT ![d] =
           IF disk[watched[d]].status = "completed" /\ ~fresh[d]
           THEN "ended" ELSE "events"]
    /\ UNCHANGED <<vars, watched, cursor, sent, batch, fresh>>

ReadStatus(d) ==
    /\ at[d] = "status"
    /\ at' = [at EXCEPT ![d] =
           IF disk[watched[d]].status \in TerminalStatuses /\ ~fresh[d]
           THEN "ended" ELSE "events"]
    /\ UNCHANGED <<vars, watched, cursor, sent, batch, fresh>>

\* The connection drops; the client keeps what it was sent, and what the
\* generator had read and not yielded is gone.
Disconnect(d) ==
    /\ at[d] \in {"events", "yield", "status"}
    /\ at' = [at EXCEPT ![d] = "away"]
    /\ batch' = [batch EXCEPT ![d] = <<>>]
    /\ fresh' = [fresh EXCEPT ![d] = FALSE]
    /\ UNCHANGED <<vars, watched, cursor, sent>>

\* A process that dies takes its connections with it.
Hangup ==
    /\ at' = [d \in Readers |-> IF at[d] = "ended" THEN "ended" ELSE "away"]
    /\ batch' = [d \in Readers |-> <<>>]
    /\ fresh' = [d \in Readers |-> FALSE]

RunStep ==
    /\ Next
    /\ IF pc'[Service] = "down" THEN Hangup ELSE UNCHANGED <<batch, fresh, at>>
    /\ UNCHANGED <<watched, cursor, sent>>

Read(d) == ReadEvents(d) \/ YieldRecord(d) \/ ReadStatus(d)

StreamNext ==
    \/ RunStep
    \/ \E d \in Readers :
          Read(d) \/ Disconnect(d) \/ \E r \in Runs : Connect(d, r)

StreamSpec == StreamInit /\ [][StreamNext]_streamVars

\* A connected generator polls for ever.
StreamFairSpec ==
    /\ StreamSpec
    /\ \A d \in Readers : WF_streamVars(Read(d))

-----------------------------------------------------------------------------
\* Over any number of reconnections a client is sent a prefix of the log:
\* every event once, in order, none skipped.
ExactlyOnce ==
    \A d \in Readers :
        watched[d] # NoRun =>
            /\ Len(sent[d]) <= Len(log[watched[d]])
            /\ sent[d] = SubSeq(log[watched[d]], 1, Len(sent[d]))

\* A stream stays open no longer than its Run: once the status is terminal
\* for good, a client that stays connected sees the end of the stream.
StreamEnds ==
    \A d \in Readers : \A r \in Runs :
        <>[](watched[d] = r /\ disk[r].status \in TerminalStatuses
             /\ at[d] # "away") => <>(at[d] = "ended")

\* What the end of a stream tells a client: it has been sent the event that
\* settled the Run.
EndShowsVerdict ==
    \A d \in Readers :
        at[d] = "ended" => \E i \in DOMAIN sent[d] : Verdict(sent[d][i])
=============================================================================
