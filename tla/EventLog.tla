------------------------------ MODULE EventLog ------------------------------
(* What events.ndjson promises its readers (GET /runs/{id}/events, the event *)
(* stream, the last-event projection): the entries of a Run only grow, one   *)
(* at a time, and each new entry carries the next number.                    *)
EXTENDS Naturals, Sequences

CONSTANT Runs
VARIABLE entries

Init == entries = [r \in Runs |-> <<>>]

\* Whatever the event says, it is the next one, and nothing before it changes.
Publish(r) ==
    LET n == Len(entries[r]) + 1
    IN  /\ Len(entries'[r]) = n
        /\ entries'[r][n].seq = n
        /\ entries' = [entries EXCEPT ![r] = Append(entries[r], entries'[r][n])]

Next == \E r \in Runs : Publish(r)

Spec == Init /\ [][Next]_entries
=============================================================================
