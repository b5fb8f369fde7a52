--------------------------- MODULE AgentTurnsProofs ---------------------------
(* Proofs about AgentTurns for any number of requests and events.            *)
EXTENDS AgentTurns, WellFoundedInduction, SequenceTheorems, TLAPS

\* The checkpoint whose tool is at work is the last event, of the open turn.
AskingInv ==
    /\ asking # 0 => /\ asking = Len(history) /\ history[asking].kind \in Checkpoints
                     /\ turn # NoRun /\ history[asking].run = turn
    /\ replied => asking # 0

\* Whatever the runtime has to do with was submitted before.
SubmittedInv ==
    /\ ToSet(queue) \subseteq Submitted
    /\ turn # NoRun => turn \in Submitted
    /\ \A i \in DOMAIN history : history[i].run \in Submitted

\* What is counted about the past.
GhostInv ==
    /\ delivered \in [Requests -> Nat]
    /\ stopped \in Requests \cup {NoRun}
    /\ spent \in Nat

\* A run is prompted by the handler that appended it, and only by that one.
PromptInv ==
    /\ PromptedOnce
    /\ \A r \in Requests \ Submitted : delivered[r] = 0 /\ status[r] = "none"
    /\ op.at = "appended" => /\ op.req \in Submitted
                             /\ delivered[op.req] = 0 /\ status[op.req] = "queued"
    /\ op.at \in {"waits", "suspended"} => op.req \in Requests \ Submitted

\* A run the runtime has accepted to stop is fenced while it is the latest.
StopInv ==
    /\ stopped # NoRun => stopped \in Submitted
    /\ stopped # NoRun /\ stopped = Latest => Latest \in fence
    /\ op.at \in {"fenced", "signalled"} => fence = Submitted

\* The parts of TypeOK.
RuntimeTyped ==
    /\ history \in Seq(Events) /\ Len(history) <= MaxEvents
    /\ queue \in Seq(Requests)
    /\ turn \in Requests \cup {NoRun} /\ aborting \in BOOLEAN
    /\ asking \in 0..Len(history) /\ replied \in BOOLEAN
TeamTyped ==
    /\ runs \in Seq(Requests)
    /\ status \in [Requests -> Statuses]
    /\ floor \in [Requests -> 0..MaxEvents]
    /\ fence \subseteq Requests
Records(n) == [how : {"open", "answered", "superseded", "outlived"},
               run : Requests \cup {NoRun}, end : 0..n]
LedgerTyped ==
    /\ seen \in 0..Len(history)
    /\ audit \in [1..MaxEvents -> Records(Len(history))]
    /\ cards \subseteq {c \in 1..Len(history) : history[c].kind \in Checkpoints}
    /\ archived \in BOOLEAN
Ops(n) == [at : {"idle", "appended", "reads", "listed", "waits", "suspended",
                 "fenced", "signalled"},
           req : Requests \cup {NoRun},
           upto : 0..n, ran : BOOLEAN, end : 0..n, held : SUBSET (1..n)]
OpTyped == op \in Ops(Len(history))

IInv == TypeOK /\ AskingInv /\ SubmittedInv /\ GhostInv /\ PromptInv /\ StopInv

\* TypeOK, before a step and after it, is the sum of its parts.
LEMMA TypeParts ==
    /\ TypeOK <=> RuntimeTyped /\ TeamTyped /\ LedgerTyped /\ OpTyped
    /\ TypeOK' <=> RuntimeTyped' /\ TeamTyped' /\ LedgerTyped' /\ OpTyped'
  BY DEF TypeOK, RuntimeTyped, TeamTyped, LedgerTyped, OpTyped, Ops, Records

-----------------------------------------------------------------------------
(* What the helpers return.                                                  *)

\* A set of positive numbers up to n has a largest element.
LEMMA MaxIn ==
    ASSUME NEW n \in Nat, NEW S \in SUBSET (1..n), S # {}
    PROVE  Max(S) \in S
<1> DEFINE R == OpToRel(<, Nat)
           T == {n - k : k \in S}
<1>1. T \subseteq Nat /\ T # {}
  <2> HIDE DEF R
  <2>1. \A k \in S : k \in 1..n /\ n - k \in Nat
    OBVIOUS
  <2>2. PICK k \in S : TRUE
    OBVIOUS
  <2>3. n - k \in T
    BY <2>2
  <2> QED BY <2>1, <2>3
<1>2. PICK t \in T : \A y \in T : ~(<<y, t>> \in R)
  <2>1. IsWellFoundedOn(R, Nat)
    BY NatLessThanWellFounded
  <2> HIDE DEF R, T
  <2> QED BY <1>1, <2>1, WFMin
<1>3. \A y \in T : ~ (y < t)
  BY <1>1, <1>2 DEF OpToRel
<1>4. PICK m \in S : t = n - m
  OBVIOUS
<1>5. \A k \in S : m >= k
  BY <1>3, <1>4
<1> QED BY <1>5 DEF Max

\* A run that is appended becomes the latest and joins the others.
LEMMA AppendedFacts ==
    ASSUME NEW s \in Seq(Requests), NEW r \in Requests
    PROVE  /\ Append(s, r) \in Seq(Requests)
           /\ ToSet(Append(s, r)) = ToSet(s) \cup {r}
           /\ Last(Append(s, r)) = r /\ Append(s, r) # <<>>
<1> DEFINE t == Append(s, r)
<1>1. /\ t \in Seq(Requests) /\ Len(t) = Len(s) + 1 /\ Len(s) \in Nat
      /\ t[Len(s) + 1] = r /\ \A i \in 1..Len(s) : t[i] = s[i]
      /\ DOMAIN s = 1..Len(s) /\ DOMAIN t = 1..(Len(s) + 1)
  OBVIOUS
<1>2. t # <<>> /\ Last(t) = r
  BY <1>1 DEF Last
<1>3. ASSUME NEW x PROVE x \in ToSet(t) <=> x \in ToSet(s) \cup {r}
  <2> HIDE DEF t
  <2>1. ASSUME x \in ToSet(t) PROVE x \in ToSet(s) \cup {r}
    BY <1>1, <2>1 DEF ToSet
  <2>2. ASSUME x \in ToSet(s) PROVE x \in ToSet(t)
    <3>1. PICK i \in 1..Len(s) : x = s[i]
      BY <1>1, <2>2 DEF ToSet
    <3>2. i \in 1..(Len(s) + 1) /\ t[i] = x
      BY <1>1, <3>1
    <3> QED BY <1>1, <3>2 DEF ToSet
  <2>3. r \in ToSet(t)
    <3>1. Len(s) + 1 \in 1..(Len(s) + 1)
      BY <1>1
    <3> QED BY <1>1, <3>1 DEF ToSet
  <2> QED BY <2>1, <2>2, <2>3
<1> QED BY <1>1, <1>2, <1>3

\* The latest run is one that was submitted.
LEMMA LatestFacts ==
    ASSUME runs \in Seq(Requests)
    PROVE  /\ Submitted \subseteq Requests
           /\ Latest # NoRun <=> Submitted # {}
           /\ Latest # NoRun => Latest \in Submitted
           /\ Latest \in Requests \cup {NoRun}
<1>1. Submitted \subseteq Requests /\ NoRun \notin Requests
  <2>1. Submitted \subseteq Requests
    BY DEF Submitted, ToSet
  <2>2. NoRun \notin Requests
    BY DEF Requests, NoRun
  <2> QED BY <2>1, <2>2
<1>2. CASE runs = <<>>
  BY <1>2 DEF Submitted, Latest, ToSet
<1>3. CASE runs # <<>>
  <2>1. Len(runs) \in DOMAIN runs
    BY <1>3
  <2>2. Latest \in Submitted
    BY <1>3, <2>1 DEF Submitted, Latest, ToSet, Last
  <2> QED BY <1>1, <2>2
<1> QED BY <1>2, <1>3

\* A checkpoint stems from a checkpoint that is on record.
LEMMA OriginFacts ==
    ASSUME IInv, NEW c \in 1..Len(history), NEW n \in 0..Len(history)
    PROVE  /\ Origin(c, n) \in 0..n
           /\ Origin(c, n) # 0 => history[Origin(c, n)].run \in Requests
           /\ Owner(c, n) \in Requests \cup {NoRun}
<1> DEFINE found == Candidates(c, n)
<1>1. Len(history) \in Nat /\ \A i \in 1..Len(history) : history[i] \in Events
  BY DEF IInv, TypeOK
<1>2. Origin(c, n) = IF found = {} THEN 0 ELSE Max(found)
  BY DEF Origin
<1>3. found # {} => Max(found) \in 1..n
  <2>1. found \in SUBSET (1..n) /\ n \in Nat
    BY <1>1 DEF Candidates
  <2> HIDE DEF found
  <2> QED BY <2>1, MaxIn
<1>4. Origin(c, n) \in 0..n
  <2> HIDE DEF found
  <2> QED BY <1>1, <1>2, <1>3
<1>5. Origin(c, n) # 0 => history[Origin(c, n)].run \in Requests
  BY <1>1, <1>4 DEF Events
<1>6. Latest \in Requests \cup {NoRun}
  BY LatestFacts DEF IInv, TypeOK
<1> QED BY <1>4, <1>5, <1>6 DEF Owner

\* What the ledger says of an outlived checkpoint.
LEMMA OutlivedFacts ==
    ASSUME IInv, NEW c \in 1..Len(history), NEW n \in 0..Len(history), Outlived(c, n)
    PROVE  /\ OutlivedOf(c, n) \in Records(Len(history))
           /\ OutlivedOf(c, n).end \in 1..Len(history)
<1> DEFINE o == Origin(c, n)
           ends == EventsOf(Owner(c, n), Terminals, n)
<1>1. Len(history) \in Nat /\ MaxEvents \in Nat /\ Len(history) <= MaxEvents
  BY AgentTurnsAssumption DEF IInv, TypeOK
<1>2. o \in 0..n /\ o # 0 /\ Owner(c, n) \in Requests \cup {NoRun}
  BY OriginFacts DEF Outlived
<1>3. Owner(c, n) = history[o].run
  BY <1>2 DEF Owner
<1>4. ends # {} /\ ends \in SUBSET (1..n)
  BY <1>1, <1>2, <1>3 DEF Outlived, EventsOf
<1>5. Max(ends) \in ends
  <2>1. n \in Nat
    BY <1>1
  <2> HIDE DEF ends
  <2> QED BY <1>4, <2>1, MaxIn
<1>6. Max(ends) \in 1..Len(history) /\ Max(ends) \in 0..MaxEvents
  <2>1. \A m \in 1..n : m \in 1..Len(history) /\ m \in 0..MaxEvents
    BY <1>1
  <2> HIDE DEF ends
  <2> QED BY <1>4, <1>5, <2>1
<1> QED BY <1>2, <1>6 DEF OutlivedOf, Records

\* Retiring keeps the ledger's form and adds no checkpoint to the hub.
LEMMA RetiresFacts ==
    ASSUME IInv, NEW n \in 0..Len(history), Retires(n)
    PROVE  /\ audit' \in [1..MaxEvents -> Records(Len(history))]
           /\ cards' \subseteq cards
<1>1. cards \subseteq 1..Len(history) /\ audit \in [1..MaxEvents -> Records(Len(history))]
  BY DEF IInv, TypeOK, Records
<1>2. /\ cards' = cards \ Outlasted(n)
      /\ audit' = [c \in DOMAIN audit |->
                      IF c \in Outlasted(n) /\ audit[c] = Open
                      THEN OutlivedOf(c, n) ELSE audit[c]]
  BY DEF Retires, Retire
<1>3. \A c \in Outlasted(n) : OutlivedOf(c, n) \in Records(Len(history))
  BY <1>1, OutlivedFacts DEF Outlasted
<1> QED BY <1>1, <1>2, <1>3

\* What a refresh makes of the runs are statuses, and a cancellation it finds
\* stays one.
LEMMA SettledFacts ==
    ASSUME IInv, NEW n \in 0..Len(history), NEW degraded \in BOOLEAN
    PROVE  /\ Settled(n, degraded) \in [Requests -> Statuses]
           /\ \A r \in Requests \ Submitted : Settled(n, degraded)[r] = "none"
           /\ \A r \in Submitted :
                 /\ status[r] = "cancelled" => Settled(n, degraded)[r] = "cancelled"
                 /\ status[r] = "cancel_requested" =>
                       Settled(n, degraded)[r] \in {"cancel_requested", "cancelled"}
<1>1. Submitted \subseteq Requests /\ status \in [Requests -> Statuses]
  BY LatestFacts DEF IInv, TypeOK
<1>2. ASSUME NEW r \in Requests, NEW quiet \in BOOLEAN
      PROVE  /\ Converged(r, quiet, degraded) \in Statuses
             /\ status[r] = "cancelled" => Converged(r, quiet, degraded) = "cancelled"
             /\ status[r] = "cancel_requested" =>
                   Converged(r, quiet, degraded) \in {"cancel_requested", "cancelled"}
  BY <1>1 DEF Converged, Statuses
<1>3. ASSUME NEW was \in Statuses, NEW waiting \in BOOLEAN, NEW running \in BOOLEAN
      PROVE  /\ LatestSettled(was, waiting, running, n, degraded) \in Statuses
             /\ was \in {"cancel_requested", "cancelled"} =>
                   LatestSettled(was, waiting, running, n, degraded) = was
  BY DEF LatestSettled, Outcome, Statuses, Active
<1>4. ASSUME NEW r \in Requests, NEW was \in Statuses
      PROVE  /\ OlderSettled(r, was, n) \in Statuses
             /\ was \in {"cancel_requested", "cancelled"} => OlderSettled(r, was, n) = was
  BY DEF OlderSettled, Statuses, Active
<1> DEFINE waiting == cards \ Outlasted(n) # {}
           running == op.ran /\ ~waiting
           quiet == ~op.ran /\ ~waiting
           new(r) == LET was == Converged(r, quiet, degraded)
                     IN  IF r \notin Submitted THEN "none"
                         ELSE IF r = Latest THEN LatestSettled(was, waiting, running, n, degraded)
                         ELSE OlderSettled(r, was, n)
<1>5. Settled(n, degraded) = [r \in Requests |-> new(r)]
  BY DEF Settled
<1>6. ASSUME NEW r \in Requests
      PROVE  /\ new(r) \in Statuses
             /\ r \notin Submitted => new(r) = "none"
             /\ r \in Submitted /\ status[r] = "cancelled" => new(r) = "cancelled"
             /\ r \in Submitted /\ status[r] = "cancel_requested" =>
                   new(r) \in {"cancel_requested", "cancelled"}
  <2>1. waiting \in BOOLEAN /\ running \in BOOLEAN /\ quiet \in BOOLEAN
    OBVIOUS
  <2>2. "none" \in Statuses
    BY DEF Statuses
  <2> HIDE DEF waiting, running, quiet
  <2> QED BY <1>2, <1>3, <1>4, <2>1, <2>2
<1> HIDE DEF new
<1> QED BY <1>1, <1>5, <1>6

-----------------------------------------------------------------------------
(* Each action keeps the invariant.                                          *)

\* Nothing was submitted and nothing has happened at first.
LEMMA InitStep == Init => IInv
<1> SUFFICES ASSUME Init PROVE IInv
  OBVIOUS
<1>0. MaxEvents \in Nat /\ MaxRequests \in Nat
  BY AgentTurnsAssumption
<1>1. Submitted = {} /\ Latest = NoRun
  BY DEF Init, Submitted, Latest, ToSet
<1>2. RuntimeTyped /\ TeamTyped
  <2>1. RuntimeTyped
    <3>1. history \in Seq(Events) /\ queue \in Seq(Requests) /\ Len(history) = 0
      BY DEF Init
    <3>2. aborting \in BOOLEAN
      BY Zenon DEF Init
    <3>3. turn \in {NoRun} /\ asking = 0 /\ replied \in BOOLEAN
      BY DEF Init
    <3> QED BY <1>0, <3>1, <3>2, <3>3 DEF RuntimeTyped
  <2>2. "none" \in Statuses /\ 0 \in 0..MaxEvents
    BY <1>0 DEF Statuses
  <2>3. TeamTyped
    BY <2>2 DEF Init, TeamTyped
  <2> QED BY <2>1, <2>3
<1>3. LedgerTyped
  <2>1. Open \in Records(Len(history))
    BY DEF Init, Open, Resolved, Records
  <2>2. seen \in 0..Len(history)
    BY DEF Init
  <2> QED BY <2>1, <2>2 DEF Init, LedgerTyped
<1>4. OpTyped
  BY DEF Init, OpTyped, Ops, Idle
<1>5. AskingInv /\ SubmittedInv /\ GhostInv
  BY <1>1 DEF Init, AskingInv, SubmittedInv, GhostInv, ToSet
<1>6. PromptInv /\ StopInv
  BY <1>1 DEF Init, PromptInv, PromptedOnce, StopInv, Idle
<1> QED BY <1>2, <1>3, <1>4, <1>5, <1>6, TypeParts DEF IInv

\* The steps of the runtime: the history grows by an event of a submitted run.
LEMMA RuntimeStep ==
    ASSUME IInv, Runtime
    PROVE  IInv'
<1>1. /\ UNCHANGED <<teamVars, ledgerVars, op, ghostVars>>
      /\ RuntimeTyped /\ TeamTyped /\ LedgerTyped /\ OpTyped
  BY TypeParts DEF Runtime, TurnStarts, TurnAsks, ToolReturns, TurnContinues, TurnEnds,
                   HostStays, IInv
<1>2. Submitted' = Submitted /\ Latest' = Latest /\ Submitted \subseteq Requests
  BY <1>1, LatestFacts DEF Submitted, Latest, teamVars, TeamTyped
<1>3. GhostInv' /\ PromptInv' /\ StopInv'
  BY <1>1, <1>2 DEF IInv, GhostInv, PromptInv, PromptedOnce, StopInv, teamVars, ghostVars
<1> DEFINE Grown == /\ history' \in Seq(Events) /\ Len(history') \in Nat
                    /\ Len(history) <= Len(history') /\ Len(history') <= MaxEvents
                    /\ \A i \in 1..Len(history) : history'[i] = history[i]
                    /\ \A i \in 1..Len(history') : history'[i].run \in Submitted
           Worked == /\ queue' \in Seq(Requests) /\ ToSet(queue') \subseteq Submitted
                     /\ turn' \in Submitted \cup {NoRun} /\ aborting' \in BOOLEAN
                     /\ asking' \in 0..Len(history')
                     /\ replied' \in BOOLEAN
                     /\ asking' # 0 => /\ asking' = Len(history')
                                       /\ history'[asking'].kind \in Checkpoints
                                       /\ turn' # NoRun /\ history'[asking'].run = turn'
                     /\ replied' => asking' # 0
<1>4. ASSUME history' = history PROVE Grown
  BY <1>1, <1>4 DEF IInv, SubmittedInv, RuntimeTyped
<1>5. ASSUME NEW kind \in Terminals \cup Checkpoints \cup {"result"}, turn # NoRun,
             Happens(kind, turn), Len(history) < MaxEvents
      PROVE  /\ Grown /\ Len(history') = Len(history) + 1
             /\ history'[Len(history')].kind = kind /\ history'[Len(history')].run = turn
  <2>1. turn \in Submitted /\ turn \in Requests
    BY <1>2, <1>5 DEF IInv, SubmittedInv
  <2>2. [kind |-> kind, run |-> turn] \in Events
    BY <1>5, <2>1 DEF Events
  <2>3. Len(history) < MaxEvents /\ MaxEvents \in Nat
    BY <1>1, <1>5, AgentTurnsAssumption DEF RuntimeTyped
  <2>4. \A i \in 1..Len(history) : history[i].run \in Submitted
    BY <1>1 DEF IInv, SubmittedInv, RuntimeTyped
  <2> DEFINE e == [kind |-> kind, run |-> turn]
  <2>5. e.run = turn /\ e.kind = kind /\ e \in Events
    BY <2>2
  <2>6. history' = Append(history, e)
    BY <1>5 DEF Happens
  <2> HIDE DEF e
  <2>7. /\ history' \in Seq(Events) /\ Len(history') = Len(history) + 1
        /\ \A i \in 1..Len(history) : history'[i] = history[i]
        /\ history'[Len(history) + 1] = e
    BY <1>1, <2>5, <2>6 DEF RuntimeTyped
  <2> QED BY <1>1, <2>1, <2>3, <2>4, <2>5, <2>7 DEF RuntimeTyped
<1>6. ASSUME TurnStarts PROVE Grown /\ Worked
  <2>1. /\ turn' = Head(queue) /\ queue' = Tail(queue) /\ queue # <<>>
        /\ UNCHANGED <<history, aborting, asking, replied>> /\ turn = NoRun
    BY <1>6 DEF TurnStarts
  <2>2. /\ Head(queue) \in Submitted /\ ToSet(Tail(queue)) \subseteq Submitted
        /\ Tail(queue) \in Seq(Requests)
    <3>1. ToSet(queue) \subseteq Submitted /\ queue \in Seq(Requests)
      BY <1>1 DEF IInv, SubmittedInv, RuntimeTyped
    <3>2. 1 \in DOMAIN queue /\ Head(queue) = queue[1]
      BY <2>1, <3>1
    <3>3. \A i \in DOMAIN Tail(queue) : i + 1 \in DOMAIN queue /\ Tail(queue)[i] = queue[i + 1]
      BY <2>1, <3>1
    <3>4. Tail(queue) \in Seq(Requests)
      BY <2>1, <3>1
    <3> QED BY <3>1, <3>2, <3>3, <3>4 DEF ToSet
  <2> QED BY <1>1, <1>4, <2>1, <2>2 DEF IInv, AskingInv, RuntimeTyped
<1>7. ASSUME NEW kind \in Checkpoints, TurnAsks(kind) PROVE Grown /\ Worked
  <2>1. /\ turn # NoRun /\ Happens(kind, turn) /\ Len(history) < MaxEvents /\ asking = 0
        /\ asking' = Len(history) + 1 /\ UNCHANGED <<queue, turn, aborting, replied>>
    BY <1>7 DEF TurnAsks, Room
  <2>2. /\ Grown /\ Len(history') = Len(history) + 1
        /\ history'[Len(history')].kind = kind /\ history'[Len(history')].run = turn
    BY <1>5, <2>1
  <2> HIDE DEF Grown
  <2>3. Len(history) \in Nat /\ turn \in Submitted
    BY <1>1, <2>1 DEF IInv, SubmittedInv, RuntimeTyped
  <2> QED BY <1>1, <2>1, <2>2, <2>3 DEF IInv, AskingInv, SubmittedInv, RuntimeTyped
<1>8. ASSUME \/ ToolReturns
             \/ \E kind \in Terminals : TurnEnds(kind)
      PROVE  Grown /\ Worked
  <2>1. \E kind \in Terminals \cup {"result"} :
           /\ turn # NoRun /\ Happens(kind, turn) /\ Len(history) < MaxEvents
    BY <1>8 DEF ToolReturns, TurnEnds, Room, IInv, AskingInv
  <2>2. /\ turn' \in {turn, NoRun} /\ asking' = 0 /\ ~replied' /\ replied' \in BOOLEAN
        /\ aborting' \in {aborting, FALSE} /\ queue' = queue
    BY <1>8, Zenon DEF ToolReturns, TurnEnds
  <2>3. Grown
    BY <1>5, <2>1
  <2>4. Len(history') \in Nat
    BY <2>3
  <2> HIDE DEF Grown
  <2>5. queue' \in Seq(Requests) /\ ToSet(queue') \subseteq Submitted
    BY <1>1, <2>2 DEF IInv, SubmittedInv, RuntimeTyped
  <2>6. turn' \in Submitted \cup {NoRun} /\ aborting' \in BOOLEAN
    BY <1>1, <2>2 DEF IInv, SubmittedInv, RuntimeTyped
  <2>7. asking' \in 0..Len(history')
    BY <2>2, <2>4
  <2> QED BY <2>2, <2>3, <2>5, <2>6, <2>7
<1>9. ASSUME TurnContinues PROVE Grown /\ Worked
  <2>1. /\ turn' = history[Len(history)].run /\ history # <<>>
        /\ UNCHANGED <<history, queue, aborting, asking, replied>> /\ turn = NoRun
    BY <1>9 DEF TurnContinues, Last
  <2>2. Len(history) \in 1..Len(history) /\ DOMAIN history = 1..Len(history)
    BY <1>1, <2>1 DEF RuntimeTyped
  <2>3. history[Len(history)].run \in Submitted
    BY <2>2 DEF IInv, SubmittedInv
  <2> QED BY <1>1, <1>4, <2>1, <2>3 DEF IInv, AskingInv, SubmittedInv, RuntimeTyped
<1>10. Grown /\ Worked
  <2> HIDE DEF Grown, Worked
  <2> QED BY <1>6, <1>7, <1>8, <1>9 DEF Runtime
<1>11. RuntimeTyped' /\ AskingInv' /\ SubmittedInv'
  BY <1>2, <1>10 DEF RuntimeTyped, AskingInv, SubmittedInv
<1>12. TeamTyped'
  BY <1>1 DEF TeamTyped, teamVars
<1>13. LedgerTyped'
  <2>1. UNCHANGED <<seen, audit, cards, archived>>
    BY <1>1 DEF ledgerVars
  <2>2. Len(history) \in Nat /\ seen \in 0..Len(history')
    BY <1>1, <1>10 DEF LedgerTyped, RuntimeTyped
  <2>3. ASSUME NEW c \in cards PROVE c \in 1..Len(history') /\ history'[c].kind \in Checkpoints
    BY <1>1, <1>10, <2>2 DEF LedgerTyped
  <2>4. audit' \in [1..MaxEvents -> Records(Len(history'))]
    <3>1. Len(history') \in Nat /\ Len(history) <= Len(history')
      BY <1>10
    <3>2. 0..Len(history) \subseteq 0..Len(history')
      BY <2>2, <3>1
    <3>3. Records(Len(history)) \subseteq Records(Len(history'))
      BY <3>2 DEF Records
    <3> QED BY <1>1, <2>1, <3>3 DEF LedgerTyped
  <2> QED BY <1>1, <2>1, <2>2, <2>3, <2>4 DEF LedgerTyped
<1>14. OpTyped'
  <2>1. Len(history) \in Nat /\ Len(history') \in Nat /\ Len(history) <= Len(history')
    BY <1>1, <1>10 DEF RuntimeTyped
  <2>2. 0..Len(history) \subseteq 0..Len(history') /\ 1..Len(history) \subseteq 1..Len(history')
    BY <2>1
  <2>3. Ops(Len(history)) \subseteq Ops(Len(history'))
    BY <2>2 DEF Ops
  <2> QED BY <1>1, <2>3 DEF OpTyped
<1> QED BY <1>3, <1>11, <1>12, <1>13, <1>14, TypeParts DEF IInv

\* What the host sees of its own state: the runs and their latest.
LEMMA BasicFacts ==
    ASSUME IInv
    PROVE  /\ RuntimeTyped /\ TeamTyped /\ LedgerTyped /\ OpTyped
           /\ Len(history) \in Nat /\ MaxEvents \in Nat
           /\ Submitted \subseteq Requests
           /\ Latest # NoRun => Latest \in Submitted
           /\ Submitted # {} => Latest \in Submitted
<1>1. RuntimeTyped /\ TeamTyped /\ LedgerTyped /\ OpTyped
  BY TypeParts DEF IInv
<1> QED BY <1>1, LatestFacts, AgentTurnsAssumption DEF RuntimeTyped, TeamTyped

\* The record of the handler at work, as the actions write it.
LEMMA OpFacts ==
    ASSUME NEW n \in Nat,
           NEW o \in Ops(n),
           NEW a \in {"idle", "appended", "reads", "listed", "waits", "suspended",
                      "fenced", "signalled"}
    PROVE  /\ Idle \in Ops(n)
           /\ [o EXCEPT !.at = a] \in Ops(n)
           /\ \A q \in Requests \cup {NoRun} :
                 /\ [o EXCEPT !.at = a, !.req = q] \in Ops(n)
                 /\ \A h \in SUBSET (1..n) :
                       /\ [o EXCEPT !.at = a, !.req = q, !.held = h] \in Ops(n)
                       /\ \A u \in 0..n :
                             [o EXCEPT !.at = a, !.req = q, !.end = u, !.held = h] \in Ops(n)
           /\ \A u \in 0..n : [o EXCEPT !.at = a, !.upto = u] \in Ops(n)
           /\ \A x \in BOOLEAN : [o EXCEPT !.at = a, !.ran = x] \in Ops(n)
<1>1. Idle \in Ops(n)
  BY DEF Idle, Ops
<1>2. [o EXCEPT !.at = a] \in Ops(n)
  BY DEF Ops
<1>3. ASSUME NEW q \in Requests \cup {NoRun}
      PROVE  [o EXCEPT !.at = a, !.req = q] \in Ops(n)
  BY DEF Ops
<1>4. ASSUME NEW u \in 0..n
      PROVE  [o EXCEPT !.at = a, !.upto = u] \in Ops(n)
  BY DEF Ops
<1>5. ASSUME NEW x \in BOOLEAN
      PROVE  [o EXCEPT !.at = a, !.ran = x] \in Ops(n)
  BY DEF Ops
<1>6. ASSUME NEW q \in Requests \cup {NoRun}, NEW h \in SUBSET (1..n)
      PROVE  [o EXCEPT !.at = a, !.req = q, !.held = h] \in Ops(n)
  BY DEF Ops
<1>7. ASSUME NEW q \in Requests \cup {NoRun}, NEW h \in SUBSET (1..n), NEW u \in 0..n
      PROVE  [o EXCEPT !.at = a, !.req = q, !.end = u, !.held = h] \in Ops(n)
  BY DEF Ops
<1> QED BY <1>1, <1>2, <1>3, <1>4, <1>5, <1>6, <1>7

\* Handlers that leave the history alone keep what is said about it.
LEMMA HostFacts ==
    ASSUME IInv, UNCHANGED <<history, turn>>,
           queue' \in Seq(Requests) /\ ToSet(queue') \subseteq Submitted',
           Submitted \subseteq Submitted',
           aborting' \in BOOLEAN, asking' = asking, replied' = replied
    PROVE  RuntimeTyped' /\ AskingInv' /\ SubmittedInv'
<1>1. RuntimeTyped /\ AskingInv /\ SubmittedInv /\ Len(history) \in Nat
  BY BasicFacts DEF IInv
<1>2. asking' \in 0..Len(history)
  BY <1>1 DEF RuntimeTyped
<1> QED BY <1>1, <1>2 DEF RuntimeTyped, AskingInv, SubmittedInv

\* The event hub changes its own cards only.
LEMMA HubStep ==
    ASSUME IInv, HubHears \/ HubForgets
    PROVE  IInv'
<1>1. /\ UNCHANGED <<runtimeVars, teamVars, seen, audit, archived, op, ghostVars>>
      /\ cards' \subseteq cards \cup {asking} /\ (cards' \subseteq cards \/ asking # 0)
  BY DEF HubHears, HubForgets, Waiting
<1>2. /\ RuntimeTyped /\ TeamTyped /\ LedgerTyped /\ OpTyped /\ Len(history) \in Nat
      /\ AskingInv
  BY BasicFacts DEF IInv
<1>3. LedgerTyped'
  <2>1. asking # 0 => asking \in 1..Len(history) /\ history[asking].kind \in Checkpoints
    BY <1>2 DEF RuntimeTyped, AskingInv
  <2> QED BY <1>1, <1>2, <2>1 DEF LedgerTyped, runtimeVars
<1>4. RuntimeTyped' /\ TeamTyped' /\ OpTyped'
  BY <1>1, <1>2 DEF RuntimeTyped, TeamTyped, OpTyped, runtimeVars, teamVars
<1>5. AskingInv' /\ SubmittedInv' /\ GhostInv' /\ PromptInv' /\ StopInv'
  BY <1>1 DEF IInv, AskingInv, SubmittedInv, GhostInv, PromptInv, PromptedOnce, StopInv,
              Submitted, Latest, runtimeVars, teamVars, ghostVars
<1> QED BY <1>3, <1>4, <1>5, TypeParts DEF IInv

\* A run is appended once, as the latest.
LEMMA SubmitAppendsStep ==
    ASSUME IInv, NEW r \in Requests, SubmitAppends(r)
    PROVE  IInv'
<1>1. /\ r \notin Submitted /\ op.at \in {"idle", "suspended"}
      /\ runs' = Append(runs, r) /\ status' = [status EXCEPT ![r] = "queued"]
      /\ floor' = [floor EXCEPT ![r] = Len(history)]
      /\ op' = [Idle EXCEPT !.at = "appended", !.req = r]
      /\ UNCHANGED <<runtimeVars, fence, ledgerVars, ghostVars>>
  BY DEF SubmitAppends, IsNew, IInv, PromptInv
<1>2. /\ RuntimeTyped /\ TeamTyped /\ LedgerTyped /\ OpTyped
      /\ Len(history) \in Nat /\ Submitted \subseteq Requests
  BY BasicFacts
<1>3. runs' \in Seq(Requests) /\ Submitted' = Submitted \cup {r} /\ Latest' = r
  BY <1>1, <1>2, AppendedFacts DEF TeamTyped, Submitted, Latest
<1>4. op' \in Ops(Len(history)) /\ op'.at = "appended" /\ op'.req = r
  <2>1. Idle \in Ops(Len(history))
    BY <1>2 DEF Idle, Ops
  <2>2. op' \in Ops(Len(history))
    BY <1>1, <1>2, <2>1, OpFacts
  <2> QED BY <1>1, <2>2 DEF Idle
<1>5. RuntimeTyped' /\ AskingInv' /\ SubmittedInv'
  BY <1>1, <1>2, <1>3, HostFacts DEF runtimeVars, RuntimeTyped, IInv, SubmittedInv
<1>6. TeamTyped'
  <2>1. "queued" \in Statuses /\ Len(history) \in 0..MaxEvents
    BY <1>2, AgentTurnsAssumption DEF Statuses, Active, RuntimeTyped
  <2> QED BY <1>1, <1>2, <1>3, <2>1 DEF TeamTyped
<1>7. LedgerTyped' /\ OpTyped'
  BY <1>1, <1>2, <1>4 DEF LedgerTyped, OpTyped, ledgerVars, runtimeVars
<1>8. GhostInv'
  BY <1>1 DEF IInv, GhostInv, ghostVars
<1>9. PromptInv'
  <2>1. PromptedOnce'
    <3>1. \A i, j \in DOMAIN runs' : runs'[i] = runs'[j] => i = j
      <4>1. /\ DOMAIN runs = 1..Len(runs) /\ DOMAIN runs' = 1..(Len(runs) + 1)
            /\ Len(runs) \in Nat /\ runs'[Len(runs) + 1] = r
            /\ \A i \in 1..Len(runs) : runs'[i] = runs[i]
        BY <1>1, <1>2 DEF TeamTyped
      <4>2. \A i \in 1..Len(runs) : runs[i] # r
        BY <1>1, <4>1 DEF Submitted, ToSet
      <4>3. \A i, j \in 1..Len(runs) : runs[i] = runs[j] => i = j
        BY <4>1 DEF IInv, PromptInv, PromptedOnce
      <4>4. \A i \in DOMAIN runs' : i \in 1..Len(runs) \/ i = Len(runs) + 1
        BY <4>1
      <4> QED BY <4>1, <4>2, <4>3, <4>4
    <3>2. delivered' = delivered
      BY <1>1 DEF ghostVars
    <3> QED BY <3>1, <3>2 DEF IInv, PromptInv, PromptedOnce
  <2>2. delivered' = delivered /\ delivered[r] = 0 /\ status'[r] = "queued"
    BY <1>1, <1>2 DEF IInv, PromptInv, TeamTyped, ghostVars
  <2>3. \A s \in Requests \ Submitted' : delivered'[s] = 0 /\ status'[s] = "none"
    BY <1>1, <1>2, <1>3, <2>2 DEF IInv, PromptInv, TeamTyped
  <2> QED BY <1>3, <1>4, <2>1, <2>2, <2>3 DEF PromptInv
<1>10. StopInv'
  BY <1>1, <1>3, <1>4 DEF IInv, StopInv, ghostVars
<1> QED BY <1>5, <1>6, <1>7, <1>8, <1>9, <1>10, TypeParts DEF IInv

\* The run that was just appended is prompted.
LEMMA SubmitPromptsStep ==
    ASSUME IInv, SubmitPrompts
    PROVE  IInv'
<1> DEFINE r == op.req
<1>1. /\ op.at = "appended" /\ op' = Idle /\ UNCHANGED <<runs, floor, fence, ledgerVars>>
      /\ r \in Submitted /\ delivered[r] = 0 /\ status[r] = "queued"
      /\ UNCHANGED <<history, turn, aborting, asking, replied, dropped, stopped, spent>>
  BY DEF SubmitPrompts, Prompted, IInv, PromptInv, runtimeVars, ghostVars
<1>2. /\ RuntimeTyped /\ TeamTyped /\ LedgerTyped /\ OpTyped
      /\ Len(history) \in Nat /\ Submitted \subseteq Requests
  BY BasicFacts
<1>3. \/ queue' = queue /\ delivered' = delivered
      \/ queue' = Append(queue, r) /\ delivered' = [delivered EXCEPT ![r] = @ + 1]
  BY DEF SubmitPrompts, Prompted, runtimeVars, ghostVars
<1>4. status' \in {status, [status EXCEPT ![r] = "failed"]}
  BY DEF SubmitPrompts
<1>5. Submitted' = Submitted /\ Latest' = Latest
  BY <1>1 DEF Submitted, Latest
<1>6. queue' \in Seq(Requests) /\ ToSet(queue') \subseteq Submitted
  <2>1. queue \in Seq(Requests) /\ ToSet(queue) \subseteq Submitted
    BY <1>2 DEF RuntimeTyped, IInv, SubmittedInv
  <2>2. r \in Requests
    BY <1>1, <1>2
  <2>3. /\ Append(queue, r) \in Seq(Requests)
        /\ ToSet(Append(queue, r)) = ToSet(queue) \cup {r}
    <3> HIDE DEF r
    <3> QED BY <2>1, <2>2, AppendedFacts
  <2> QED BY <1>1, <1>3, <2>1, <2>3
<1>7. RuntimeTyped' /\ AskingInv' /\ SubmittedInv'
  <2>1. aborting' \in BOOLEAN
    BY <1>1, <1>2 DEF RuntimeTyped
  <2> QED BY <1>1, <1>5, <1>6, <2>1, HostFacts
<1>8. TeamTyped'
  <2>1. "failed" \in Statuses
    BY DEF Statuses
  <2> QED BY <1>1, <1>2, <1>4, <2>1 DEF TeamTyped
<1>9. LedgerTyped'
  BY <1>1, <1>2 DEF LedgerTyped, ledgerVars
<1>10. OpTyped' /\ op'.at = "idle"
  BY <1>1, <1>2 DEF OpTyped, Ops, Idle
<1>11. GhostInv'
  BY <1>1, <1>3 DEF IInv, GhostInv
<1>12. PromptInv'
  <2>1. \A s \in Requests : delivered'[s] <= 1
    BY <1>1, <1>3 DEF IInv, PromptInv, PromptedOnce, GhostInv
  <2>2. \A s \in Requests \ Submitted' : delivered'[s] = 0 /\ status'[s] = "none"
    BY <1>1, <1>2, <1>3, <1>4, <1>5 DEF IInv, PromptInv, GhostInv, TeamTyped
  <2> QED BY <1>1, <1>10, <2>1, <2>2 DEF IInv, PromptInv, PromptedOnce
<1>13. StopInv'
  BY <1>1, <1>5, <1>10 DEF IInv, StopInv
<1> QED BY <1>7, <1>8, <1>9, <1>10, <1>11, <1>12, <1>13, TypeParts DEF IInv

\* Handlers that begin or end without touching what others see.
LEMMA QuietStep ==
    ASSUME IInv, UNCHANGED <<runtimeVars, teamVars, ledgerVars, delivered, dropped, stopped>>,
           spent' \in Nat, op' \in Ops(Len(history)),
           op'.at \in {"idle", "reads"}
    PROVE  IInv'
<1>1. /\ RuntimeTyped /\ TeamTyped /\ LedgerTyped /\ OpTyped
  BY BasicFacts
<1>2. RuntimeTyped' /\ TeamTyped' /\ LedgerTyped' /\ OpTyped'
  BY <1>1 DEF RuntimeTyped, TeamTyped, LedgerTyped, OpTyped, runtimeVars, teamVars, ledgerVars
<1>3. AskingInv' /\ SubmittedInv' /\ GhostInv' /\ PromptInv' /\ StopInv'
  BY DEF IInv, AskingInv, SubmittedInv, GhostInv, PromptInv, PromptedOnce, StopInv,
         Submitted, Latest, runtimeVars, teamVars
<1> QED BY <1>2, <1>3, TypeParts DEF IInv

\* A handler reads the history, gives up, or dies.
LEMMA ReadsStep ==
    ASSUME IInv, Reads \/ DiscussGivesUp \/ Crash
    PROVE  IInv'
<1>1. Len(history) \in Nat /\ spent \in Nat /\ Idle \in Ops(Len(history))
  BY BasicFacts DEF IInv, GhostInv, Idle, Ops
<1>2. CASE Reads
  <2>1. op' = [Idle EXCEPT !.at = "reads", !.upto = Len(history)]
    BY <1>2 DEF Reads
  <2>2. op' \in Ops(Len(history))
    <3>1. \A u \in 0..Len(history) : [Idle EXCEPT !.at = "reads", !.upto = u] \in Ops(Len(history))
      BY <1>1, OpFacts
    <3>2. Len(history) \in 0..Len(history)
      BY <1>1
    <3> QED BY <2>1, <3>1, <3>2
  <2>3. op'.at = "reads"
    BY <2>1 DEF Idle
  <2> QED BY <1>1, <1>2, <2>2, <2>3, QuietStep DEF Reads, ghostVars
<1>3. CASE DiscussGivesUp
  BY <1>1, <1>3, QuietStep DEF DiscussGivesUp, ghostVars, Idle
<1>4. CASE Crash
  <2>1. spent' \in Nat
    BY <1>1, <1>4 DEF Crash
  <2> QED BY <1>1, <1>4, <2>1, QuietStep DEF Crash, Idle
<1> QED BY <1>2, <1>3, <1>4

\* What was read is persisted, with what the runtime says of its session.
LEMMA ListsStep ==
    ASSUME IInv, Lists
    PROVE  IInv'
<1>1. /\ op' = [op EXCEPT !.at = "listed", !.ran = (turn # NoRun)] /\ seen' = op.upto
      /\ UNCHANGED <<runtimeVars, teamVars, audit, cards, archived, ghostVars>>
  BY DEF Lists
<1>2. /\ RuntimeTyped /\ TeamTyped /\ LedgerTyped /\ OpTyped /\ Len(history) \in Nat
  BY BasicFacts
<1>3. op' \in Ops(Len(history)) /\ op'.at = "listed" /\ op.upto \in 0..Len(history)
  <2>1. \A x \in BOOLEAN : [op EXCEPT !.at = "listed", !.ran = x] \in Ops(Len(history))
    BY <1>2, OpFacts DEF OpTyped
  <2> QED BY <1>1, <1>2, <2>1 DEF OpTyped, Ops
<1>4. RuntimeTyped' /\ TeamTyped' /\ LedgerTyped' /\ OpTyped'
  BY <1>1, <1>2, <1>3 DEF RuntimeTyped, TeamTyped, LedgerTyped, OpTyped, runtimeVars, teamVars
<1>5. AskingInv' /\ SubmittedInv' /\ GhostInv' /\ PromptInv' /\ StopInv'
  BY <1>1, <1>3 DEF IInv, AskingInv, SubmittedInv, GhostInv, PromptInv, PromptedOnce, StopInv,
                    Submitted, Latest, runtimeVars, teamVars, ghostVars
<1> QED BY <1>4, <1>5, TypeParts DEF IInv

\* A refresh, and an archiving that begins with one.
LEMMA SettlesStep ==
    ASSUME IInv, NEW degraded \in BOOLEAN, Settles(degraded), archived' \in BOOLEAN
    PROVE  IInv'
<1>1. /\ Retires(op.upto) /\ status' = Settled(op.upto, degraded) /\ op' = Idle
      /\ UNCHANGED <<runtimeVars, runs, floor, fence, seen, ghostVars>>
  BY DEF Settles
<1>2. /\ RuntimeTyped /\ TeamTyped /\ LedgerTyped /\ OpTyped /\ Len(history) \in Nat
  BY BasicFacts
<1>3. op.upto \in 0..Len(history)
  BY <1>2 DEF OpTyped, Ops
<1>4. LedgerTyped'
  <2>1. audit' \in [1..MaxEvents -> Records(Len(history))] /\ cards' \subseteq cards
    BY <1>1, <1>3, RetiresFacts
  <2> QED BY <1>1, <1>2, <1>3, <2>1 DEF LedgerTyped, runtimeVars
<1>5. RuntimeTyped' /\ AskingInv' /\ SubmittedInv' /\ Submitted' = Submitted /\ Latest' = Latest
  BY <1>1, <1>2 DEF IInv, RuntimeTyped, AskingInv, SubmittedInv, Submitted, Latest, runtimeVars
<1>6. TeamTyped'
  BY <1>1, <1>2, <1>3, SettledFacts DEF TeamTyped
<1>7. OpTyped' /\ op'.at = "idle"
  BY <1>1, <1>2 DEF OpTyped, Ops, Idle, runtimeVars
<1>8. GhostInv' /\ StopInv'
  BY <1>1, <1>5, <1>7 DEF IInv, GhostInv, StopInv, ghostVars
<1>9. PromptInv'
  <2>1. \A r \in Requests \ Submitted' : delivered'[r] = 0 /\ status'[r] = "none"
    BY <1>1, <1>3, <1>5, SettledFacts DEF IInv, PromptInv, ghostVars
  <2> QED BY <1>1, <1>7, <2>1 DEF IInv, PromptInv, PromptedOnce, ghostVars
<1> QED BY <1>4, <1>5, <1>6, <1>7, <1>8, <1>9, TypeParts DEF IInv

\* What a refresh or an archive settles keeps the invariant.
LEMMA RefreshStep ==
    ASSUME IInv, Refresh
    PROVE  IInv'
<1>1. PICK degraded \in BOOLEAN : RefreshSettles(degraded) \/ ArchiveSettles(degraded)
  BY DEF Refresh
<1>2. Settles(degraded)
  BY <1>1 DEF RefreshSettles, ArchiveSettles
<1>3. archived' \in BOOLEAN
  <2>1. archived \in BOOLEAN
    BY BasicFacts DEF LedgerTyped
  <2> QED BY <1>1, <2>1, Zenon DEF RefreshSettles, ArchiveSettles
<1> QED BY <1>2, <1>3, SettlesStep

\* The runtime accepts to stop the latest run.
LEMMA CancelledFacts ==
    ASSUME IInv, Cancelled, UNCHANGED runs
    PROVE  /\ RuntimeTyped' /\ AskingInv' /\ SubmittedInv' /\ GhostInv'
           /\ UNCHANGED <<history, turn, asking, replied, delivered, spent>> /\ stopped' = Latest
<1>1. UNCHANGED <<history, turn, asking, replied, delivered, spent>> /\ stopped' = Latest /\ queue' = <<>>
  BY DEF Cancelled
<1>2. Submitted' = Submitted /\ Latest \in Requests \cup {NoRun}
  BY BasicFacts DEF Submitted
<1>3. aborting' \in BOOLEAN
  BY Zenon DEF Cancelled
<1>4. queue' \in Seq(Requests) /\ ToSet(queue') \subseteq Submitted'
  BY <1>1 DEF ToSet
<1>5. RuntimeTyped' /\ AskingInv' /\ SubmittedInv'
  BY <1>1, <1>2, <1>3, <1>4, HostFacts
<1> QED BY <1>1, <1>2, <1>5 DEF IInv, GhostInv

\* A checkpoint that may be discussed belongs to the latest run, so there is one.
LEMMA DiscussableFacts ==
    ASSUME IInv, NEW c \in 1..Len(history)
    PROVE  Latest \in Submitted
<1>1. c \in DOMAIN history
  BY BasicFacts DEF RuntimeTyped
<1> QED BY <1>1, BasicFacts DEF IInv, SubmittedInv

\* A message about a checkpoint is refused, waits for the turn to stop, or for
\* nothing, when the turn was seen to have ended.
LEMMA DiscussFacts ==
    ASSUME NEW r, NEW c, DiscussSuspends(r, c)
    PROVE  \/ op' = Idle
           \/ op'.at = "waits" /\ op'.end = 0
           \/ /\ op'.at = "waits" /\ op'.held = cards'
              /\ ~op.ran /\ audit'[c].how = "outlived" /\ audit'[c].run = Latest
<1>1. CASE op' = [Idle EXCEPT !.at = "waits", !.req = r, !.held = cards']
  BY <1>1 DEF Idle
<1>2. CASE /\ Discussable(c) /\ ~Live(c)
           /\ op' = [Idle EXCEPT !.at = "waits", !.req = r, !.end = audit'[c].end, !.held = cards']
  <2>1. op'.at = "waits" /\ op'.held = cards'
    BY <1>2 DEF Idle
  <2>2. ~op.ran /\ audit'[c].how = "outlived" /\ audit'[c].run = Latest
    BY <1>2 DEF Discussable
  <2> QED BY <2>1, <2>2
<1> QED BY <1>1, <1>2 DEF DiscussSuspends

\* A message about a checkpoint fences the latest run before it is stopped.
LEMMA DiscussSuspendsStep ==
    ASSUME IInv, NEW r \in Requests, NEW c \in 1..Len(history), DiscussSuspends(r, c)
    PROVE  IInv'
<1>1. /\ r \notin Submitted /\ op.at = "listed" /\ Retires(op.upto)
      /\ UNCHANGED <<runs, status, floor, seen, archived>>
  BY DEF DiscussSuspends, IsNew
<1>2. /\ RuntimeTyped /\ TeamTyped /\ LedgerTyped /\ OpTyped /\ Len(history) \in Nat
      /\ Latest \in Submitted /\ Submitted \subseteq Requests
  BY BasicFacts, DiscussableFacts
<1>3. op.upto \in 0..Len(history) /\ op \in Ops(Len(history))
  BY <1>2 DEF OpTyped, Ops
<1>4. audit' \in [1..MaxEvents -> Records(Len(history))] /\ cards' \subseteq cards
  BY <1>1, <1>3, RetiresFacts
<1>5. cards' \in SUBSET (1..Len(history))
  BY <1>2, <1>4 DEF LedgerTyped
<1>6. Submitted' = Submitted /\ Latest' = Latest
  BY <1>1 DEF Submitted, Latest
<1>7. /\ \/ fence' = fence \/ fence' = {Latest}
      /\ \/ UNCHANGED <<runtimeVars, ghostVars>>
         \/ Cancelled /\ fence' = {Latest}
  BY DEF DiscussSuspends
<1>8. /\ RuntimeTyped' /\ AskingInv' /\ SubmittedInv' /\ GhostInv'
      /\ UNCHANGED <<history, delivered>>
      /\ stopped' = stopped \/ (stopped' = Latest /\ fence' = {Latest})
  <2>1. CASE UNCHANGED <<runtimeVars, ghostVars>>
    BY <1>2, <1>6, <2>1 DEF IInv, RuntimeTyped, AskingInv, SubmittedInv, GhostInv,
                            runtimeVars, ghostVars
  <2>2. CASE Cancelled /\ fence' = {Latest}
    BY <1>1, <2>2, CancelledFacts
  <2> QED BY <1>7, <2>1, <2>2
<1>9. TeamTyped' /\ LedgerTyped'
  <2>1. TeamTyped'
    BY <1>1, <1>2, <1>7 DEF TeamTyped
  <2> QED BY <1>1, <1>2, <1>3, <1>4, <1>8, <2>1 DEF LedgerTyped
<1>10. /\ op' \in Ops(Len(history)) /\ op'.at \in {"idle", "waits"}
       /\ op'.at = "waits" => op'.req = r
  <2>0. Idle \in Ops(Len(history))
    BY <1>2 DEF Idle, Ops
  <2>1. CASE op' = Idle
    BY <1>2, <2>1 DEF Idle, Ops
  <2>2. CASE op' = [Idle EXCEPT !.at = "waits", !.req = r, !.held = cards']
    <3>1. \A q \in Requests \cup {NoRun}, h \in SUBSET (1..Len(history)) :
             [Idle EXCEPT !.at = "waits", !.req = q, !.held = h] \in Ops(Len(history))
      BY <1>2, OpFacts, <2>0
    <3> QED BY <1>2, <1>5, <2>2, <3>1 DEF Ops, Idle
  <2>3. CASE /\ Discussable(c) /\ ~Live(c)
             /\ op' = [Idle EXCEPT !.at = "waits", !.req = r, !.end = audit'[c].end, !.held = cards']
    <3>1. audit'[c].end \in 0..Len(history)
      <4>1. c \in 1..MaxEvents
        BY <1>2, BasicFacts DEF RuntimeTyped
      <4>2. audit'[c] \in Records(Len(history))
        BY <1>4, <4>1
      <4> QED BY <4>2 DEF Records
    <3>2. \A q \in Requests \cup {NoRun}, h \in SUBSET (1..Len(history)), u \in 0..Len(history) :
             [Idle EXCEPT !.at = "waits", !.req = q, !.end = u, !.held = h] \in Ops(Len(history))
      BY <1>2, OpFacts, <2>0
    <3> QED BY <1>2, <1>5, <2>3, <3>1, <3>2 DEF Ops, Idle
  <2> QED BY <2>1, <2>2, <2>3 DEF DiscussSuspends
<1>11. OpTyped'
  BY <1>8, <1>10 DEF OpTyped
<1>12. PromptInv'
  BY <1>1, <1>6, <1>8, <1>10 DEF IInv, PromptInv, PromptedOnce
<1>13. StopInv'
  BY <1>1, <1>2, <1>6, <1>7, <1>8, <1>10 DEF IInv, StopInv
<1> QED BY <1>8, <1>9, <1>11, <1>12, <1>13, TypeParts DEF IInv

\* A discussed checkpoint is resolved, and its run with it.
LEMMA DiscussResolvesStep ==
    ASSUME IInv, DiscussResolves
    PROVE  IInv'
<1>1. /\ op.at = "waits" /\ op' = [Idle EXCEPT !.at = "suspended", !.req = op.req]
      /\ UNCHANGED <<runtimeVars, runs, floor, fence, seen, archived, ghostVars>>
      /\ status' = [r \in Requests |->
                       IF r \in Submitted /\ status[r] \in Active THEN Handoff ELSE status[r]]
      /\ Retire([c \in op.held |-> Resolved("superseded")])
  BY DEF DiscussResolves
<1>2. /\ RuntimeTyped /\ TeamTyped /\ LedgerTyped /\ OpTyped /\ Len(history) \in Nat
      /\ op.req \in Requests \ Submitted
  BY <1>1, BasicFacts DEF IInv, PromptInv
<1>3. /\ cards' = cards \ op.held
      /\ audit' = [c \in DOMAIN audit |->
                      IF c \in op.held /\ audit[c] = Open THEN Resolved("superseded") ELSE audit[c]]
  BY <1>1 DEF Retire
<1>4. LedgerTyped'
  <2>1. Resolved("superseded") \in Records(Len(history))
    BY <1>2 DEF Resolved, Records
  <2>2. audit' \in [1..MaxEvents -> Records(Len(history))]
    BY <1>2, <1>3, <2>1 DEF LedgerTyped
  <2> QED BY <1>1, <1>2, <1>3, <2>2 DEF LedgerTyped, runtimeVars
<1>5. RuntimeTyped' /\ AskingInv' /\ SubmittedInv' /\ Submitted' = Submitted /\ Latest' = Latest
  BY <1>1, <1>2 DEF IInv, RuntimeTyped, AskingInv, SubmittedInv, Submitted, Latest, runtimeVars
<1>6. TeamTyped'
  <2>1. Handoff \in Statuses
    BY DEF Handoff, Statuses
  <2> QED BY <1>1, <1>2, <2>1 DEF TeamTyped
<1>7. op' \in Ops(Len(history)) /\ op'.at = "suspended" /\ op'.req = op.req
  <2>1. \A q \in Requests \cup {NoRun} :
           [Idle EXCEPT !.at = "suspended", !.req = q] \in Ops(Len(history))
    BY <1>2, OpFacts DEF OpTyped
  <2> QED BY <1>1, <1>2, <2>1 DEF Idle
<1>8. OpTyped'
  BY <1>1, <1>7 DEF OpTyped, runtimeVars
<1>9. GhostInv' /\ StopInv'
  BY <1>1, <1>5, <1>7 DEF IInv, GhostInv, StopInv, ghostVars
<1>10. PromptInv'
  <2>1. \A r \in Requests \ Submitted' : delivered'[r] = 0 /\ status'[r] = "none"
    BY <1>1, <1>5 DEF IInv, PromptInv, ghostVars
  <2> QED BY <1>1, <1>2, <1>5, <1>7, <2>1 DEF IInv, PromptInv, PromptedOnce, ghostVars
<1> QED BY <1>4, <1>5, <1>6, <1>8, <1>9, <1>10, TypeParts DEF IInv

\* cancel publishes its fence.
LEMMA CancelFencesStep ==
    ASSUME IInv, CancelFences
    PROVE  IInv'
<1>1. /\ spent' = spent + 1 /\ fence' = Submitted /\ op' = [Idle EXCEPT !.at = "fenced"]
      /\ UNCHANGED <<runtimeVars, runs, status, floor, ledgerVars, delivered, dropped, stopped>>
  BY DEF CancelFences
<1>2. /\ RuntimeTyped /\ TeamTyped /\ LedgerTyped /\ OpTyped /\ Len(history) \in Nat
      /\ Submitted \subseteq Requests /\ (Submitted # {} => Latest \in Submitted)
  BY BasicFacts
<1>3. RuntimeTyped' /\ TeamTyped' /\ LedgerTyped' /\ Submitted' = Submitted /\ Latest' = Latest
  BY <1>1, <1>2 DEF RuntimeTyped, TeamTyped, LedgerTyped, Submitted, Latest, runtimeVars, ledgerVars
<1>4. op' \in Ops(Len(history)) /\ op'.at = "fenced"
  <2>1. Idle \in Ops(Len(history))
    BY <1>2 DEF Idle, Ops
  <2>2. op' \in Ops(Len(history))
    BY <1>1, <1>2, <2>1, OpFacts
  <2> QED BY <1>1, <2>2 DEF Idle
<1>5. OpTyped'
  BY <1>1, <1>4 DEF OpTyped, runtimeVars
<1>6. AskingInv' /\ SubmittedInv' /\ GhostInv' /\ PromptInv'
  BY <1>1, <1>3, <1>4 DEF IInv, AskingInv, SubmittedInv, GhostInv, PromptInv, PromptedOnce,
                          runtimeVars
<1>7. StopInv'
  BY <1>1, <1>2, <1>3, <1>4 DEF IInv, StopInv
<1> QED BY <1>3, <1>5, <1>6, <1>7, TypeParts DEF IInv

\* cancel calls the runtime behind its fence.
LEMMA CancelSignalsStep ==
    ASSUME IInv, CancelSignals
    PROVE  IInv'
<1>1. /\ op.at = "fenced" /\ op' = [op EXCEPT !.at = "signalled", !.ran = (turn # NoRun)]
      /\ UNCHANGED <<teamVars, ledgerVars>>
      /\ Cancelled \/ UNCHANGED <<runtimeVars, ghostVars>>
  BY DEF CancelSignals
<1>2. /\ RuntimeTyped /\ TeamTyped /\ LedgerTyped /\ OpTyped /\ Len(history) \in Nat
      /\ fence = Submitted /\ (Latest # NoRun => Latest \in Submitted)
  BY <1>1, BasicFacts DEF IInv, StopInv
<1>3. TeamTyped' /\ Submitted' = Submitted /\ Latest' = Latest /\ runs' = runs /\ fence' = fence
  BY <1>1, <1>2 DEF TeamTyped, Submitted, Latest, teamVars
<1>4. /\ RuntimeTyped' /\ AskingInv' /\ SubmittedInv' /\ GhostInv'
      /\ UNCHANGED <<history, delivered>> /\ stopped' \in {stopped, Latest}
  <2>1. CASE Cancelled
    BY <1>3, <2>1, CancelledFacts
  <2>2. CASE UNCHANGED <<runtimeVars, ghostVars>>
    BY <1>2, <1>3, <2>2 DEF IInv, RuntimeTyped, AskingInv, SubmittedInv, GhostInv,
                            runtimeVars, ghostVars
  <2> QED BY <1>1, <2>1, <2>2
<1>5. LedgerTyped'
  BY <1>1, <1>2, <1>4 DEF LedgerTyped, ledgerVars
<1>6. op' \in Ops(Len(history)) /\ op'.at = "signalled"
  <2>1. \A x \in BOOLEAN : [op EXCEPT !.at = "signalled", !.ran = x] \in Ops(Len(history))
    BY <1>2, OpFacts DEF OpTyped
  <2> QED BY <1>1, <1>2, <2>1 DEF OpTyped, Ops
<1>7. OpTyped'
  BY <1>4, <1>6 DEF OpTyped
<1>8. PromptInv'
  BY <1>1, <1>3, <1>4, <1>6 DEF IInv, PromptInv, PromptedOnce, teamVars
<1>9. StopInv'
  BY <1>2, <1>3, <1>4, <1>6 DEF IInv, StopInv
<1> QED BY <1>3, <1>4, <1>5, <1>7, <1>8, <1>9, TypeParts DEF IInv

\* cancel records what it asked for.
LEMMA CancelRecordsStep ==
    ASSUME IInv, CancelRecords
    PROVE  IInv'
<1>1. /\ fence' = Submitted /\ op' = Idle
      /\ status' = [r \in Requests |-> IF ToCancel(r) THEN "cancel_requested" ELSE status[r]]
      /\ UNCHANGED <<runtimeVars, runs, floor, ledgerVars, ghostVars>>
  BY DEF CancelRecords
<1>2. /\ RuntimeTyped /\ TeamTyped /\ LedgerTyped /\ OpTyped /\ Len(history) \in Nat
      /\ Submitted \subseteq Requests /\ (Latest # NoRun => Latest \in Submitted)
  BY BasicFacts
<1>3. RuntimeTyped' /\ LedgerTyped' /\ Submitted' = Submitted /\ Latest' = Latest
  BY <1>1, <1>2 DEF RuntimeTyped, LedgerTyped, Submitted, Latest, runtimeVars, ledgerVars
<1>4. TeamTyped'
  <2>1. "cancel_requested" \in Statuses
    BY DEF Statuses
  <2> QED BY <1>1, <1>2, <2>1 DEF TeamTyped
<1>5. OpTyped' /\ op'.at = "idle"
  BY <1>1, <1>2 DEF OpTyped, Ops, Idle, runtimeVars
<1>6. AskingInv' /\ SubmittedInv' /\ GhostInv'
  BY <1>1, <1>3 DEF IInv, AskingInv, SubmittedInv, GhostInv, runtimeVars, ghostVars
<1>7. PromptInv'
  <2>1. ASSUME NEW r \in Requests \ Submitted PROVE status'[r] = "none"
    <3>1. status[r] = "none" /\ r # Latest
      BY <1>2 DEF IInv, PromptInv, Requests, NoRun
    <3>2. ~ToCancel(r)
      BY <3>1 DEF ToCancel, Active
    <3> QED BY <1>1, <3>1, <3>2
  <2> QED BY <1>1, <1>3, <1>5, <2>1 DEF IInv, PromptInv, PromptedOnce, ghostVars
<1>8. StopInv'
  BY <1>1, <1>2, <1>3, <1>5 DEF IInv, StopInv, ghostVars
<1> QED BY <1>3, <1>4, <1>5, <1>6, <1>7, <1>8, TypeParts DEF IInv

\* An answer, taken or not, retires what was outlived and perhaps itself.
LEMMA AnswerStep ==
    ASSUME IInv, NEW c \in cards, Answer(c)
    PROVE  IInv'
<1>1. /\ UNCHANGED <<history, queue, turn, aborting, asking, teamVars, archived, op, ghostVars>>
      /\ seen' = seen /\ (replied' = replied \/ (replied' = TRUE /\ asking # 0))
  BY DEF Answer, Waiting
<1>2. /\ RuntimeTyped /\ TeamTyped /\ LedgerTyped /\ OpTyped /\ Len(history) \in Nat
  BY BasicFacts
<1>3. LedgerTyped'
  <2>1. cards' \subseteq cards
    BY DEF Answer, Retires, Retire
  <2>2. \A d \in Outlasted(seen) : OutlivedOf(d, seen) \in Records(Len(history))
    BY <1>2, OutlivedFacts DEF Outlasted, LedgerTyped
  <2>3. Resolved("answered") \in Records(Len(history))
    BY <1>2 DEF Resolved, Records
  <2>4. \/ audit' = [d \in DOMAIN audit |->
                        IF d \in {c} \cup Outlasted(seen) /\ audit[d] = Open
                        THEN (IF d = c THEN Resolved("answered") ELSE OutlivedOf(d, seen))
                        ELSE audit[d]]
        \/ audit' = [d \in DOMAIN audit |->
                        IF d \in Outlasted(seen) /\ audit[d] = Open
                        THEN OutlivedOf(d, seen) ELSE audit[d]]
    BY DEF Answer, Retires, Retire
  <2>5. audit' \in [1..MaxEvents -> Records(Len(history))]
    BY <1>2, <2>2, <2>3, <2>4 DEF LedgerTyped
  <2> QED BY <1>1, <1>2, <2>1, <2>5 DEF LedgerTyped
<1>4. /\ RuntimeTyped' /\ AskingInv' /\ SubmittedInv' /\ TeamTyped' /\ OpTyped'
      /\ Submitted' = Submitted /\ Latest' = Latest
  <2>1. replied' \in BOOLEAN
    BY <1>1, <1>2 DEF RuntimeTyped
  <2>2. RuntimeTyped' /\ AskingInv'
    BY <1>1, <1>2, <2>1 DEF IInv, RuntimeTyped, AskingInv
  <2> QED BY <1>1, <1>2, <2>2 DEF IInv, SubmittedInv, TeamTyped, OpTyped, Submitted, Latest, teamVars
<1>5. GhostInv' /\ PromptInv' /\ StopInv'
  BY <1>1, <1>4 DEF IInv, GhostInv, PromptInv, PromptedOnce, StopInv, teamVars, ghostVars
<1> QED BY <1>3, <1>4, <1>5, TypeParts DEF IInv

\* Every step is one of these.
LEMMA NextStep ==
    ASSUME IInv, [Next]_vars
    PROVE  IInv'
<1>1. CASE Runtime
  BY <1>1, RuntimeStep
<1>2. CASE HubHears \/ HubForgets
  BY <1>2, HubStep
<1>3. CASE Submit
  BY <1>3, SubmitAppendsStep, SubmitPromptsStep DEF Submit
<1>4. CASE Reads \/ Lists \/ DiscussGivesUp \/ Crash
  BY <1>4, ReadsStep, ListsStep
<1>5. CASE Refresh
  BY <1>5, RefreshStep
<1>6. CASE DiscussResolves
  BY <1>6, DiscussResolvesStep
<1>7. CASE \E r \in Requests, c \in 1..Len(history) :
              history[c].kind \in Checkpoints /\ DiscussSuspends(r, c)
  BY <1>7, DiscussSuspendsStep
<1>8. CASE CancelFences \/ CancelSignals \/ CancelRecords
  BY <1>8, CancelFencesStep, CancelSignalsStep, CancelRecordsStep
<1>9. CASE Answers
  BY <1>9, AnswerStep DEF Answers
<1>10. CASE UNCHANGED vars
  <2>1. RuntimeTyped /\ TeamTyped /\ LedgerTyped /\ OpTyped
    BY BasicFacts
  <2>2. RuntimeTyped' /\ TeamTyped' /\ LedgerTyped' /\ OpTyped'
    BY <1>10, <2>1 DEF RuntimeTyped, TeamTyped, LedgerTyped, OpTyped, vars, runtimeVars,
                       teamVars, ledgerVars
  <2>3. AskingInv' /\ SubmittedInv' /\ GhostInv' /\ PromptInv' /\ StopInv'
    BY <1>10 DEF IInv, AskingInv, SubmittedInv, GhostInv, PromptInv, PromptedOnce, StopInv,
                 Submitted, Latest, vars, runtimeVars, teamVars, ledgerVars, ghostVars
  <2> QED BY <2>2, <2>3, TypeParts DEF IInv
<1> QED BY <1>1, <1>2, <1>3, <1>4, <1>5, <1>6, <1>7, <1>8, <1>9, <1>10 DEF Next, Discuss

-----------------------------------------------------------------------------
(* The results.                                                              *)

\* The strengthened invariant holds in every behaviour.
THEOREM Invariance == Spec => []IInv
<1>1. Init => IInv
  BY InitStep
<1>2. IInv /\ [Next]_vars => IInv'
  BY NextStep
<1> QED BY <1>1, <1>2, PTL DEF Spec

\* The model of the agent runs is type correct (AgentTurns.TypeOK).
THEOREM TypeCorrect == Spec => []TypeOK
<1>1. IInv => TypeOK
  BY DEF IInv
<1> QED BY <1>1, Invariance, PTL

\* submit_message: a request reaches the agent once at most, however often it
\* is repeated and wherever the process dies (AgentTurns.PromptedOnce).
THEOREM DeliveredOnce == Spec => []PromptedOnce
<1>1. IInv => PromptedOnce
  BY DEF IInv, PromptInv
<1> QED BY <1>1, Invariance, PTL

\* Handlers confirm a requested cancellation or leave it alone.
LEMMA CancelStep ==
    ASSUME IInv, [Next]_vars, NEW r \in Requests
    PROVE  /\ status[r] = "cancelled" => status'[r] = "cancelled"
           /\ status[r] = "cancel_requested" => status'[r] \in {"cancel_requested", "cancelled"}
<1>1. /\ TeamTyped /\ OpTyped /\ Len(history) \in Nat /\ Submitted \subseteq Requests
      /\ status \in [Requests -> Statuses]
  BY BasicFacts DEF TeamTyped
<1>2. status[r] \in {"cancelled", "cancel_requested"} => r \in Submitted
  BY DEF IInv, PromptInv
<1>3. CASE status' = status
  BY <1>3
<1>4. ASSUME NEW s \in Requests, SubmitAppends(s) PROVE s \notin Submitted
  BY <1>4 DEF SubmitAppends, IsNew, IInv, PromptInv
<1>5. CASE Submit
  <2>1. CASE SubmitPrompts
    <3>1. status[op.req] = "queued" /\ status' \in {status, [status EXCEPT ![op.req] = "failed"]}
      BY <2>1 DEF SubmitPrompts, IInv, PromptInv
    <3> QED BY <1>1, <3>1
  <2>2. ASSUME NEW s \in Requests, SubmitAppends(s) PROVE s # r \/ r \notin Submitted
    BY <1>4, <2>2
  <2>3. ASSUME NEW s \in Requests, SubmitAppends(s) PROVE status' = [status EXCEPT ![s] = "queued"]
    BY <2>3 DEF SubmitAppends
  <2> QED BY <1>1, <1>2, <1>5, <2>1, <2>2, <2>3 DEF Submit
<1>6. CASE Refresh
  <2>1. PICK degraded \in BOOLEAN : status' = Settled(op.upto, degraded)
    BY <1>6 DEF Refresh, RefreshSettles, ArchiveSettles, Settles
  <2>2. op.upto \in 0..Len(history)
    BY <1>1 DEF OpTyped, Ops
  <2> QED BY <1>2, <2>1, <2>2, SettledFacts
<1>7. CASE DiscussResolves
  BY <1>1, <1>7 DEF DiscussResolves, Active
<1>8. CASE CancelRecords
  <2>1. status[r] \in {"cancelled", "cancel_requested"} => ~ToCancel(r)
    BY DEF ToCancel, Active
  <2> QED BY <1>8, <2>1 DEF CancelRecords
<1>9. CASE \/ Runtime \/ HubHears \/ HubForgets \/ Reads \/ Lists \/ DiscussGivesUp \/ CancelFences
           \/ CancelSignals \/ Answers \/ Crash \/ UNCHANGED vars
           \/ \E s \in Requests, c \in 1..Len(history) : DiscussSuspends(s, c)
  <2>1. status' = status
    BY <1>9 DEF Runtime, TurnStarts, TurnAsks, ToolReturns, TurnEnds, TurnContinues, HostStays, HubHears,
                HubForgets, Reads, Lists, DiscussGivesUp, CancelFences, CancelSignals, Answers, Answer,
                Crash, DiscussSuspends, vars, teamVars
  <2> QED BY <1>3, <2>1
<1> QED BY <1>5, <1>6, <1>7, <1>8, <1>9 DEF Next, Discuss

\* cancel and _converge_cancel_requested_runs: a requested cancellation is
\* only ever confirmed (AgentTurns.CancelSticks).
THEOREM CancellationSticks == Spec => CancelSticks
<1>1. IInv /\ [Next]_vars =>
        [\A r \in Requests :
            /\ status[r] = "cancelled" => status'[r] = "cancelled"
            /\ status[r] = "cancel_requested" => status'[r] \in {"cancel_requested", "cancelled"}]_vars
  BY CancelStep
<1> QED BY <1>1, Invariance, PTL DEF Spec, CancelSticks

\* root_context: a stopped agent is not set to work by a child's report
\* (AgentTurns.StopIsFinal).
THEOREM StopsForGood == Spec => StopIsFinal
<1>1. ASSUME IInv, [Next]_vars, turn = NoRun, turn' # NoRun, queue' = queue
      PROVE  stopped = NoRun \/ Latest # stopped
  <2>1. TurnContinues
    <3>1. turn' = turn => FALSE
      BY <1>1
    <3>2. ~ UNCHANGED vars
      BY <3>1 DEF vars, runtimeVars
    <3>3. ~ (HubHears \/ HubForgets \/ Submit \/ Reads \/ Lists \/ Refresh \/ Answers \/ Crash)
      BY <3>1 DEF HubHears, HubForgets, Submit, SubmitAppends, SubmitPrompts, Prompted, Reads, Lists,
                  Refresh, RefreshSettles, ArchiveSettles, Settles, Answers, Answer, Crash, runtimeVars
    <3>4. ~ (Discuss \/ CancelFences \/ CancelSignals \/ CancelRecords)
      BY <3>1 DEF Discuss, DiscussSuspends, DiscussResolves, DiscussGivesUp, CancelFences,
                  CancelSignals, CancelRecords, Cancelled, runtimeVars
    <3>5. ~ \/ ToolReturns
            \/ \E kind \in Checkpoints : TurnAsks(kind)
            \/ \E kind \in Terminals : TurnEnds(kind)
      BY <1>1, <3>1 DEF TurnAsks, ToolReturns, TurnEnds
    <3>6. ~ TurnStarts
      <4>1. queue # <<>> => Tail(queue) # queue
        <5>1. queue \in Seq(Requests)
          BY <1>1, BasicFacts DEF RuntimeTyped
        <5> QED BY <5>1
      <4> QED BY <1>1, <4>1 DEF TurnStarts
    <3> QED BY <1>1, <3>2, <3>3, <3>4, <3>5, <3>6 DEF Next, Runtime
  <2>2. Latest \notin fence
    BY <2>1 DEF TurnContinues, Stopped
  <2> QED BY <1>1, <2>2 DEF IInv, StopInv
<1>2. IInv /\ [Next]_vars =>
        [turn = NoRun /\ turn' # NoRun /\ queue' = queue
            => stopped = NoRun \/ Latest # stopped]_vars
  BY <1>1
<1> QED BY <1>2, Invariance, PTL DEF Spec, StopIsFinal

\* An accepted last answer is an answer.
LEMMA AcceptedFacts ==
    ASSUME IInv, NEW r \in Requests, NEW n \in 0..Len(history), Accepted(r, n)
    PROVE  EventsOf(r, {"answered"}, Len(history)) # {}
<1> DEFINE ends == EventsOf(r, {"finished", "answered"}, n)
<1>1. Len(history) \in Nat
  BY BasicFacts
<1>2. ends \in SUBSET (1..n) /\ ends # {} /\ n \in Nat
  BY <1>1 DEF EventsOf, Accepted
<1>3. Max(ends) \in ends
  <2> HIDE DEF ends
  <2> QED BY <1>2, MaxIn
<1>4. Max(ends) \in 1..Len(history) /\ history[Max(ends)].run = r
      /\ history[Max(ends)].kind = "answered"
  <2>1. \A m \in ends : m \in 1..Len(history) /\ history[m].run = r
    BY <1>1 DEF EventsOf
  <2> HIDE DEF ends
  <2>2. history[Max(ends)].kind = "answered"
    BY DEF Accepted, ends
  <2> QED BY <1>3, <2>1, <2>2
<1> HIDE DEF ends
<1> QED BY <1>4 DEF EventsOf

\* A step that makes a run completed finds an accepted answer of that run.
LEMMA CompletedStep ==
    ASSUME IInv, CompletedIsTrue, [Next]_vars
    PROVE  CompletedIsTrue'
<1> SUFFICES ASSUME NEW r \in Requests, status'[r] = "completed"
             PROVE  EventsOf(r, {"answered"}, Len(history))' # {}
  BY DEF CompletedIsTrue
<1>1. /\ TeamTyped /\ OpTyped /\ Len(history) \in Nat /\ Submitted \subseteq Requests
      /\ status \in [Requests -> Statuses] /\ history \in Seq(Events)
  BY BasicFacts DEF TeamTyped, RuntimeTyped
<1>2. ASSUME history' = history, EventsOf(r, {"answered"}, Len(history)) # {}
      PROVE  EventsOf(r, {"answered"}, Len(history))' # {}
  BY <1>2 DEF EventsOf
<1>3. ASSUME status[r] = "completed" PROVE EventsOf(r, {"answered"}, Len(history)) # {}
  BY <1>3 DEF CompletedIsTrue
<1>4. CASE Runtime
  <2>1. status' = status
    BY <1>4 DEF Runtime, TurnStarts, TurnAsks, ToolReturns, TurnEnds, TurnContinues, HostStays, teamVars
  <2>2. history' = history \/ \E e : e \in Events /\ history' = Append(history, e)
    <3>1. turn # NoRun => turn \in Requests
      BY BasicFacts DEF RuntimeTyped
    <3>2. CASE TurnStarts \/ TurnContinues
      BY <3>2 DEF TurnStarts, TurnContinues
    <3>3. CASE \/ ToolReturns
               \/ \E kind \in Checkpoints : TurnAsks(kind)
               \/ \E kind \in Terminals : TurnEnds(kind)
      <4>1. \E kind \in Terminals \cup Checkpoints \cup {"result"} :
               turn # NoRun /\ history' = Append(history, [kind |-> kind, run |-> turn])
        BY <3>3 DEF ToolReturns, TurnAsks, TurnEnds, Happens, IInv, AskingInv
      <4> QED BY <3>1, <4>1 DEF Events
    <3> QED BY <1>4, <3>2, <3>3 DEF Runtime
  <2>3. /\ Len(history') \in Nat /\ Len(history) <= Len(history')
        /\ \A i \in 1..Len(history) : history'[i] = history[i]
    BY <1>1, <2>2
  <2>4. PICK i \in 1..Len(history) : history[i].run = r /\ history[i].kind = "answered"
    BY <1>3, <2>1 DEF EventsOf
  <2>5. i \in 1..Len(history') /\ history'[i] = history[i]
    BY <1>1, <2>3
  <2> QED BY <2>4, <2>5 DEF EventsOf
<1>5. CASE Refresh
  <2>1. PICK degraded \in BOOLEAN : status' = Settled(op.upto, degraded) /\ history' = history
    BY <1>5 DEF Refresh, RefreshSettles, ArchiveSettles, Settles, runtimeVars
  <2>2. op.upto \in 0..Len(history)
    BY <1>1 DEF OpTyped, Ops
  <2>3. Settled(op.upto, degraded)[r] = "completed" =>
          status[r] = "completed" \/ Accepted(r, op.upto)
    BY DEF Settled, LatestSettled, OlderSettled, Outcome, Converged, Unsettled, Active
  <2> QED BY <1>2, <1>3, <2>1, <2>2, <2>3, AcceptedFacts
<1>6. CASE ~Runtime /\ ~Refresh
  <2>1. history' = history
    BY <1>6 DEF Next, HubHears, HubForgets, Submit, SubmitAppends, SubmitPrompts, Prompted, Reads, Lists,
                Discuss, DiscussSuspends, DiscussResolves, DiscussGivesUp, CancelFences,
                CancelSignals, CancelRecords, Cancelled, Answers, Answer, Crash, vars, runtimeVars
  <2>2. CASE status' = status
    BY <1>2, <1>3, <2>1, <2>2
  <2>3. CASE \E s \in Requests : SubmitAppends(s)
    <3>1. PICK s \in Requests : status' = [status EXCEPT ![s] = "queued"]
      BY <2>3 DEF SubmitAppends
    <3> QED BY <1>1, <1>2, <1>3, <2>1, <3>1
  <2>4. CASE SubmitPrompts
    <3>1. status' \in {status, [status EXCEPT ![op.req] = "failed"]}
      BY <2>4 DEF SubmitPrompts
    <3> QED BY <1>1, <1>2, <1>3, <2>1, <3>1
  <2>5. CASE DiscussResolves
    BY <1>2, <1>3, <2>1, <2>5 DEF DiscussResolves, Handoff
  <2>6. CASE CancelRecords
    BY <1>2, <1>3, <2>1, <2>6 DEF CancelRecords
  <2>7. CASE \/ HubHears \/ HubForgets \/ Reads \/ Lists \/ DiscussGivesUp \/ CancelFences
             \/ CancelSignals \/ Answers \/ Crash \/ UNCHANGED vars
             \/ \E s \in Requests, c \in 1..Len(history) : DiscussSuspends(s, c)
    <3>1. status' = status
      BY <2>7 DEF HubHears, HubForgets, Reads, Lists, DiscussGivesUp, CancelFences, CancelSignals,
                  Answers, Answer, Crash, DiscussSuspends, vars, teamVars
    <3> QED BY <2>2, <3>1
  <2> QED BY <1>6, <2>3, <2>4, <2>5, <2>6, <2>7 DEF Next, Submit, Discuss
<1> QED BY <1>4, <1>5, <1>6

\* _reconcile_team: a run is never reported completed without an accepted
\* answer of its own (AgentTurns.CompletedIsTrue).
THEOREM CompletionIsEarned == Spec => []CompletedIsTrue
<1>1. Init => CompletedIsTrue
  BY DEF Init, CompletedIsTrue
<1>2. IInv /\ CompletedIsTrue /\ [Next]_vars => CompletedIsTrue'
  BY CompletedStep
<1> QED BY <1>1, <1>2, Invariance, PTL DEF Spec

-----------------------------------------------------------------------------
(* The messages that wait, and what opens behind an observation.             *)

\* The runtime has seen run r: its message waits, runs, ran or was dropped.
Met(r) == \/ r \in ToSet(queue) \/ turn = r \/ r \in dropped
          \/ \E i \in DOMAIN history : history[i].run = r

\* Nothing is known of a message that was not delivered; the latest one waits
\* behind the others, and while there is a queue it has not run yet.
QueueInv ==
    /\ \A r \in Requests : delivered[r] = 0 => ~Met(r)
    /\ op.at = "appended" => op.req = Latest
    /\ \A i \in 1..(Len(queue) - 1) : queue[i] # Latest
    /\ queue # <<>> => /\ turn # Latest /\ Latest \notin dropped
                       /\ \A i \in DOMAIN history : history[i].run # Latest

\* Handlers that leave the runtime and the runs alone.
LEMMA QueueKeeps ==
    ASSUME QueueInv, UNCHANGED <<history, queue, turn, dropped, delivered, runs>>,
           op'.at = "appended" => op' = op
    PROVE  QueueInv'
<1>1. Latest' = Latest /\ \A r \in Requests : Met(r)' <=> Met(r)
  BY DEF Latest, Met
<1> QED BY <1>1 DEF QueueInv

\* A cancellation that the runtime accepts empties the queue.
LEMMA QueueCancelled ==
    ASSUME QueueInv, Cancelled, UNCHANGED runs, op'.at # "appended"
    PROVE  QueueInv'
<1>1. /\ queue' = <<>> /\ dropped' = dropped \cup ToSet(queue)
      /\ UNCHANGED <<history, turn, delivered>>
  BY DEF Cancelled
<1>2. Latest' = Latest /\ ToSet(queue') = {}
  BY <1>1 DEF Latest, ToSet
<1>3. \A r \in Requests : Met(r)' => Met(r)
  BY <1>1, <1>2 DEF Met
<1>4. Len(queue') = 0
  BY <1>1
<1>5. \A i \in 1..(Len(queue') - 1) : queue'[i] # Latest'
  BY <1>4
<1> QED BY <1>1, <1>3, <1>5 DEF QueueInv

\* The first message of a queue begins its turn.
LEMMA QueueStarts ==
    ASSUME IInv, QueueInv, TurnStarts
    PROVE  QueueInv'
<1>1. /\ queue \in Seq(Requests) /\ queue # <<>> /\ queue' = Tail(queue) /\ turn' = Head(queue)
      /\ UNCHANGED <<history, dropped, delivered, runs, op>>
  BY BasicFacts DEF TurnStarts, HostStays, teamVars, ghostVars, RuntimeTyped
<1>2. /\ Len(queue) \in Nat \ {0} /\ Len(queue') = Len(queue) - 1 /\ turn' = queue[1]
      /\ \A i \in 1..Len(queue') : queue'[i] = queue[i + 1]
      /\ DOMAIN queue = 1..Len(queue) /\ DOMAIN queue' = 1..Len(queue')
  BY <1>1
<1>3. \A i \in 1..Len(queue') : i + 1 \in 1..Len(queue)
  BY <1>2
<1>4. ToSet(queue') \subseteq ToSet(queue) /\ turn' \in ToSet(queue)
  BY <1>2, <1>3 DEF ToSet
<1>5. Latest' = Latest /\ \A r \in Requests : Met(r)' => Met(r)
  BY <1>1, <1>4 DEF Latest, Met
<1>6. \A i \in 1..(Len(queue') - 1) : queue'[i] # Latest
  BY <1>2 DEF QueueInv
<1>7. ASSUME queue' # <<>> PROVE turn' # Latest
  <2>1. Len(queue') # 0
    BY <1>1, <1>7
  <2>2. 1 \in 1..(Len(queue) - 1)
    BY <1>2, <2>1
  <2> QED BY <1>2, <2>2 DEF QueueInv
<1> QED BY <1>1, <1>5, <1>6, <1>7 DEF QueueInv

\* The other steps of the runtime add to the history what runs, or run on what
\* it ends with.
LEMMA QueueRuntime ==
    ASSUME IInv, QueueInv, Runtime
    PROVE  QueueInv'
<1>1. /\ history \in Seq(Events) /\ Len(history) \in Nat
      /\ UNCHANGED <<dropped, delivered, runs, op>> /\ Latest' = Latest
  BY BasicFacts DEF Runtime, TurnStarts, TurnAsks, ToolReturns, TurnContinues, TurnEnds,
                    HostStays, Latest, RuntimeTyped, teamVars, ghostVars
<1>2. ASSUME \/ ToolReturns
             \/ \E kind \in Checkpoints : TurnAsks(kind)
             \/ \E kind \in Terminals : TurnEnds(kind)
      PROVE  QueueInv'
  <2>1. PICK k : history' = Append(history, [kind |-> k, run |-> turn])
    BY <1>2 DEF TurnAsks, ToolReturns, TurnEnds, Happens
  <2>2. queue' = queue /\ turn # NoRun /\ turn' \in {turn, NoRun}
    BY <1>2 DEF TurnAsks, ToolReturns, TurnEnds, IInv, AskingInv
  <2>3. \A i \in DOMAIN history' : \/ i \in DOMAIN history /\ history'[i].run = history[i].run
                                   \/ history'[i].run = turn
    BY <1>1, <2>1
  <2>4. NoRun \notin Requests
    BY DEF NoRun, Requests
  <2>5. \A r \in Requests : Met(r)' => Met(r)
    BY <1>1, <2>2, <2>3, <2>4 DEF Met
  <2>6. queue # <<>> => Latest # NoRun
    <3>1. ASSUME queue # <<>> PROVE Submitted # {}
      <4>1. queue \in Seq(Requests)
        BY BasicFacts DEF RuntimeTyped
      <4>2. queue[1] \in ToSet(queue)
        <5>1. 1 \in DOMAIN queue
          BY <3>1, <4>1
        <5> QED BY <5>1 DEF ToSet
      <4> QED BY <4>2 DEF IInv, SubmittedInv
    <3>2. Submitted \subseteq Requests /\ (Submitted # {} => Latest \in Submitted)
      BY BasicFacts
    <3> QED BY <2>4, <3>1, <3>2
  <2> QED BY <1>1, <2>2, <2>3, <2>5, <2>6 DEF QueueInv
<1>3. ASSUME TurnContinues PROVE QueueInv'
  <2>1. /\ queue = <<>> /\ queue' = queue /\ history' = history
        /\ turn' = Last(history).run /\ history # <<>>
    BY <1>3 DEF TurnContinues
  <2>2. Len(history) \in DOMAIN history /\ turn' = history[Len(history)].run
    BY <1>1, <2>1 DEF Last
  <2>3. \A r \in Requests : Met(r)' => Met(r)
    BY <1>1, <2>1, <2>2 DEF Met
  <2> QED BY <1>1, <2>1, <2>3 DEF QueueInv
<1> QED BY <1>2, <1>3, QueueStarts DEF Runtime

\* A new run is unknown to the runtime; its message is the last of the queue.
LEMMA QueueSubmits ==
    ASSUME IInv, QueueInv, Submit
    PROVE  QueueInv'
<1>1. /\ queue \in Seq(Requests) /\ Len(queue) \in Nat /\ runs \in Seq(Requests)
      /\ DOMAIN queue = 1..Len(queue)
  BY BasicFacts DEF RuntimeTyped, TeamTyped
<1>2. ASSUME NEW r \in Requests, SubmitAppends(r) PROVE QueueInv'
  <2>1. /\ r \notin Submitted /\ runs' = Append(runs, r)
        /\ UNCHANGED <<history, queue, turn, dropped, delivered>>
        /\ op' = [Idle EXCEPT !.at = "appended", !.req = r]
    BY <1>2 DEF SubmitAppends, IsNew, IInv, PromptInv, runtimeVars, ghostVars
  <2>2. Latest' = r /\ op'.req = r
    <3>1. Latest' = r
      BY <1>1, <2>1, AppendedFacts DEF Latest
    <3>2. op'.req = r
      BY <2>1 DEF Idle
    <3> QED BY <3>1, <3>2
  <2>3. ~Met(r) /\ \A q \in Requests : Met(q)' <=> Met(q)
    BY <2>1 DEF Met, QueueInv, IInv, PromptInv
  <2>4. \A i \in 1..(Len(queue) - 1) : queue[i] \in ToSet(queue)
    BY <1>1 DEF ToSet
  <2> QED BY <2>1, <2>2, <2>3, <2>4 DEF QueueInv, Met
<1>3. ASSUME SubmitPrompts PROVE QueueInv'
  <2>1. /\ op.req = Latest /\ Latest \in Requests /\ delivered[Latest] = 0 /\ ~Met(Latest)
    BY <1>3, BasicFacts DEF SubmitPrompts, QueueInv, IInv, PromptInv
  <2>2. runs' = runs /\ Latest' = Latest /\ op'.at = "idle"
    BY <1>3 DEF SubmitPrompts, Latest, Idle
  <2>3. CASE Prompted(Latest)
    <3>1. /\ queue' = Append(queue, Latest) /\ UNCHANGED <<history, turn, dropped>>
          /\ delivered' = [delivered EXCEPT ![Latest] = @ + 1]
      BY <2>3 DEF Prompted
    <3>2. delivered \in [Requests -> Nat]
      BY DEF IInv, GhostInv
    <3>3. /\ delivered'[Latest] = 1
          /\ \A q \in Requests \ {Latest} : delivered'[q] = delivered[q]
      BY <2>1, <3>1, <3>2
    <3>4. /\ Len(queue') = Len(queue) + 1 /\ ToSet(queue') = ToSet(queue) \cup {Latest}
          /\ \A i \in 1..Len(queue) : queue'[i] = queue[i]
      BY <1>1, <2>1, <3>1, AppendedFacts
    <3>5. \A q \in Requests \ {Latest} : Met(q)' => Met(q)
      BY <3>1, <3>4 DEF Met
    <3>6. \A i \in 1..Len(queue) : queue[i] # Latest
      BY <1>1, <2>1 DEF Met, ToSet
    <3>7. \A i \in 1..(Len(queue') - 1) : queue'[i] # Latest
      BY <1>1, <3>4, <3>6
    <3> QED BY <2>1, <2>2, <3>1, <3>3, <3>5, <3>7 DEF QueueInv, Met
  <2>4. CASE UNCHANGED <<runtimeVars, ghostVars>>
    BY <2>2, <2>4, QueueKeeps DEF runtimeVars, ghostVars
  <2> QED BY <1>3, <2>1, <2>3, <2>4 DEF SubmitPrompts
<1> QED BY <1>2, <1>3 DEF Submit

\* Every step keeps it.
LEMMA QueueStep ==
    ASSUME IInv, QueueInv, [Next]_vars
    PROVE  QueueInv'
<1>1. op \in Ops(Len(history))
  BY BasicFacts DEF OpTyped
<1>2. CASE Runtime
  BY <1>2, QueueRuntime
<1>3. CASE Submit
  BY <1>3, QueueSubmits
<1>4. ASSUME NEW r \in Requests, NEW c \in 1..Len(history), DiscussSuspends(r, c)
      PROVE  QueueInv'
  <2>1. op'.at # "appended" /\ runs' = runs
    <3>1. op' = Idle \/ op'.at = "waits"
      BY <1>4, DiscussFacts
    <3> QED BY <1>4, <3>1 DEF DiscussSuspends, Idle
  <2>2. Cancelled \/ UNCHANGED <<runtimeVars, ghostVars>>
    BY <1>4 DEF DiscussSuspends
  <2> QED BY <2>1, <2>2, QueueCancelled, QueueKeeps DEF runtimeVars, ghostVars
<1>5. CASE CancelSignals
  <2>1. op'.at = "signalled" /\ runs' = runs
    BY <1>1, <1>5 DEF CancelSignals, Ops, teamVars
  <2>2. Cancelled \/ UNCHANGED <<runtimeVars, ghostVars>>
    BY <1>5 DEF CancelSignals
  <2> QED BY <2>1, <2>2, QueueCancelled, QueueKeeps DEF runtimeVars, ghostVars
<1>6. CASE \/ Refresh \/ DiscussResolves \/ DiscussGivesUp \/ Answers \/ HubHears \/ HubForgets
           \/ Reads \/ Lists \/ CancelFences \/ CancelRecords \/ Crash \/ UNCHANGED vars
  <2>1. UNCHANGED <<history, queue, turn, dropped, delivered, runs>>
    BY <1>6 DEF Refresh, RefreshSettles, ArchiveSettles, Settles, DiscussResolves, DiscussGivesUp,
                Answers, Answer, HubHears, HubForgets, Reads, Lists, CancelFences, CancelRecords, Crash,
                vars, runtimeVars, teamVars, ghostVars
  <2>2. CASE op' = op
    BY <2>1, <2>2, QueueKeeps
  <2>3. CASE op' # op
    <3>1. \/ op' = Idle
          \/ op' = [Idle EXCEPT !.at = "suspended", !.req = op.req]
          \/ op' = [Idle EXCEPT !.at = "reads", !.upto = Len(history)]
          \/ op' = [op EXCEPT !.at = "listed", !.ran = (turn # NoRun)]
          \/ op' = [Idle EXCEPT !.at = "fenced"]
      BY <1>6, <2>3 DEF Refresh, RefreshSettles, ArchiveSettles, Settles, DiscussResolves,
                        DiscussGivesUp, Answers, Answer, HubHears, HubForgets, Reads, Lists,
                        CancelFences, CancelRecords, Crash, vars
    <3>2. op'.at # "appended"
      <4>1. ASSUME op' = Idle PROVE op'.at # "appended"
        BY <4>1 DEF Idle
      <4>2. ASSUME op' = [Idle EXCEPT !.at = "suspended", !.req = op.req]
            PROVE  op'.at # "appended"
        BY <4>2 DEF Idle
      <4>3. ASSUME op' = [Idle EXCEPT !.at = "reads", !.upto = Len(history)]
            PROVE  op'.at # "appended"
        BY <4>3 DEF Idle
      <4>4. ASSUME op' = [Idle EXCEPT !.at = "fenced"] PROVE op'.at # "appended"
        BY <4>4 DEF Idle
      <4>5. ASSUME op' = [op EXCEPT !.at = "listed", !.ran = (turn # NoRun)]
            PROVE  op'.at # "appended"
        BY <1>1, <4>5 DEF Ops
      <4> QED BY <3>1, <4>1, <4>2, <4>3, <4>4, <4>5
    <3> QED BY <2>1, <3>2, QueueKeeps
  <2> QED BY <2>2, <2>3
<1> QED BY <1>2, <1>3, <1>4, <1>5, <1>6 DEF Next, Discuss

\* At first nothing is delivered, queued or run.
LEMMA QueueInit == Init => QueueInv
<1> SUFFICES ASSUME Init PROVE QueueInv
  OBVIOUS
<1>1. queue = <<>> /\ history = <<>> /\ turn = NoRun /\ dropped = {} /\ op.at = "idle"
  BY DEF Init, Idle
<1>2. \A r \in Requests : ~Met(r)
  BY <1>1 DEF Met, ToSet, Requests, NoRun
<1>3. \A i \in 1..(Len(queue) - 1) : queue[i] # Latest
  BY <1>1
<1> QED BY <1>1, <1>2, <1>3 DEF QueueInv

\* A turn of run r has ended.
Ended(r) == EventsOf(r, Terminals, Len(history)) # {}

\* Of all runs in the history only the one at work may not have ended a turn.
\* A turn that opened since the runtime was seen idle goes on after an end, or
\* the latest run is still to come.
ListInv ==
    /\ \A i \in DOMAIN history : history[i].run = turn \/ Ended(history[i].run)
    /\ op.at = "listed" /\ ~op.ran /\ turn # NoRun =>
          \/ Ended(turn)
          \/ ~Ended(Latest) /\ Latest \notin dropped

\* What a step of the runtime adds to the history.
LEMMA GrowthFacts ==
    ASSUME IInv, NEW kind, Happens(kind, turn)
    PROVE  /\ Len(history') = Len(history) + 1 /\ Len(history) \in Nat
           /\ DOMAIN history' = 1..Len(history') /\ DOMAIN history = 1..Len(history)
           /\ \A i \in 1..Len(history) : history'[i] = history[i]
           /\ history'[Len(history')].kind = kind /\ history'[Len(history')].run = turn
           /\ \A r : Ended(r) => Ended(r)'
           /\ kind \notin Terminals => \A r : Ended(r)' => Ended(r)
<1> DEFINE e == [kind |-> kind, run |-> turn]
           h == Append(history, e)
<1>1. history \in Seq(Events) /\ Len(history) \in Nat
  BY BasicFacts DEF RuntimeTyped
<1>2. e.kind = kind /\ e.run = turn
  OBVIOUS
<1>3. history' = h
  BY DEF Happens
<1> HIDE DEF e
<1>4. /\ Len(h) = Len(history) + 1 /\ DOMAIN h = 1..Len(h) /\ DOMAIN history = 1..Len(history)
      /\ \A i \in 1..Len(history) : h[i] = history[i]
      /\ h[Len(history) + 1] = e
  BY <1>1
<1> HIDE DEF h
<1>5. /\ Len(history') = Len(history) + 1
      /\ \A i \in 1..Len(history) : history'[i] = history[i]
      /\ history'[Len(history')].kind = kind /\ history'[Len(history')].run = turn
  BY <1>1, <1>2, <1>3, <1>4
<1>6. ASSUME NEW r PROVE Ended(r) => Ended(r)'
  <2>1. \A i \in 1..Len(history) : i \in 1..Len(history')
    BY <1>1, <1>5
  <2> QED BY <1>5, <2>1 DEF Ended, EventsOf
<1>7. ASSUME kind \notin Terminals, NEW r, Ended(r)' PROVE Ended(r)
  <2>1. PICK i \in 1..Len(history') : history'[i].run = r /\ history'[i].kind \in Terminals
    BY <1>7 DEF Ended, EventsOf
  <2>2. i \in 1..Len(history)
    BY <1>1, <1>5, <1>7, <2>1
  <2> QED BY <1>5, <2>1, <2>2 DEF Ended, EventsOf
<1> QED BY <1>1, <1>3, <1>4, <1>5, <1>6, <1>7

\* Checkpoints are no ends of turns.
LEMMA KindFacts ==
    /\ Checkpoints \cap Terminals = {} /\ "result" \notin Terminals
    /\ "approval" \notin Questions
  BY AgentTurnsAssumption DEF Checkpoints, Terminals

\* Handlers that leave the history and the turn alone.
LEMMA ListKeeps ==
    ASSUME ListInv, UNCHANGED <<history, turn>>,
           \/ op'.at # "listed" \/ op'.ran = (turn # NoRun)
           \/ op' = op /\ UNCHANGED <<runs, dropped>>
    PROVE  ListInv'
<1>1. \A r : Ended(r)' <=> Ended(r)
  BY DEF Ended, EventsOf
<1>2. CASE op'.at # "listed" \/ op'.ran = (turn # NoRun)
  BY <1>1, <1>2 DEF ListInv
<1>3. CASE op' = op /\ UNCHANGED <<runs, dropped>>
  <2>1. Latest' = Latest
    BY <1>3 DEF Latest
  <2> QED BY <1>1, <1>3, <2>1 DEF ListInv
<1> QED BY <1>2, <1>3

\* The runtime's steps.
LEMMA ListRuntime ==
    ASSUME IInv, QueueInv, ListInv, Runtime
    PROVE  ListInv'
<1>1. /\ history \in Seq(Events) /\ Len(history) \in Nat /\ DOMAIN history = 1..Len(history)
      /\ UNCHANGED <<dropped, runs, op>> /\ Latest' = Latest
  BY BasicFacts DEF Runtime, TurnStarts, TurnAsks, ToolReturns, TurnContinues, TurnEnds,
                    HostStays, Latest, RuntimeTyped, teamVars, ghostVars
<1>2. CASE TurnStarts \/ TurnContinues
  <2>1. turn = NoRun /\ history' = history
    BY <1>2 DEF TurnStarts, TurnContinues
  <2>2. \A i \in DOMAIN history : Ended(history[i].run)
    <3>1. \A i \in DOMAIN history : history[i].run # NoRun
      <4>1. ASSUME NEW i \in DOMAIN history PROVE history[i].run \in Requests
        <5>1. history[i] \in Events
          BY <1>1
        <5> QED BY <5>1 DEF Events
      <4> QED BY <4>1 DEF Requests, NoRun
    <3> QED BY <2>1, <3>1 DEF ListInv
  <2>3. \A r : Ended(r)' <=> Ended(r)
    BY <2>1 DEF Ended, EventsOf
  <2>4. CASE TurnStarts
    <3>1. queue # <<>>
      BY <2>4 DEF TurnStarts
    <3>2. Latest \notin dropped /\ \A i \in 1..Len(history) : history[i].run # Latest
      BY <1>1, <3>1 DEF QueueInv
    <3>3. ~Ended(Latest)
      BY <3>2 DEF Ended, EventsOf
    <3> QED BY <1>1, <2>1, <2>2, <2>3, <3>2, <3>3 DEF ListInv
  <2>5. CASE TurnContinues
    <3>1. turn' = history[Len(history)].run /\ Len(history) \in DOMAIN history
      BY <1>1, <2>5 DEF TurnContinues, Last
    <3>2. Ended(turn')
      BY <2>2, <3>1
    <3>3. \A i \in DOMAIN history' : Ended(history[i].run)'
      BY <2>1, <2>2 DEF Ended, EventsOf
    <3>4. Ended(turn)'
      BY <2>1, <3>2 DEF Ended, EventsOf
    <3> QED BY <3>3, <3>4 DEF ListInv
  <2> QED BY <1>2, <2>4, <2>5
<1>3. ASSUME NEW kind, kind \notin Terminals, Happens(kind, turn), turn' = turn
      PROVE  ListInv'
  <2>1. /\ \A r : Ended(r)' <=> Ended(r)
        /\ Len(history') = Len(history) + 1 /\ DOMAIN history' = 1..Len(history')
        /\ \A i \in 1..Len(history) : history'[i] = history[i]
        /\ history'[Len(history')].run = turn
    BY <1>3, GrowthFacts
  <2>2. \A i \in DOMAIN history' : i \in 1..Len(history) \/ i = Len(history')
    BY <1>1, <2>1
  <2>3. \A i \in DOMAIN history' : history'[i].run = turn \/ Ended(history'[i].run)
    BY <1>1, <2>1, <2>2 DEF ListInv
  <2>4. Ended(turn)' <=> Ended(turn)
    BY <1>3 , <2>1 DEF Ended, EventsOf
  <2>5. Ended(Latest)' <=> Ended(Latest)
    BY <1>1, <2>1 DEF Ended, EventsOf
  <2>6. \A i \in DOMAIN history' : Ended(history'[i].run) => Ended(history[i].run)'
    BY <2>1 DEF Ended, EventsOf
  <2> QED BY <1>1, <1>3, <2>3, <2>4, <2>5, <2>6 DEF ListInv
<1>4. CASE ToolReturns \/ \E kind \in Checkpoints : TurnAsks(kind)
  <2>1. \E kind : kind \notin Terminals /\ Happens(kind, turn) /\ turn' = turn
    BY <1>4, KindFacts DEF ToolReturns, TurnAsks
  <2> QED BY <1>3, <2>1
<1>5. ASSUME NEW kind \in Terminals, TurnEnds(kind) PROVE ListInv'
  <2>1. Happens(kind, turn) /\ turn' = NoRun
    BY <1>5 DEF TurnEnds
  <2>2. /\ \A r : Ended(r) => Ended(r)'
        /\ Len(history') = Len(history) + 1 /\ DOMAIN history' = 1..Len(history')
        /\ \A i \in 1..Len(history) : history'[i] = history[i]
        /\ history'[Len(history')].run = turn
    BY <2>1, GrowthFacts
  <2>4. \E i \in 1..Len(history') : history'[i].run = turn /\ history'[i].kind \in Terminals
    <3>1. Len(history') \in 1..Len(history') /\ history'[Len(history')].kind = kind
      BY <1>1, <2>1, <2>2, GrowthFacts
    <3> QED BY <2>2, <3>1
  <2>5. ASSUME NEW i \in DOMAIN history' PROVE Ended(history[i].run)'
    <3>1. CASE history'[i].run = turn
      BY <2>4, <3>1 DEF Ended, EventsOf
    <3>2. CASE history'[i].run # turn
      <4>1. i \in 1..Len(history) /\ history'[i] = history[i]
        BY <1>1, <2>2, <3>2
      <4>2. Ended(history[i].run)
        BY <1>1, <3>2, <4>1 DEF ListInv
      <4> QED BY <2>2, <4>1, <4>2 DEF Ended, EventsOf
    <3> QED BY <3>1, <3>2
  <2> QED BY <2>1, <2>5 DEF ListInv
<1> QED BY <1>2, <1>4, <1>5 DEF Runtime

\* Every step keeps it.
LEMMA ListStep ==
    ASSUME IInv, QueueInv, ListInv, [Next]_vars
    PROVE  ListInv'
<1>1. op \in Ops(Len(history))
  BY BasicFacts DEF OpTyped
<1>2. CASE ~Runtime
  <2>1. UNCHANGED <<history, turn>>
    BY <1>2 DEF Next, HubHears, HubForgets, Submit, SubmitAppends, SubmitPrompts, Prompted, Reads,
                Lists, Refresh, RefreshSettles, ArchiveSettles, Settles, Discuss, DiscussSuspends,
                DiscussResolves, DiscussGivesUp, CancelFences, CancelSignals, CancelRecords,
                Cancelled, Answers, Answer, Crash, vars, runtimeVars
  <2>2. CASE HubHears \/ HubForgets \/ Answers \/ UNCHANGED vars
    <3>1. op' = op /\ UNCHANGED <<runs, dropped>>
      BY <2>2 DEF HubHears, HubForgets, Answers, Answer, vars, teamVars, ghostVars
    <3> QED BY <2>1, <3>1, ListKeeps
  <2>3. CASE Lists
    <3>1. op'.ran = (turn # NoRun)
      BY <1>1, <2>3 DEF Lists, Ops
    <3> QED BY <2>1, <3>1, ListKeeps
  <2>4. CASE \/ Submit \/ Reads \/ Refresh \/ DiscussResolves \/ DiscussGivesUp
             \/ CancelFences \/ CancelRecords \/ Crash
    <3>1. \/ op' = Idle
          \/ \E q : op' = [Idle EXCEPT !.at = "appended", !.req = q]
          \/ op' = [Idle EXCEPT !.at = "suspended", !.req = op.req]
          \/ op' = [Idle EXCEPT !.at = "reads", !.upto = Len(history)]
          \/ op' = [Idle EXCEPT !.at = "fenced"]
      BY <2>4 DEF Submit, SubmitAppends, SubmitPrompts, Reads, Refresh, RefreshSettles,
                  ArchiveSettles, Settles, DiscussResolves, DiscussGivesUp, CancelFences,
                  CancelRecords, Crash
    <3>2. op'.at # "listed"
      <4>1. ASSUME op' = Idle PROVE op'.at # "listed"
        BY <4>1 DEF Idle
      <4>2. ASSUME NEW q, op' = [Idle EXCEPT !.at = "appended", !.req = q] PROVE op'.at # "listed"
        BY <4>2 DEF Idle
      <4>3. ASSUME op' = [Idle EXCEPT !.at = "suspended", !.req = op.req] PROVE op'.at # "listed"
        BY <4>3 DEF Idle
      <4>4. ASSUME op' = [Idle EXCEPT !.at = "reads", !.upto = Len(history)]
            PROVE  op'.at # "listed"
        BY <4>4 DEF Idle
      <4>5. ASSUME op' = [Idle EXCEPT !.at = "fenced"] PROVE op'.at # "listed"
        BY <4>5 DEF Idle
      <4> QED BY <3>1, <4>1, <4>2, <4>3, <4>4, <4>5
    <3> QED BY <2>1, <3>2, ListKeeps
  <2>5. CASE CancelSignals
    <3>1. op'.at # "listed"
      BY <1>1, <2>5 DEF CancelSignals, Ops
    <3> QED BY <2>1, <3>1, ListKeeps
  <2>6. ASSUME NEW r \in Requests, NEW c \in 1..Len(history), DiscussSuspends(r, c)
        PROVE  ListInv'
    <3>1. op'.at # "listed"
      BY <2>6, DiscussFacts DEF Idle
    <3> QED BY <2>1, <3>1, ListKeeps
  <2> QED BY <1>2, <2>2, <2>3, <2>4, <2>5, <2>6 DEF Next, Discuss
<1> QED BY <1>2, ListRuntime

\* At first nothing has happened.
LEMMA ListInit == Init => ListInv
  BY DEF Init, ListInv, Idle

\* A turn that opened behind an observation after which the latest run is known
\* to have ended goes on after an end of its own.
LEMMA OpenedFacts ==
    ASSUME IInv, ListInv, op.at = "listed", ~op.ran, turn # NoRun,
           Ended(Latest) \/ Latest \in dropped
    PROVE  Ended(turn)
  BY DEF ListInv

-----------------------------------------------------------------------------
(* The checkpoint that waits for an answer.                                  *)

\* A question that is taken for an earlier one.
Mistaken(c) == \E e \in 1..(c - 1) : StandsIn(e, c)

\* The ledger says nothing of what has not happened, and of an outlived
\* checkpoint that a turn of its run has ended; what a discussion holds and is
\* still asked belongs to a run that went on.
CardInv ==
    /\ \A c \in 1..MaxEvents : /\ c > Len(history) => audit[c] = Open
                               /\ audit[c].how = "outlived" => Ended(audit[c].run)
    /\ op.at = "waits" /\ op.end # 0 /\ asking \in op.held => Continued(asking)
    /\ LiveCardSurvives

\* The checkpoint that is asked is the last event, so what outlived it is the
\* end of a turn that asked earlier.
LEMMA AskedLast ==
    ASSUME IInv, asking # 0, NEW n \in 0..Len(history), Outlived(asking, n)
    PROVE  Mistaken(asking)
<1> DEFINE o == Origin(asking, n)
           found == Candidates(asking, n)
<1>1. /\ Len(history) \in Nat /\ asking = Len(history) /\ asking \in 1..Len(history)
      /\ history[asking].kind \in Checkpoints
  BY BasicFacts DEF IInv, AskingInv, RuntimeTyped
<1>2. o \in 0..n /\ o # 0
  BY <1>1, OriginFacts DEF Outlived
<1>3. PICK t \in (o + 1)..n : history[t].run = history[o].run /\ history[t].kind \in Terminals
  BY DEF Outlived
<1>4. t # asking
  BY <1>1, <1>3, KindFacts
<1>5. o \in 1..(asking - 1) /\ t \in (o + 1)..(asking - 1) /\ o < n
  <2> HIDE DEF o
  <2> QED BY <1>1, <1>2, <1>3, <1>4
<1>6. o \in found
  <2>1. found \in SUBSET (1..n) /\ n \in Nat
    BY <1>1 DEF Candidates
  <2>2. o = IF found = {} THEN 0 ELSE Max(found)
    BY DEF Origin
  <2> HIDE DEF found
  <2> QED BY <1>2, <2>1, <2>2, MaxIn
<1>7. /\ history[o].kind \in Questions /\ history[asking].kind \in Questions
      /\ history[o].kind = history[asking].kind \/ history[o + 1].kind # "result"
  <2>1. history[asking].kind # "approval"
    <3>1. ASSUME history[asking].kind = "approval" PROVE o = asking
      <4> HIDE DEF o
      <4> QED BY <1>6, <3>1 DEF Candidates
    <3> HIDE DEF o
    <3> QED BY <1>1, <1>5, <3>1
  <2>2. history[asking].kind \in Questions
    BY <1>1, <2>1 DEF Checkpoints
  <2> HIDE DEF o
  <2>3. \/ history[o].kind = history[asking].kind
        \/ history[o].kind \in Questions /\ ~Returned(o, n)
    BY <1>6, <2>1 DEF Candidates
  <2> QED BY <1>5, <2>2, <2>3 DEF Returned
<1> HIDE DEF o
<1>8. StandsIn(o, asking)
  BY <1>3, <1>5, <1>7 DEF StandsIn
<1> QED BY <1>5, <1>8 DEF Mistaken

\* What a handler may do to the ledger.
LEMMA CardKeeps ==
    ASSUME IInv, CardInv, UNCHANGED <<history, asking>>, Waiting' => Waiting,
           \A c \in 1..MaxEvents : c > Len(history) => audit'[c] = audit[c],
           \A c \in 1..MaxEvents : audit'[c] = audit[c] \/ audit'[c].how # "outlived"
                                  \/ Ended(audit'[c].run),
           Waiting => \/ audit'[asking] = audit[asking]
                      \/ audit'[asking].how = "outlived" /\ Mistaken(asking)
                      \/ audit'[asking].how = "superseded" /\ Continued(asking),
           op'.at = "waits" /\ op'.end # 0 /\ asking \in op'.held => Continued(asking)
    PROVE  CardInv'
<1>1. \A c \in 1..MaxEvents : /\ c > Len(history) => audit'[c] = Open
                              /\ audit'[c].how = "outlived" => Ended(audit'[c].run)
  BY DEF CardInv
<1>2. \A c \in 1..MaxEvents : audit'[c].how = "outlived" => Ended(audit[c].run)'
  BY <1>1 DEF Ended, EventsOf
<1>3. Continued(asking)' <=> Continued(asking)
  BY DEF Continued
<1>4. Waiting' => \/ audit'[asking] = Open
                  \/ audit'[asking].how = "outlived" /\ Mistaken(asking)
                  \/ audit'[asking].how = "superseded" /\ Continued(asking)
  BY DEF CardInv, LiveCardSurvives, Mistaken
<1>5. LiveCardSurvives'
  BY <1>3, <1>4 DEF LiveCardSurvives, Mistaken, StandsIn
<1> QED BY <1>1, <1>2, <1>3, <1>5 DEF CardInv

\* An outlived checkpoint names a run that has ended a turn.
LEMMA OutlivedEnded ==
    ASSUME IInv, NEW n \in 0..Len(history), NEW c \in 1..Len(history), Outlived(c, n)
    PROVE  Ended(OutlivedOf(c, n).run)
<1>1. Len(history) \in Nat
  BY BasicFacts
<1>2. Origin(c, n) # 0 /\ Origin(c, n) \in 0..n
  BY OriginFacts DEF Outlived
<1>3. OutlivedOf(c, n).run = history[Origin(c, n)].run
  BY <1>2 DEF OutlivedOf, Owner
<1>4. PICK t \in (Origin(c, n) + 1)..n : /\ history[t].run = history[Origin(c, n)].run
                                        /\ history[t].kind \in Terminals
  BY DEF Outlived
<1>5. t \in 1..Len(history)
  BY <1>1, <1>2, <1>4
<1> QED BY <1>3, <1>4, <1>5 DEF Ended, EventsOf

\* Retiring what is outlived is as CardKeeps wants it.
LEMMA OutlastedKeeps ==
    ASSUME IInv, CardInv, NEW n \in 0..Len(history), Retires(n)
    PROVE  /\ \A c \in 1..MaxEvents : c > Len(history) => audit'[c] = audit[c]
           /\ \A c \in 1..MaxEvents : audit'[c] = audit[c] \/ Ended(audit'[c].run)
           /\ asking # 0 => \/ audit'[asking] = audit[asking]
                            \/ audit'[asking].how = "outlived" /\ Mistaken(asking)
<1>1. /\ LedgerTyped /\ RuntimeTyped /\ Len(history) \in Nat /\ MaxEvents \in Nat
      /\ DOMAIN audit = 1..MaxEvents
  BY BasicFacts DEF LedgerTyped
<1>2. \A c \in Outlasted(n) : c \in 1..Len(history) /\ Outlived(c, n)
  BY <1>1 DEF Outlasted, LedgerTyped
<1>3. asking # 0 => asking \in 1..MaxEvents
  BY <1>1 DEF RuntimeTyped
<1>4. audit' = [c \in DOMAIN audit |->
                   IF c \in Outlasted(n) /\ audit[c] = Open THEN OutlivedOf(c, n) ELSE audit[c]]
  BY DEF Retires, Retire
<1>5. ASSUME asking # 0, asking \in Outlasted(n) PROVE Mistaken(asking)
  BY <1>2, <1>5, AskedLast
<1>6. \A c \in Outlasted(n) : Ended(OutlivedOf(c, n).run)
  BY <1>2, OutlivedEnded
<1>7. \A c \in 1..MaxEvents : \/ audit'[c] = audit[c]
                              \/ c \in Outlasted(n) /\ audit'[c] = OutlivedOf(c, n)
  BY <1>1, <1>4
<1>8. \A c \in 1..MaxEvents : c > Len(history) => c \notin Outlasted(n)
  BY <1>1, <1>2
<1>9. \A c : OutlivedOf(c, n).how = "outlived"
  BY DEF OutlivedOf
<1>10. \A c \in 1..MaxEvents : audit'[c] = audit[c] \/ Ended(audit'[c].run)
  BY <1>6, <1>7
<1> QED BY <1>3, <1>5, <1>7, <1>8, <1>9, <1>10

\* The runtime's steps: a turn asks, ends, or is begun when nothing is asked.
LEMMA CardRuntime ==
    ASSUME IInv, CardInv, Runtime
    PROVE  CardInv'
<1>1. /\ RuntimeTyped /\ LedgerTyped /\ OpTyped /\ Len(history) \in Nat /\ MaxEvents \in Nat
      /\ UNCHANGED <<audit, op>> /\ AskingInv
  BY BasicFacts DEF Runtime, TurnStarts, TurnAsks, ToolReturns, TurnContinues, TurnEnds,
                    HostStays, ledgerVars, IInv
<1>2. op.at = "waits" => 0 \notin op.held /\ Len(history) + 1 \notin op.held
  BY <1>1 DEF OpTyped, Ops
<1>3. CASE TurnStarts \/ TurnContinues
  <2>1. asking' = 0 /\ history' = history
    BY <1>1, <1>3 DEF TurnStarts, TurnContinues, AskingInv
  <2>2. \A c \in 1..MaxEvents : Ended(audit[c].run) => Ended(audit[c].run)'
    BY <1>1, <2>1 DEF Ended, EventsOf
  <2> QED BY <1>1, <1>2, <2>1, <2>2 DEF CardInv, LiveCardSurvives, Waiting
<1>4. ASSUME NEW kind, Happens(kind, turn),
             asking' = 0 \/ (asking' = Len(history) + 1 /\ Len(history) < MaxEvents)
      PROVE  CardInv'
  <2>1. Len(history') = Len(history) + 1 /\ \A r : Ended(r) => Ended(r)'
    BY <1>4, GrowthFacts
  <2>2. \A c \in 1..MaxEvents : Ended(audit[c].run) => Ended(audit[c].run)'
    BY <1>1, <2>1 DEF Ended, EventsOf
  <2>3. asking' # 0 => audit[asking'] = Open
    BY <1>1, <1>4 DEF CardInv
  <2> QED BY <1>1, <1>2, <1>4, <2>1, <2>2, <2>3 DEF CardInv, LiveCardSurvives, Waiting
<1>5. CASE \/ ToolReturns
           \/ \E kind \in Checkpoints : TurnAsks(kind)
           \/ \E kind \in Terminals : TurnEnds(kind)
  <2>1. \E kind : /\ Happens(kind, turn)
                  /\ asking' = 0 \/ (asking' = Len(history) + 1 /\ Len(history) < MaxEvents)
    BY <1>5 DEF ToolReturns, TurnAsks, TurnEnds, Room
  <2> QED BY <1>4, <2>1
<1> QED BY <1>3, <1>5 DEF Runtime

\* A message about a checkpoint that was outlived: a turn that is open by now
\* has been continued.
LEMMA CardDiscusses ==
    ASSUME IInv, ListInv, CardInv, NEW r \in Requests, NEW c \in 1..Len(history),
           DiscussSuspends(r, c)
    PROVE  CardInv'
<1>1. /\ LedgerTyped /\ RuntimeTyped /\ OpTyped /\ Len(history) \in Nat /\ op.at = "listed"
      /\ op.upto \in 0..Len(history) /\ Retires(op.upto) /\ AskingInv /\ MaxEvents \in Nat
  BY BasicFacts DEF DiscussSuspends, OpTyped, Ops, IInv
<1>2. UNCHANGED <<history, turn, asking, replied>> /\ cards' \subseteq cards
  BY <1>1 DEF DiscussSuspends, Cancelled, runtimeVars, Retires, Retire
<1>3. /\ \A d \in 1..MaxEvents : d > Len(history) => audit'[d] = audit[d]
      /\ \A d \in 1..MaxEvents : audit'[d] = audit[d] \/ Ended(audit'[d].run)
      /\ asking # 0 => \/ audit'[asking] = audit[asking]
                       \/ audit'[asking].how = "outlived" /\ Mistaken(asking)
  BY <1>1, OutlastedKeeps
<1>4. ASSUME op'.at = "waits", op'.end # 0, asking \in op'.held PROVE Continued(asking)
  <2>1. op'.held = cards' /\ ~op.ran /\ audit'[c].how = "outlived" /\ audit'[c].run = Latest
    BY <1>4, DiscussFacts DEF Idle
  <2>2. c \in 1..MaxEvents
    BY <1>1 DEF RuntimeTyped
  <2>3. Ended(Latest)
    BY <1>3, <2>1, <2>2 DEF CardInv
  <2>4. asking # 0
    BY <1>1, <1>2, <1>4, <2>1 DEF LedgerTyped
  <2>5. /\ asking = Len(history) /\ history[asking].kind \in Checkpoints
        /\ turn # NoRun /\ history[asking].run = turn
    BY <1>1, <2>4 DEF AskingInv
  <2>6. Ended(turn)
    BY <1>1, <2>1, <2>3, <2>5, OpenedFacts
  <2>7. PICK t \in 1..Len(history) : history[t].run = turn /\ history[t].kind \in Terminals
    BY <2>6 DEF Ended, EventsOf
  <2>8. t # asking
    BY <2>5, <2>7, KindFacts
  <2>9. t \in 1..(asking - 1)
    BY <1>1, <2>5, <2>7, <2>8
  <2> QED BY <2>5, <2>7, <2>9 DEF Continued
<1>5. Waiting' => Waiting
  BY <1>2 DEF Waiting
<1> QED BY <1>2, <1>3, <1>4, <1>5, CardKeeps DEF Waiting

\* A message about a checkpoint that goes on retires what was pending: a turn
\* that was cancelled asks nothing then, and one that asks was continued.
LEMMA CardResolves ==
    ASSUME IInv, CardInv, DiscussResolves
    PROVE  CardInv'
<1>1. /\ RuntimeTyped /\ OpTyped /\ AskingInv /\ Len(history) \in Nat
      /\ MaxEvents \in Nat /\ DOMAIN audit = 1..MaxEvents
  BY BasicFacts DEF LedgerTyped, IInv
<1>2. /\ UNCHANGED <<history, turn, asking, replied>> /\ op'.at = "suspended"
      /\ op.at = "waits" /\ (op.end = 0 => turn = NoRun)
      /\ audit' = [d \in DOMAIN audit |->
                      IF d \in op.held /\ audit[d] = Open THEN Resolved("superseded") ELSE audit[d]]
  BY DEF DiscussResolves, Retire, Idle, runtimeVars
<1>3. \A d \in op.held : d \in 1..Len(history)
  BY <1>1 DEF OpTyped, Ops
<1>4. \A d \in 1..MaxEvents : /\ d \notin op.held => audit'[d] = audit[d]
                              /\ audit'[d] = audit[d] \/ audit'[d].how = "superseded"
  BY <1>1, <1>2 DEF Resolved
<1>5. \A d \in 1..MaxEvents : d > Len(history) => audit'[d] = audit[d]
  BY <1>1, <1>3, <1>4
<1>6. Waiting => audit'[asking] = audit[asking]
                 \/ (audit'[asking].how = "superseded" /\ Continued(asking))
  <2>1. Waiting => asking \in 1..MaxEvents /\ op.end # 0
    BY <1>1, <1>2 DEF Waiting, AskingInv, RuntimeTyped
  <2>2. Waiting /\ asking \in op.held => Continued(asking)
    BY <1>2, <2>1 DEF CardInv
  <2> QED BY <1>4, <2>1, <2>2
<1>7. Waiting' <=> Waiting
  BY <1>2 DEF Waiting
<1> QED BY <1>2, <1>4, <1>5, <1>6, <1>7, CardKeeps

\* An answer retires the checkpoint it answers.
LEMMA CardAnswers ==
    ASSUME IInv, CardInv, NEW c \in cards, Answer(c)
    PROVE  CardInv'
<1>1. /\ LedgerTyped /\ Len(history) \in Nat /\ MaxEvents \in Nat
      /\ DOMAIN audit = 1..MaxEvents /\ seen \in 0..Len(history)
      /\ c \in 1..Len(history)
  BY BasicFacts DEF LedgerTyped
<1>2. UNCHANGED <<history, turn, asking, op>> /\ op.at = "idle"
  BY DEF Answer
<1>3. CASE Retires(seen)
  <2>1. Waiting' => Waiting
    BY <1>2 DEF Answer, Waiting
  <2>2. Waiting => asking # 0
    BY DEF Waiting
  <2> QED BY <1>1, <1>2, <1>3, <2>1, <2>2, OutlastedKeeps, CardKeeps
<1>4. CASE ~Retires(seen)
  <2>1. /\ ~Waiting'
        /\ Waiting
        /\ audit' = [d \in DOMAIN audit |->
                        IF d \in {c} \cup Outlasted(seen) /\ audit[d] = Open
                        THEN (IF d = c THEN Resolved("answered") ELSE OutlivedOf(d, seen))
                        ELSE audit[d]]
    BY <1>4 DEF Answer, Retire, Waiting
  <2>2. \A d \in {c} \cup Outlasted(seen) : d \in 1..Len(history)
    BY <1>1 DEF Outlasted, LedgerTyped
  <2>3. \A d \in 1..MaxEvents : d > Len(history) => audit'[d] = audit[d]
    <3>1. ASSUME NEW d \in 1..MaxEvents, d > Len(history) PROVE audit'[d] = audit[d]
      <4>1. d \notin {c} \cup Outlasted(seen)
        BY <1>1, <2>2, <3>1
      <4> QED BY <1>1, <2>1, <4>1
    <3> QED BY <3>1
  <2>4. \A d \in Outlasted(seen) : Ended(OutlivedOf(d, seen).run)
    BY <1>1, <2>2, OutlivedEnded DEF Outlasted
  <2>5. \A d \in 1..MaxEvents : \/ audit'[d] = audit[d] \/ audit'[d].how # "outlived"
                                \/ Ended(audit'[d].run)
    BY <1>1, <2>1, <2>4 DEF Resolved
  <2>6. \A d \in 1..MaxEvents : /\ d > Len(history) => audit'[d] = Open
                                /\ audit'[d].how = "outlived" => Ended(audit'[d].run)
    BY <2>3, <2>5 DEF CardInv
  <2>7. \A d \in 1..MaxEvents : Ended(audit'[d].run) => Ended(audit[d].run)'
    BY <1>2 DEF Ended, EventsOf
  <2> QED BY <1>2, <2>1, <2>6, <2>7 DEF CardInv, LiveCardSurvives
<1> QED BY <1>3, <1>4

\* The other handlers.
LEMMA CardHandlers ==
    ASSUME IInv, CardInv,
           \/ Refresh \/ HubHears \/ HubForgets \/ Submit \/ Reads \/ Lists \/ DiscussGivesUp
           \/ CancelFences \/ CancelSignals \/ CancelRecords \/ Crash \/ UNCHANGED vars
    PROVE  CardInv'
<1>1. /\ RuntimeTyped /\ LedgerTyped /\ OpTyped /\ Len(history) \in Nat
      /\ op \in Ops(Len(history)) /\ op.upto \in 0..Len(history)
  BY BasicFacts DEF OpTyped, Ops
<1>2. CASE Refresh
  <2>1. PICK degraded \in BOOLEAN : Settles(degraded)
    BY <1>2 DEF Refresh, RefreshSettles, ArchiveSettles
  <2>2. UNCHANGED <<history, asking, replied>> /\ Retires(op.upto) /\ op'.at = "idle"
    BY <2>1 DEF Settles, runtimeVars, Idle
  <2>3. (Waiting' => Waiting) /\ (Waiting => asking # 0)
    BY <2>2 DEF Waiting
  <2> QED BY <1>1, <2>2, <2>3, OutlastedKeeps, CardKeeps
<1>3. CASE ~Refresh
  <2>1. UNCHANGED <<history, asking, replied, audit>>
    BY <1>3 DEF HubHears, HubForgets, Submit, SubmitAppends, SubmitPrompts, Prompted, Reads, Lists,
                DiscussGivesUp, CancelFences, CancelSignals, CancelRecords, Cancelled, Crash,
                vars, runtimeVars, ledgerVars
  <2>2. Waiting' => Waiting
    BY <2>1 DEF Waiting
  <2>3. CASE op' = op
    BY <2>1, <2>2, <2>3, CardKeeps DEF CardInv
  <2>4. CASE op' # op
    <3>1. \/ op' = Idle
          \/ \E r \in Requests : op' = [Idle EXCEPT !.at = "appended", !.req = r]
          \/ op' = [Idle EXCEPT !.at = "reads", !.upto = Len(history)]
          \/ op' = [Idle EXCEPT !.at = "fenced"]
          \/ op' = [op EXCEPT !.at = "listed", !.ran = (turn # NoRun)]
          \/ op' = [op EXCEPT !.at = "signalled", !.ran = (turn # NoRun)]
      BY <1>3, <2>4 DEF HubHears, HubForgets, Submit, SubmitAppends, SubmitPrompts, Reads, Lists,
                        DiscussGivesUp, CancelFences, CancelSignals, CancelRecords, Crash, vars
    <3>2. op'.at # "waits"
      <4>1. ASSUME op' = Idle PROVE op'.at # "waits"
        BY <4>1 DEF Idle
      <4>2. ASSUME NEW r \in Requests, op' = [Idle EXCEPT !.at = "appended", !.req = r]
            PROVE  op'.at # "waits"
        BY <4>2 DEF Idle
      <4>3. ASSUME op' = [Idle EXCEPT !.at = "reads", !.upto = Len(history)]
            PROVE  op'.at # "waits"
        BY <4>3 DEF Idle
      <4>4. ASSUME op' = [Idle EXCEPT !.at = "fenced"] PROVE op'.at # "waits"
        BY <4>4 DEF Idle
      <4>5. ASSUME op' = [op EXCEPT !.at = "listed", !.ran = (turn # NoRun)]
            PROVE  op'.at # "waits"
        BY <1>1, <4>5 DEF Ops
      <4>6. ASSUME op' = [op EXCEPT !.at = "signalled", !.ran = (turn # NoRun)]
            PROVE  op'.at # "waits"
        BY <1>1, <4>6 DEF Ops
      <4> QED BY <3>1, <4>1, <4>2, <4>3, <4>4, <4>5, <4>6
    <3> QED BY <2>1, <2>2, <3>2, CardKeeps
  <2> QED BY <2>3, <2>4
<1> QED BY <1>2, <1>3

\* Every step keeps it.
LEMMA CardStep ==
    ASSUME IInv, ListInv, CardInv, [Next]_vars
    PROVE  CardInv'
<1>1. CASE Runtime
  BY <1>1, CardRuntime
<1>2. CASE \E r \in Requests, c \in 1..Len(history) : DiscussSuspends(r, c)
  BY <1>2, CardDiscusses
<1>3. CASE DiscussResolves
  BY <1>3, CardResolves
<1>4. CASE Answers
  BY <1>4, CardAnswers DEF Answers
<1> QED BY <1>1, <1>2, <1>3, <1>4, CardHandlers DEF Next, Discuss

\* The first state asks nothing.
LEMMA CardInit == Init => CardInv
<1> SUFFICES ASSUME Init PROVE CardInv
  OBVIOUS
<1>1. asking = 0 /\ op.at = "idle" /\ \A c \in 1..MaxEvents : audit[c] = Open
  BY DEF Init, Idle
<1>2. Open.how # "outlived"
  BY DEF Open, Resolved
<1> QED BY <1>1, <1>2 DEF CardInv, LiveCardSurvives, Waiting

\* The queue and what opens behind an observation, in every state.
LEMMA Observed == Spec => []QueueInv /\ []ListInv
<1>1. Spec => []QueueInv
  BY Invariance, QueueInit, QueueStep, PTL DEF Spec
<1> QED BY <1>1, Invariance, ListInit, ListStep, PTL DEF Spec

\* No handler retires the checkpoint the agent waits for, except for a question
\* it is taken for and a turn that went on (AgentTurns.LiveCardSurvives).
THEOREM LiveCardsSurvive == Spec => []LiveCardSurvives
<1>1. Init => CardInv
  BY CardInit
<1>2. IInv /\ ListInv /\ CardInv /\ [Next]_vars => CardInv'
  BY CardStep
<1>3. CardInv => LiveCardSurvives
  BY DEF CardInv
<1> QED BY <1>1, <1>2, <1>3, Invariance, Observed, PTL DEF Spec

-----------------------------------------------------------------------------
(* Archiving.                                                                *)

\* If a message waits when a task is archived, or a turn is open that has not
\* ended before, the latest run was reported to have failed or been cancelled,
\* which the runtime says nothing of.
LEMMA ArchiveStep ==
    ASSUME IInv, QueueInv, ListInv, CompletedIsTrue',
           NEW degraded \in BOOLEAN, ArchiveSettles(degraded)
    PROVE  \/ /\ queue = <<>>
              /\ turn # NoRun => Ended(turn)
           \/ Latest # NoRun /\ ~OwnOutcome(Latest)'
<1>1. /\ op.at = "listed" /\ ~op.ran /\ op.upto \in 0..Len(history) /\ Len(history) \in Nat
      /\ queue \in Seq(Requests) /\ DOMAIN queue = 1..Len(queue)
      /\ DOMAIN history = 1..Len(history)
  BY BasicFacts DEF ArchiveSettles, MayArchive, OpTyped, Ops, RuntimeTyped
<1>2. /\ status' = Settled(op.upto, degraded)
      /\ UNCHANGED <<history, runs, dropped>> /\ Latest' = Latest
  BY DEF ArchiveSettles, Settles, runtimeVars, ghostVars, Latest
<1>3. SUFFICES ASSUME queue # <<>> \/ (turn # NoRun /\ ~Ended(turn))
               PROVE  Latest # NoRun /\ ~OwnOutcome(Latest)'
  OBVIOUS
<1>4. Latest \in Requests /\ Latest # NoRun
  <2>1. queue # <<>> => queue[1] \in ToSet(queue)
    <3>1. queue # <<>> => 1 \in DOMAIN queue
      BY <1>1
    <3> QED BY <3>1 DEF ToSet
  <2>2. Submitted # {} /\ NoRun \notin Requests
    BY <1>3, <2>1 DEF IInv, SubmittedInv, NoRun, Requests
  <2> QED BY <2>2, BasicFacts
<1>5. Latest \notin dropped /\ ~Ended(Latest)
  <2>1. CASE queue # <<>>
    <3>1. Latest \notin dropped /\ \A i \in 1..Len(history) : history[i].run # Latest
      BY <1>1, <2>1 DEF QueueInv
    <3> QED BY <3>1 DEF Ended, EventsOf
  <2>2. CASE turn # NoRun /\ ~Ended(turn)
    BY <1>1, <2>2 DEF ListInv
  <2> QED BY <1>3, <2>1, <2>2
<1>6. \A i \in 1..Len(history) : ~ (history[i].run = Latest /\ history[i].kind \in Terminals)
  BY <1>5 DEF Ended, EventsOf
<1>7. \A kind \in Terminals : EventsOf(Latest, {kind}, Len(history))' = {}
  BY <1>2, <1>6 DEF EventsOf
<1>8. status'[Latest] \in {"completed", "failed", "cancelled"}
  <2>1. ~ObservedTerminal(Latest, op.upto)
    BY <1>1, <1>6 DEF ObservedTerminal, EventsOf
  <2> QED BY <1>2, <1>4, <2>1 DEF ArchiveSettles, MayArchive
<1>9. status'[Latest] # "completed"
  BY <1>2, <1>4, <1>7 DEF CompletedIsTrue, Terminals
<1> QED BY <1>2, <1>4, <1>5, <1>7, <1>8, <1>9 DEF OwnOutcome, Terminals

\* archive_task: archiving strands no message, unless the outcome of the latest
\* run was not its own (AgentTurns.NoMessageStranded).
THEOREM ArchivingStrandsNothing == Spec => NoMessageStranded
<1>1. ASSUME IInv, QueueInv, ListInv, CompletedIsTrue', [Next]_vars,
             ~archived, archived'
      PROVE  \/ /\ queue = <<>>
                /\ turn # NoRun => Ended(turn)
             \/ Latest # NoRun /\ ~OwnOutcome(Latest)'
  <2>1. archived' # archived
    BY <1>1
  <2>2. \E degraded \in BOOLEAN : ArchiveSettles(degraded)
    BY <1>1, <2>1 DEF Next, Runtime, TurnStarts, TurnAsks, ToolReturns, TurnContinues, TurnEnds,
              HostStays, HubHears, HubForgets, Submit, SubmitAppends, SubmitPrompts, Reads, Lists,
              Refresh, RefreshSettles, Discuss, DiscussSuspends, DiscussResolves, DiscussGivesUp,
              CancelFences, CancelSignals, CancelRecords, Answers, Answer, Crash, vars, ledgerVars
  <2> QED BY <1>1, <2>2, ArchiveStep
<1>2. IInv /\ QueueInv /\ ListInv /\ CompletedIsTrue' /\ [Next]_vars =>
        [~archived /\ archived' =>
            \/ /\ queue = <<>>
               /\ turn # NoRun => EventsOf(turn, Terminals, Len(history)) # {}
            \/ Latest # NoRun /\ ~OwnOutcome(Latest)']_vars
  BY <1>1 DEF Ended
<1> QED BY <1>2, Observed, Invariance, CompletionIsEarned, PTL DEF Spec, NoMessageStranded
=============================================================================
