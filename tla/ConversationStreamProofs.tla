----------------------- MODULE ConversationStreamProofs -----------------------
(* Proofs about ConversationStream for any requests, entries and bounds.     *)
EXTENDS ConversationStream, FiniteSetTheorems, TLAPS

\* What the arguments need to know of the hub's type.
HubFields == {"id", "stream", "history", "cursor", "latest", "fatal"}
HubOK == DOMAIN hub = HubFields /\ hub.cursor \in Nat

\* The strengthening of Attended: whoever is connected has a producer, or an
\* error to read that ended the epoch, at every place of its subscription.
ProducedFor ==
    at \in Connected /\ ~Closed => producer # "none" \/ hub.fatal # 0

IInv == HubOK /\ OneHub /\ ClosedMeansQuiet /\ ProducedFor

-----------------------------------------------------------------------------
(* What the helpers do to the hub.                                           *)

\* A hub that has the same identity and fate.
SameHub(g, h) ==
    /\ DOMAIN g = HubFields /\ g.cursor \in Nat
    /\ g.id = h.id /\ g.fatal = h.fatal

\* An appended record moves the cursor, and nothing that identifies the hub.
LEMMA AppendedFacts ==
    ASSUME NEW h, DOMAIN h = HubFields, h.cursor \in Nat, NEW r
    PROVE  SameHub(AppendLocked(h, r), h) /\ AppendLocked(h, r).cursor = h.cursor + 1
  BY DEF AppendLocked, SameHub, HubFields

\* Publishing what a projection changed keeps the hub.
LEMMA ChangesFacts ==
    ASSUME NEW h, DOMAIN h = HubFields, h.cursor \in Nat, NEW before, NEW after
    PROVE  SameHub(WithChanges(h, before, after), h)
<1>1. SameHub(WithDelta(h, before, after), h)
  <2>1. SameHub(h, h)
    BY DEF SameHub
  <2> QED BY <2>1, AppendedFacts DEF WithDelta
<1>2. SameHub(WithState(WithDelta(h, before, after), before, after), h)
  <2> DEFINE d == WithDelta(h, before, after)
  <2>1. /\ DOMAIN d = HubFields /\ d.cursor \in Nat
        /\ d.id = h.id /\ d.fatal = h.fatal
    BY <1>1 DEF SameHub
  <2> HIDE DEF d
  <2>2. \A r : SameHub(AppendLocked(d, r), d)
    BY <2>1, AppendedFacts
  <2>3. \A r : SameHub(AppendLocked(d, r), h)
    BY <2>1, <2>2 DEF SameHub
  <2>4. SameHub(d, h)
    BY <2>1 DEF SameHub
  <2>5. SameHub(WithState(d, before, after), h)
    BY <2>3, <2>4 DEF WithState
  <2> QED BY <2>5 DEF d
<1>3. SameHub(AppendLocked(h, [event |-> "snapshot", body |-> after]), h)
  BY AppendedFacts
<1> QED BY <1>2, <1>3 DEF WithChanges

\* So does accepting a projection, for whoever it is done.
LEMMA AcceptedFacts ==
    ASSUME HubOK, NEW conv
    PROVE  SameHub(Accepted(conv), hub)
<1> DEFINE h == [hub EXCEPT !.latest = conv]
<1>1. /\ DOMAIN h = HubFields /\ h.cursor \in Nat
      /\ h.id = hub.id /\ h.fatal = hub.fatal
  BY DEF HubOK, HubFields
<1>2. SameHub(hub, hub)
  BY DEF HubOK, SameHub
<1>3. SameHub(WithChanges(h, hub.latest, conv), h)
  <2> HIDE DEF h
  <2> QED BY <1>1, ChangesFacts
<1>4. SameHub(WithChanges(h, hub.latest, conv), hub)
  BY <1>1, <1>3 DEF SameHub
<1> QED BY <1>2, <1>4 DEF Accepted

\* A new epoch, or a new hub, starts its numbers again without an error.
LEMMA NewHubFacts ==
    ASSUME NEW n
    PROVE  /\ DOMAIN NewHub(n) = HubFields
           /\ NewHub(n).cursor = 0 /\ NewHub(n).id = n /\ NewHub(n).fatal = 0
  BY DEF NewHub, HubFields

-----------------------------------------------------------------------------
(* Every kind of step keeps the invariant.                                   *)

\* No client and no projection at first.
LEMMA InitStep == Init => IInv
  BY DEF Init, IInv, HubOK, HubFields, OneHub, ClosedMeansQuiet, ProducedFor, Connected,
         Closed

\* The producer stops only where nobody is connected, the hub is closed, or it
\* has left an error; it starts a projection only of an open hub.
LEMMA ProducerSteps ==
    ASSUME IInv, Produce
    PROVE  IInv'
<1> USE DEF IInv, OneHub, ClosedMeansQuiet, ProducedFor, Closed, TakesMutex, clientVars
<1>1. CASE ProducerWakes
  BY <1>1 DEF ProducerWakes, Idle, Subscribed, HubOK
<1>2. CASE ProducerAsks
  BY <1>2 DEF ProducerAsks, HubOK
<1>3. CASE ProducerAccepts
  <2>1. SameHub(hub', hub)
    <3>1. PICK conv \in Turns \cup {truth} :
             hub' = Accepted(conv) \/ hub' = AppendLocked(Accepted(conv), Beat)
      BY <1>3 DEF ProducerAccepts
    <3>2. SameHub(Accepted(conv), hub)
      BY AcceptedFacts
    <3> DEFINE g == Accepted(conv)
    <3>3. DOMAIN g = HubFields /\ g.cursor \in Nat /\ g.id = hub.id /\ g.fatal = hub.fatal
      BY <3>2 DEF SameHub
    <3> HIDE DEF g
    <3>4. SameHub(AppendLocked(g, Beat), hub)
      BY <3>3, AppendedFacts DEF SameHub
    <3> QED BY <3>1, <3>2, <3>4 DEF g
  <2>2. HubOK' /\ hub'.id = hub.id /\ hub'.fatal = hub.fatal
    BY <2>1 DEF SameHub, HubOK
  <2>3. /\ worker' = FALSE /\ holder' = Nobody
        /\ producer' = IF Idle THEN "none" ELSE "ready"
        /\ UNCHANGED <<shutdown, others, at, pinned>>
    BY <1>3 DEF ProducerAccepts, Returned
  <2> QED BY <2>2, <2>3 DEF Idle, Subscribed
<1>4. CASE ProducerFails
  <2>1. /\ worker' = FALSE /\ holder' = Nobody /\ producer' = "none"
        /\ UNCHANGED <<shutdown, others, at, pinned>>
    BY <1>4 DEF ProducerFails, Returned
  <2>2. CASE Idle
    BY <1>4, <2>1, <2>2 DEF ProducerFails, Idle, Subscribed, HubOK
  <2>3. CASE ~Idle
    <3> DEFINE h == AppendLocked(hub, Error)
    <3>1. hub' = [h EXCEPT !.fatal = h.cursor]
      BY <1>4, <2>3 DEF ProducerFails
    <3>2. DOMAIN h = HubFields /\ h.id = hub.id /\ h.cursor \in Nat /\ h.cursor # 0
      BY AppendedFacts DEF HubOK, SameHub
    <3> HIDE DEF h
    <3>3. HubOK' /\ hub'.id = hub.id /\ hub'.fatal # 0
      BY <3>1, <3>2 DEF HubOK, HubFields
    <3> QED BY <2>1, <3>3
  <2> QED BY <2>2, <2>3
<1> QED BY <1>1, <1>2, <1>3, <1>4 DEF Produce

\* GET requests leave the producer alone and project only for an open hub.
LEMMA GetterSteps ==
    ASSUME IInv, NEW g \in Getters, Get(g)
    PROVE  IInv'
<1> USE DEF IInv, OneHub, ClosedMeansQuiet, ProducedFor, Closed, TakesMutex, clientVars
<1>1. CASE GetAsks(g)
  BY <1>1 DEF GetAsks, HubOK
<1>2. CASE GetProjects(g)
  BY <1>2 DEF GetProjects, HubOK
<1>3. CASE GetReturns(g)
  <2>1. PICK conv : hub' = Accepted(conv)
    BY <1>3 DEF GetReturns
  <2>2. HubOK' /\ hub'.id = hub.id /\ hub'.fatal = hub.fatal
    BY <2>1, AcceptedFacts DEF SameHub, HubOK
  <2>3. /\ worker' = FALSE /\ holder' = Nobody
        /\ UNCHANGED <<producer, shutdown, others, at, pinned>>
    BY <1>3 DEF GetReturns, Returned
  <2> QED BY <2>2, <2>3
<1>4. CASE GetFails(g)
  BY <1>4 DEF GetFails, Returned, HubOK
<1>5. CASE GetCancelled(g)
  BY <1>5 DEF GetCancelled, HubOK
<1> QED BY <1>1, <1>2, <1>3, <1>4, <1>5 DEF Get

\* A subscription begins with a producer, on the hub it has reserved.
LEMMA RegisterSteps ==
    ASSUME IInv, Register \/ OthersRegister
    PROVE  IInv'
<1>1. \/ StartsProducer
      \/ producer # "none" /\ UNCHANGED <<producer, hub>>
  BY DEF Register, OthersRegister
<1>2. HubOK' /\ hub'.id = hub.id /\ producer' # "none"
  <2>1. CASE StartsProducer
    BY <2>1, NewHubFacts DEF StartsProducer, IInv, HubOK
  <2> QED BY <1>1, <2>1 DEF IInv, HubOK
<1>3. /\ UNCHANGED <<worker, holder, shutdown, pinned>>
      /\ at' # "away" => at # "away"
  BY DEF Register, OthersRegister
<1> QED BY <1>2, <1>3 DEF IInv, OneHub, ClosedMeansQuiet, ProducedFor

\* What a subscription does later, and that it ends, leaves the hub alone.
LEMMA SubscriptionSteps ==
    ASSUME IInv, Reserve \/ Ready \/ Send \/ Wake \/ Disconnect \/ OthersLeave
    PROVE  IInv'
<1> USE DEF hubVars, Leaves, Connected, AfterBatch
<1>1. UNCHANGED hubVars
  BY DEF Reserve, Ready, Send, Wake, Disconnect, OthersLeave
<1>2. at' \in Connected => at \in Connected
  BY DEF Reserve, Ready, Send, Wake, Disconnect, OthersLeave
<1>3. at' # "away" => \/ pinned' = hub.id
                      \/ at # "away" /\ pinned' = pinned
  BY DEF Reserve, Ready, Send, Wake, Disconnect, OthersLeave
<1> QED
  BY <1>1, <1>2, <1>3 DEF IInv, HubOK, OneHub, ClosedMeansQuiet, ProducedFor, Closed

\* The broker drops a hub nobody has reserved, and closes it for good.
LEMMA BrokerSteps ==
    ASSUME IInv, WorkerEnds \/ Evict \/ Close \/ CloseReturns
    PROVE  IInv'
<1> USE DEF IInv, OneHub, ClosedMeansQuiet, ProducedFor, Closed, clientVars
<1>1. CASE WorkerEnds
  BY <1>1 DEF WorkerEnds, HubOK
<1>2. CASE Evict
  BY <1>2, NewHubFacts DEF Evict, Reserved, HubOK, Connected
<1>3. CASE Close
  BY <1>3 DEF Close, HubOK
<1>4. CASE CloseReturns
  BY <1>4 DEF CloseReturns, HubOK
<1> QED BY <1>1, <1>2, <1>3, <1>4

\* The invariant holds whatever clients, requests and projections do.
THEOREM Invariance == Spec => []IInv
<1>1. ASSUME IInv, [Next]_vars PROVE IInv'
  <2>1. CASE UNCHANGED vars
    BY <1>1, <2>1 DEF vars, hubVars, clientVars, IInv, HubOK, OneHub, ClosedMeansQuiet,
           ProducedFor, Closed
  <2>2. CASE Next
    BY <1>1, <2>2, ProducerSteps, GetterSteps, RegisterSteps, SubscriptionSteps, BrokerSteps
       DEF Next, Subscribe
  <2> QED BY <1>1, <2>1, <2>2
<1> QED BY <1>1, InitStep, PTL DEF Spec

\* A subscriber, from its reservation on, uses the hub the broker knows.
THEOREM HubIsPinned == Spec => []OneHub
<1>1. IInv => OneHub
  BY DEF IInv
<1> QED BY <1>1, Invariance, PTL

\* Once close() is back, no projection touches the runtime again.
THEOREM CloseIsQuiet == Spec => []ClosedMeansQuiet
<1>1. IInv => ClosedMeansQuiet
  BY DEF IInv
<1> QED BY <1>1, Invariance, PTL

\* Nobody waits for records that nobody will produce.
THEOREM NobodyWaitsInVain == Spec => []Attended
<1>1. IInv => Attended
  BY DEF IInv, ProducedFor, Attended, UpToDate, Connected
<1> QED BY <1>1, Invariance, PTL

-----------------------------------------------------------------------------
(* What a client has, next to what the hub has projected.                    *)

\* The records of a history or a batch, and that they are in their order.
Recs(s) == {s[i] : i \in DOMAIN s}
Ordered(s) == \A i, j \in DOMAIN s : i < j => s[i].cursor < s[j].cursor

\* The records after cursor n, and those up to it.
After(s, n) == {r \in Recs(s) : r.cursor > n}
UpTo(s, n) == {r \in Recs(s) : r.cursor <= n}

\* Records A come before records B; a cursor names one of them.
Before(A, B) == \A a \in A, b \in B : a.cursor < b.cursor
Distinct(A) == \A q, r \in A : q.cursor = r.cursor => q = r

Adds(r) == r.event \in {"snapshot", "delta"}
Sets(r) == r.event \in {"snapshot", "state"}
Whole(r) == r.event = "snapshot"

\* Records R, applied in their order, turn conversation v into c: an entry of c
\* comes from a record no snapshot follows, or from v; the state is the last.
YieldsItems(v, R, c) ==
    \A e \in Entries : e \in c.items <=>
        \/ \E r \in R : /\ Adds(r)
                        /\ e \in r.body.items
                        /\ \A s \in R : Whole(s) => s.cursor <= r.cursor
        \/ e \in v.items /\ \A s \in R : ~Whole(s)
YieldsState(v, R, c) ==
    \/ \E r \in R : /\ Sets(r)
                    /\ c.state = r.body.state
                    /\ \A s \in R : Sets(s) => s.cursor <= r.cursor
    \/ c.state = v.state /\ \A s \in R : ~Sets(s)
Yields(v, R, c) == YieldsItems(v, R, c) /\ YieldsState(v, R, c)

\* The history reaches back to cursor n: no record after it has been dropped.
Reaches(h, n) ==
    \/ n = h.cursor
    \/ \E r \in Recs(h.history) :
          /\ r.cursor <= n + 1
          /\ Semantic(r) \/ \E s \in Recs(h.history) :
                               Semantic(s) /\ s.cursor = r.cursor + 1

\* What follows cursor n turns v into c, if the history reaches back to it and
\* no error has ended the epoch before.
Fits(h, v, n, c) ==
    Reaches(h, n) /\ (h.fatal = 0 \/ n < h.fatal) => Yields(v, After(h.history, n), c)

Hubs == [id : Nat, stream : Nat \ {0}, history : Seq(Records), cursor : Nat,
         latest : Views, fatal : Nat]

HistoryOK(h) ==
    /\ h \in Hubs
    /\ Ordered(h.history)
    /\ \A r \in Recs(h.history) : r.cursor \in 1 .. h.cursor
    /\ \A r, s \in Recs(h.history) : ~Semantic(r) /\ ~Semantic(s) => r = s
    /\ h.cursor # 0 => /\ \E r \in Recs(h.history) : Semantic(r)
                       /\ \E r \in Recs(h.history) : r.cursor = h.cursor
    /\ Cardinality(Semantics(h.history)) <= HistoryLimit
    /\ h.fatal <= h.cursor

\* Nothing but the error that ended it comes before the first projection.
LatestOK ==
    /\ hub.latest # Unknown => hub.cursor # 0
    /\ hub.latest = Unknown =>
          \A r \in Recs(hub.history) :
             r.event = "error" /\ hub.fatal # 0 /\ r.cursor >= hub.fatal

\* Where everybody is.
PlacesOK ==
    /\ truth \in Conversations
    /\ producer \in {"none", "asking", "projecting", "ready"}
    /\ holder \in {Nobody, Producer} \cup Getters
    /\ holder = Producer => producer = "projecting"
    /\ hub.fatal # 0 => producer = "none"
    /\ at \in {"away", "reserved"} \cup Connected
    /\ batch \in Seq(Records) /\ Ordered(batch)
    /\ at = "sending" <=> batch # <<>>
    /\ view \in Bodies
    /\ token \in [stream : Nat, seq : Nat] /\ token.stream <= hub.stream

\* A client that has v is up to date once it has been sent the rest, wherever
\* batch b leaves off.
BatchFits(h, v, b) ==
    \A r \in Recs(b) :
        /\ r.cursor <= h.cursor
        /\ \A c \in Bodies : Yields(v, UpTo(b, r.cursor), c) => Fits(h, c, r.cursor, h.latest)
        /\ h.latest = Unknown => r.event = "error" /\ h.fatal # 0

\* So is one at the cursor it was last sent, if that was in this epoch.
TokenFits(h) ==
    token.stream = h.stream =>
        /\ token.seq <= h.cursor
        /\ Fits(h, view, token.seq, h.latest)
        /\ \A r \in Recs(batch) : r.cursor > token.seq \/ r.event = "snapshot"
        /\ h.latest = Unknown => at \in {"away", "reserved"} /\ h.fatal # 0

ClientOK ==
    ~astray =>
        /\ TokenFits(hub) /\ BatchFits(hub, view, batch)
        /\ at = "live" /\ ~Closed => token.stream = hub.stream

CInv == HistoryOK(hub) /\ LatestOK /\ PlacesOK /\ ClientOK

-----------------------------------------------------------------------------
(* What a selection of a sequence consists of.                               *)

\* The rank of a position in a set of positions.
Rank(I, i) == Cardinality({j \in I : j <= i})

LEMMA RankFacts ==
    ASSUME NEW n \in Nat, NEW I \in SUBSET (1 .. n)
    PROVE  /\ IsFiniteSet(I) /\ Cardinality(I) \in Nat
           /\ \A i \in I : Rank(I, i) \in 1 .. Cardinality(I)
           /\ \A i, j \in I : i < j => Rank(I, i) < Rank(I, j)
           /\ \A k \in 1 .. Cardinality(I) : \E i \in I : Rank(I, i) = k
<1>1. IsFiniteSet(I) /\ Cardinality(I) \in Nat
  <2>1. IsFiniteSet(1 .. n)
    BY FS_Interval
  <2> QED BY <2>1, FS_Subset, FS_CardinalityType
<1> DEFINE Upto(i) == {j \in I : j <= i}
<1>2. \A i : IsFiniteSet(Upto(i)) /\ Cardinality(Upto(i)) \in Nat
             /\ Cardinality(Upto(i)) <= Cardinality(I)
  <2> TAKE i
  <2>1. Upto(i) \in SUBSET I
    OBVIOUS
  <2> HIDE DEF Upto
  <2> QED BY <1>1, <2>1, FS_Subset, FS_CardinalityType
<1>3. ASSUME NEW i \in I PROVE Rank(I, i) \in 1 .. Cardinality(I)
  <2>1. i \in Upto(i)
    OBVIOUS
  <2>2. Upto(i) # {}
    BY <2>1
  <2> HIDE DEF Upto
  <2>3. Cardinality(Upto(i)) # 0
    BY <1>2, <2>2, FS_EmptySet
  <2>4. Cardinality(Upto(i)) \in 1 .. Cardinality(I)
    BY <1>1, <1>2, <2>3
  <2> QED BY <2>4 DEF Rank, Upto
<1>4. ASSUME NEW i \in I, NEW j \in I, i < j PROVE Rank(I, i) < Rank(I, j)
  <2>0. i \in Int /\ j \in Int /\ I \subseteq Int
    OBVIOUS
  <2>1. Upto(i) \in SUBSET Upto(j) /\ j \in Upto(j) /\ j \notin Upto(i)
    <3>1. \A x \in I : x <= i => x <= j
      BY <1>4, <2>0
    <3>2. j <= j /\ ~(j <= i)
      BY <1>4, <2>0
    <3> QED BY <3>1, <3>2
  <2>2. Upto(i) # Upto(j)
    BY <2>1
  <2> HIDE DEF Upto
  <2>3. Cardinality(Upto(i)) <= Cardinality(Upto(j)) /\ Cardinality(Upto(i)) # Cardinality(Upto(j))
    BY <1>2, <2>1, <2>2, FS_Subset
  <2>4. Cardinality(Upto(i)) < Cardinality(Upto(j))
    BY <1>2, <2>3
  <2> QED BY <2>4 DEF Rank, Upto
<1>5. ASSUME NEW k \in 1 .. Cardinality(I) PROVE \E i \in I : Rank(I, i) = k
  <2> DEFINE m == Cardinality(I)
             f == [i \in I |-> Rank(I, i)]
  <2>1. f \in [I -> 1 .. m]
    BY <1>3
  <2>2. \A i, j \in I : f[i] = f[j] => i = j
    <3> TAKE i \in I, j \in I
    <3>1. CASE i < j
      BY <1>3, <1>4, <3>1
    <3>2. CASE j < i
      BY <1>3, <1>4, <3>2
    <3>3. CASE i = j
      BY <3>3
    <3> QED BY <3>1, <3>2, <3>3
  <2>3. f \in Injection(I, 1 .. m)
    BY <2>1, <2>2 DEF Injection, IsInjective
  <2>4. IsFiniteSet(1 .. m) /\ Cardinality(1 .. m) = m
    BY <1>1, FS_Interval
  <2>5. f \in Surjection(I, 1 .. m)
    <3> HIDE DEF f
    <3> QED BY <2>3, <2>4, FS_Injection
  <2>6. \E i \in I : f[i] = k
    BY <2>5 DEF Surjection
  <2> QED BY <2>6
<1> QED BY <1>1, <1>3, <1>4, <1>5 DEF Rank

\* A selection holds the selected entries, in the order they had.
LEMMA InOrderFacts ==
    ASSUME NEW S, NEW s \in Seq(S), NEW I \in SUBSET DOMAIN s
    PROVE  /\ InOrder(s, I) \in Seq(S)
           /\ Len(InOrder(s, I)) = Cardinality(I)
           /\ Recs(InOrder(s, I)) = {s[i] : i \in I}
           /\ Ordered(s) => Ordered(InOrder(s, I))
<1> DEFINE n == Cardinality(I)
           Nth(k) == CHOOSE i \in I : Rank(I, i) = k
<1>1. I \in SUBSET (1 .. Len(s)) /\ Len(s) \in Nat /\ \A i \in I : s[i] \in S
  OBVIOUS
<1>2. /\ n \in Nat
      /\ \A i \in I : Rank(I, i) \in 1 .. n
      /\ \A i, j \in I : i < j => Rank(I, i) < Rank(I, j)
      /\ \A k \in 1 .. n : \E i \in I : Rank(I, i) = k
  BY <1>1, RankFacts
<1>3. InOrder(s, I) = [k \in 1 .. n |-> s[Nth(k)]]
  BY DEF InOrder, Rank
<1>4. \A k \in 1 .. n : Nth(k) \in I /\ Rank(I, Nth(k)) = k
  BY <1>2
<1> HIDE DEF n, Nth
<1>5. ASSUME NEW k \in 1 .. n, NEW m \in 1 .. n, k < m PROVE Nth(k) < Nth(m)
  <2>1. Nth(k) \in Int /\ Nth(m) \in Int
    BY <1>1, <1>4
  <2>2. Nth(k) # Nth(m)
    BY <1>4, <1>5
  <2>3. ~(Nth(m) < Nth(k))
    BY <1>2, <1>4, <1>5
  <2> QED BY <2>1, <2>2, <2>3
<1>6. ASSUME NEW i \in I PROVE \E k \in 1 .. n : Nth(k) = i
  <2> DEFINE k == Rank(I, i)
  <2>1. k \in 1 .. n /\ Nth(k) \in I /\ Rank(I, Nth(k)) = k
    BY <1>2, <1>4
  <2>2. Nth(k) \in Int /\ i \in Int
    BY <1>1, <2>1
  <2>3. ~(Nth(k) < i) /\ ~(i < Nth(k))
    BY <1>2, <2>1
  <2> QED BY <2>1, <2>2, <2>3
<1>7. InOrder(s, I) \in Seq(S) /\ Len(InOrder(s, I)) = n /\ DOMAIN InOrder(s, I) = 1 .. n
  BY <1>1, <1>2, <1>3, <1>4
<1>8. Recs(InOrder(s, I)) = {s[i] : i \in I}
  BY <1>3, <1>4, <1>6, <1>7 DEF Recs
<1>9. Ordered(s) => Ordered(InOrder(s, I))
  <2> SUFFICES ASSUME Ordered(s) PROVE Ordered(InOrder(s, I))
    OBVIOUS
  <2> SUFFICES ASSUME NEW k \in 1 .. n, NEW m \in 1 .. n, k < m
               PROVE  InOrder(s, I)[k].cursor < InOrder(s, I)[m].cursor
    BY <1>7 DEF Ordered
  <2>1. Nth(k) \in DOMAIN s /\ Nth(m) \in DOMAIN s /\ Nth(k) < Nth(m)
    BY <1>4, <1>5
  <2>2. s[Nth(k)].cursor < s[Nth(m)].cursor
    BY <2>1 DEF Ordered
  <2> QED BY <1>3, <2>2
<1> QED BY <1>7, <1>8, <1>9 DEF n

\* Records in the order of their cursors are as many as their positions.
LEMMA CountFacts ==
    ASSUME NEW s \in Seq(Records), Ordered(s), NEW I \in SUBSET DOMAIN s
    PROVE  /\ IsFiniteSet(I) /\ Cardinality(I) \in Nat
           /\ IsFiniteSet({s[i] : i \in I})
           /\ Cardinality({s[i] : i \in I}) = Cardinality(I)
<1> DEFINE T == {s[i] : i \in I}
           f == [i \in I |-> s[i]]
<1>1. IsFiniteSet(I) /\ Cardinality(I) \in Nat
  <2>1. I \in SUBSET (1 .. Len(s)) /\ Len(s) \in Nat
    OBVIOUS
  <2> QED BY <2>1, RankFacts
<1>2. ASSUME NEW i \in I, NEW j \in I, s[i] = s[j] PROVE i = j
  <2>0. i \in DOMAIN s /\ j \in DOMAIN s
    OBVIOUS
  <2>1. i \in Int /\ j \in Int /\ s[i].cursor \in Int /\ s[j].cursor \in Int
    <3>1. i \in Int /\ j \in Int /\ s[i] \in Records /\ s[j] \in Records
      BY <2>0
    <3> QED BY <3>1 DEF Records
  <2>2. ~(i < j) /\ ~(j < i)
    BY <1>2, <2>1 DEF Ordered
  <2> QED BY <2>1, <2>2
<1>3. f \in Bijection(I, T)
  BY <1>2 DEF Bijection, Injection, Surjection, IsInjective
<1>4. ExistsBijection(I, T)
  BY <1>3 DEF ExistsBijection
<1> HIDE DEF T
<1>5. IsFiniteSet(T) /\ Cardinality(T) = Cardinality(I)
  BY <1>1, <1>4, FS_Bijection
<1> QED BY <1>1, <1>5 DEF T

\* A cursor names one record.
LEMMA CursorNames ==
    ASSUME NEW s \in Seq(Records), Ordered(s)
    PROVE  /\ Recs(s) \subseteq Records
           /\ Distinct(Recs(s))
<1>1. Recs(s) \subseteq Records
  BY DEF Recs
<1>2. ASSUME NEW i \in DOMAIN s, NEW j \in DOMAIN s, s[i].cursor = s[j].cursor PROVE i = j
  <2>0. i \in DOMAIN s /\ j \in DOMAIN s
    OBVIOUS
  <2>1. i \in Int /\ j \in Int /\ s[i].cursor \in Int /\ s[j].cursor \in Int
    <3>1. i \in Int /\ j \in Int /\ s[i] \in Records /\ s[j] \in Records
      BY <2>0
    <3> QED BY <3>1 DEF Records
  <2>2. ~(i < j) /\ ~(j < i)
    BY <1>2, <2>1 DEF Ordered
  <2> QED BY <2>1, <2>2
<1> QED BY <1>1, <1>2 DEF Recs, Distinct

-----------------------------------------------------------------------------
(* What records make of a conversation.                                      *)

\* Nothing, if there are none.
LEMMA NothingYields ==
    ASSUME NEW v \in Bodies, NEW c \in Bodies
    PROVE  Yields(v, {}, c) <=> c = v
<1>1. /\ v.items \subseteq Entries /\ c.items \subseteq Entries
      /\ c = v <=> c.items = v.items /\ c.state = v.state
  BY DEF Bodies
<1>2. YieldsItems(v, {}, c) <=> c.items = v.items
  BY <1>1 DEF YieldsItems
<1>3. YieldsState(v, {}, c) <=> c.state = v.state
  BY DEF YieldsState
<1> QED BY <1>1, <1>2, <1>3 DEF Yields

\* One record: what the client does with it.
LEMMA RecordYields ==
    ASSUME NEW v \in Bodies, NEW r \in Records
    PROVE  Apply(v, r) \in Bodies /\ Yields(v, {r}, Apply(v, r))
<1>1. /\ r.cursor \in Nat /\ r.event \in Events /\ r.body \in Bodies
      /\ r.body.items \subseteq Entries /\ v.items \subseteq Entries
      /\ r.body.state \in {"idle", "running", "unknown"}
      /\ v.state \in {"idle", "running", "unknown"}
  BY DEF Records, Bodies
<1>2. CASE r.event = "snapshot"
  BY <1>1, <1>2 DEF Apply, Yields, YieldsItems, YieldsState, Adds, Sets, Whole
<1>3. CASE r.event = "delta"
  <2>1. Apply(v, r) = [v EXCEPT !.items = v.items \cup r.body.items]
    BY <1>3 DEF Apply
  <2>2. /\ Apply(v, r) \in Bodies /\ Apply(v, r).items = v.items \cup r.body.items
        /\ Apply(v, r).state = v.state
    BY <1>1, <2>1 DEF Bodies
  <2> QED BY <1>1, <1>3, <2>2 DEF Yields, YieldsItems, YieldsState, Adds, Sets, Whole
<1>4. CASE r.event = "state"
  <2>1. Apply(v, r) = [v EXCEPT !.state = r.body.state]
    BY <1>4 DEF Apply
  <2>2. /\ Apply(v, r) \in Bodies /\ Apply(v, r).items = v.items
        /\ Apply(v, r).state = r.body.state
    BY <1>1, <2>1 DEF Bodies
  <2> QED BY <1>1, <1>4, <2>2 DEF Yields, YieldsItems, YieldsState, Adds, Sets, Whole
<1>5. CASE r.event \in {"heartbeat", "error"}
  BY <1>1, <1>5 DEF Apply, Yields, YieldsItems, YieldsState, Adds, Sets, Whole
<1> QED BY <1>1, <1>2, <1>3, <1>4, <1>5 DEF Events

\* First A, then B.
LEMMA Joined ==
    ASSUME NEW v \in Bodies, NEW c \in Bodies, NEW d \in Bodies,
           NEW A \in SUBSET Records, NEW B \in SUBSET Records, Before(A, B),
           Yields(v, A, c), Yields(c, B, d)
    PROVE  Yields(v, A \cup B, d)
<1>1. /\ \A r \in A \cup B : r.cursor \in Int
      /\ \A a \in A, b \in B : a.cursor < b.cursor /\ a.cursor <= b.cursor /\ ~(b.cursor <= a.cursor)
  BY DEF Records, Before
<1>2. YieldsItems(v, A \cup B, d)
  <2>1. CASE \E s \in B : Whole(s)
    BY <1>1, <2>1 DEF Yields, YieldsItems
  <2>2. CASE \A s \in B : ~Whole(s)
    BY <1>1, <2>2 DEF Yields, YieldsItems
  <2> QED BY <2>1, <2>2
<1>3. YieldsState(v, A \cup B, d)
  BY <1>1 DEF Yields, YieldsState
<1> QED BY <1>2, <1>3 DEF Yields

\* What A and then B make of v, B makes of what A makes of it.
LEMMA Parted ==
    ASSUME NEW v \in Bodies, NEW c \in Bodies, NEW d \in Bodies,
           NEW A \in SUBSET Records, NEW B \in SUBSET Records, Before(A, B),
           Distinct(A), Yields(v, A, c), Yields(v, A \cup B, d)
    PROVE  Yields(c, B, d)
<1>1. /\ \A r \in A \cup B : r.cursor \in Int
      /\ \A a \in A, b \in B : a.cursor < b.cursor /\ a.cursor <= b.cursor /\ ~(b.cursor <= a.cursor)
  BY DEF Records, Before
<1>2. YieldsItems(c, B, d)
  <2>1. CASE \E s \in B : Whole(s)
    BY <1>1, <2>1 DEF Yields, YieldsItems
  <2>2. CASE \A s \in B : ~Whole(s)
    BY <1>1, <2>2 DEF Yields, YieldsItems
  <2> QED BY <2>1, <2>2
<1>3. YieldsState(c, B, d)
  <2>1. CASE \E s \in B : Sets(s)
    BY <1>1, <2>1 DEF Yields, YieldsState
  <2>2. CASE \A s \in B : ~Sets(s)
    <3>1. CASE \E s \in A : Sets(s)
      <4>1. PICK a \in A : Sets(a) /\ c.state = a.body.state /\ \A s \in A : Sets(s) => s.cursor <= a.cursor
        BY <3>1 DEF Yields, YieldsState
      <4>2. PICK b \in A : Sets(b) /\ d.state = b.body.state /\ \A s \in A : Sets(s) => s.cursor <= b.cursor
        BY <2>2, <3>1 DEF Yields, YieldsState
      <4>3. a = b
        BY <1>1, <4>1, <4>2 DEF Distinct
      <4> QED BY <2>2, <4>1, <4>2, <4>3 DEF YieldsState
    <3>2. CASE \A s \in A : ~Sets(s)
      BY <2>2, <3>2 DEF Yields, YieldsState
    <3> QED BY <3>1, <3>2
  <2> QED BY <2>1, <2>2
<1> QED BY <1>2, <1>3 DEF Yields

\* The same records make the same of it.
LEMMA YieldsOnce ==
    ASSUME NEW v \in Bodies, NEW c \in Bodies, NEW d \in Bodies,
           NEW A \in SUBSET Records, Distinct(A), Yields(v, A, c), Yields(v, A, d)
    PROVE  c = d
<1>1. Before(A, {}) /\ A \cup {} = A
  BY DEF Before
<1>2. Yields(c, {}, d)
  BY <1>1, Parted
<1> QED BY <1>2, NothingYields

\* Heartbeats and errors make no difference.
Changes(R) == {r \in R : r.event \notin {"heartbeat", "error"}}

LEMMA OnlyChanges ==
    ASSUME NEW v, NEW c, NEW A \in SUBSET Records, NEW B \in SUBSET Records,
           Changes(A) = Changes(B), Yields(v, A, c)
    PROVE  Yields(v, B, c)
<1>1. \A r : Adds(r) \/ Sets(r) \/ Whole(r) => (r \in A <=> r \in B)
  BY DEF Changes, Adds, Sets, Whole
<1>2. YieldsItems(v, B, c)
  BY <1>1 DEF Yields, YieldsItems
<1>3. YieldsState(v, B, c)
  BY <1>1 DEF Yields, YieldsState
<1> QED BY <1>2, <1>3 DEF Yields

-----------------------------------------------------------------------------
(* What appending a record does to the history.                              *)

\* The records that count against the limit.
SemanticOf(R) == {r \in R : Semantic(r)}

LEMMA SemanticCount ==
    ASSUME NEW s \in Seq(Records), Ordered(s)
    PROVE  /\ IsFiniteSet(SemanticOf(Recs(s)))
           /\ Cardinality(SemanticOf(Recs(s))) = Cardinality(Semantics(s))
           /\ Cardinality(Semantics(s)) \in Nat
<1>1. Semantics(s) \in SUBSET DOMAIN s
  BY DEF Semantics
<1>2. {s[i] : i \in Semantics(s)} = SemanticOf(Recs(s))
  BY DEF Semantics, SemanticOf, Recs
<1>3. /\ IsFiniteSet({s[i] : i \in Semantics(s)}) /\ Cardinality(Semantics(s)) \in Nat
      /\ Cardinality({s[i] : i \in Semantics(s)}) = Cardinality(Semantics(s))
  BY <1>1, CountFacts
<1> QED BY <1>2, <1>3

\* The least position.
LEMMA MinFacts ==
    ASSUME NEW n \in Nat, NEW I \in SUBSET (1 .. n), I # {}
    PROVE  Min(I) \in I /\ \A i \in I : Min(I) <= i
<1>1. /\ \A i \in I : Rank(I, i) \in 1 .. Cardinality(I)
      /\ \A i, j \in I : i < j => Rank(I, i) < Rank(I, j)
      /\ \A k \in 1 .. Cardinality(I) : \E i \in I : Rank(I, i) = k
      /\ Cardinality(I) \in Nat
  BY RankFacts
<1>2. PICK i \in I : TRUE
  OBVIOUS
<1>3. 1 \in 1 .. Cardinality(I)
  BY <1>1, <1>2
<1>4. PICK m \in I : Rank(I, m) = 1
  BY <1>1, <1>3
<1>5. \A j \in I : m <= j
  <2> TAKE j \in I
  <2>1. ~(j < m)
    BY <1>1, <1>4
  <2>2. j \in Int /\ m \in Int
    OBVIOUS
  <2> QED BY <2>1, <2>2
<1> QED BY <1>5 DEF Min

\* A record at the end.
LEMMA GrownFacts ==
    ASSUME NEW s \in Seq(Records), Ordered(s), NEW r \in Records,
           \A q \in Recs(s) : q.cursor < r.cursor
    PROVE  /\ Append(s, r) \in Seq(Records) /\ Ordered(Append(s, r))
           /\ Recs(Append(s, r)) = Recs(s) \cup {r}
<1> DEFINE t == Append(s, r)
           n == Len(s)
<1>1. /\ t \in Seq(Records) /\ n \in Nat /\ DOMAIN s = 1 .. n /\ DOMAIN t = 1 .. n + 1
      /\ t[n + 1] = r /\ \A i \in 1 .. n : t[i] = s[i]
  OBVIOUS
<1> HIDE DEF t, n
<1>2. Recs(t) = Recs(s) \cup {r}
  <2>1. 1 .. n + 1 = (1 .. n) \cup {n + 1}
    BY <1>1
  <2> QED BY <1>1, <2>1 DEF Recs
<1>3. Ordered(t)
  <2> SUFFICES ASSUME NEW i \in 1 .. n + 1, NEW j \in 1 .. n + 1, i < j
               PROVE  t[i].cursor < t[j].cursor
    BY <1>1 DEF Ordered
  <2>1. i \in 1 .. n /\ s[i] \in Recs(s)
    BY <1>1 DEF Recs
  <2>2. CASE j = n + 1
    BY <1>1, <2>1, <2>2
  <2>3. CASE j \in 1 .. n
    BY <1>1, <2>1, <2>3 DEF Ordered
  <2> QED BY <1>1, <2>2, <2>3
<1> QED BY <1>1, <1>2, <1>3 DEF t

\* A record less.
LEMMA TrimmedFacts ==
    ASSUME NEW s \in Seq(Records), Ordered(s), NEW m \in DOMAIN s
    PROVE  LET t == InOrder(s, DOMAIN s \ {m})
           IN  t \in Seq(Records) /\ Ordered(t) /\ Recs(t) = Recs(s) \ {s[m]}
<1> DEFINE I == DOMAIN s \ {m}
<1>1. /\ InOrder(s, I) \in Seq(Records) /\ Ordered(InOrder(s, I))
      /\ Recs(InOrder(s, I)) = {s[i] : i \in I}
  <2>1. I \in SUBSET DOMAIN s
    OBVIOUS
  <2> HIDE DEF I
  <2> QED BY <2>1, InOrderFacts
<1>2. \A i \in DOMAIN s : s[i] = s[m] => i = m
  <2> TAKE i \in DOMAIN s
  <2>1. i \in Int /\ m \in Int /\ s[i] \in Records /\ s[m] \in Records
    OBVIOUS
  <2>2. s[i].cursor \in Int /\ s[m].cursor \in Int
    BY <2>1 DEF Records
  <2>3. i < m => s[i].cursor < s[m].cursor
    BY DEF Ordered
  <2>4. m < i => s[m].cursor < s[i].cursor
    BY DEF Ordered
  <2> QED BY <2>1, <2>2, <2>3, <2>4
<1>3. {s[i] : i \in I} = Recs(s) \ {s[m]}
  BY <1>2 DEF Recs
<1> QED BY <1>1, <1>3

Drafts == [event : Events, body : Bodies]
NewRecord(h, r) ==
    [cursor |-> h.cursor + 1, event |-> r.event, body |-> Body(r.event, r.body)]

LEMMA NewRecordType ==
    ASSUME NEW h, h.cursor \in Nat, NEW r \in Drafts
    PROVE  /\ NewRecord(h, r) \in Records
           /\ NewRecord(h, r).cursor = h.cursor + 1
           /\ NewRecord(h, r).event = r.event
           /\ Semantic(NewRecord(h, r)) <=> Semantic(r)
<1>1. r.event \in Events /\ r.body \in Bodies
  BY DEF Drafts
<1>2. Body(r.event, r.body) \in Bodies
  <2>1. Unknown \in Bodies
    BY DEF Unknown, Bodies
  <2>2. [Unknown EXCEPT !.items = r.body.items] \in Bodies
    BY <1>1 DEF Unknown, Bodies
  <2>3. [Unknown EXCEPT !.state = r.body.state] \in Bodies
    BY <1>1 DEF Unknown, Bodies
  <2> QED BY <1>1, <2>1, <2>2, <2>3 DEF Body, Events
<1> QED BY <1>1, <1>2 DEF NewRecord, Records, Semantic

\* What may be dropped when a record is appended: heartbeats, and the oldest
\* record that is none.
Droppable(h, D) ==
    /\ D \subseteq Recs(h.history)
    /\ \A o \in D : Semantic(o) =>
          \A q \in SemanticOf(Recs(h.history)) : o.cursor <= q.cursor

LEMMA AppendedHistory ==
    ASSUME NEW h, HistoryOK(h), NEW r \in Drafts, Semantic(r) \/ h.cursor # 0
    PROVE  LET g == AppendLocked(h, r)
               record == NewRecord(h, r)
           IN  /\ HistoryOK(g)
               /\ g.cursor = h.cursor + 1
               /\ g.id = h.id /\ g.stream = h.stream
               /\ g.latest = h.latest /\ g.fatal = h.fatal
               /\ record \in Records
               /\ \E D : /\ Droppable(h, D)
                         /\ Recs(g.history) = (Recs(h.history) \ D) \cup {record}
<1> DEFINE s == h.history
           record == NewRecord(h, r)
           kept == IF Semantic(r) THEN s ELSE InOrder(s, Semantics(s))
           grown == Append(kept, record)
           old == Semantics(grown)
           trimmed == InOrder(grown, DOMAIN grown \ {Min(old)})
           full == Cardinality(old) > HistoryLimit
           history == IF full THEN trimmed ELSE grown
           g == AppendLocked(h, r)
<1>1. /\ h \in Hubs /\ s \in Seq(Records) /\ Ordered(s) /\ h.cursor \in Nat
      /\ \A q \in Recs(s) : q.cursor \in 1 .. h.cursor
      /\ \A p, q \in Recs(s) : ~Semantic(p) /\ ~Semantic(q) => p = q
      /\ h.cursor # 0 => \E q \in Recs(s) : Semantic(q)
      /\ Cardinality(Semantics(s)) <= HistoryLimit
      /\ h.fatal \in Nat /\ h.fatal <= h.cursor
  BY DEF HistoryOK, Hubs
<1>2. /\ record \in Records /\ record.cursor = h.cursor + 1
      /\ Semantic(record) <=> Semantic(r)
  BY <1>1, NewRecordType
<1>3. g = [h EXCEPT !.cursor = h.cursor + 1, !.history = history]
  BY DEF AppendLocked, NewRecord
<1>4. /\ kept \in Seq(Records) /\ Ordered(kept)
      /\ Recs(kept) = IF Semantic(r) THEN Recs(s) ELSE SemanticOf(Recs(s))
  <2>1. CASE Semantic(r)
    BY <1>1, <2>1
  <2>2. CASE ~Semantic(r)
    <3>1. Semantics(s) \in SUBSET DOMAIN s
      BY DEF Semantics
    <3>2. {s[i] : i \in Semantics(s)} = SemanticOf(Recs(s))
      BY DEF Semantics, SemanticOf, Recs
    <3> HIDE DEF s
    <3> QED BY <1>1, <2>2, <3>1, <3>2, InOrderFacts
  <2> QED BY <2>1, <2>2
<1>5. /\ SemanticOf(Recs(kept)) = SemanticOf(Recs(s)) /\ Recs(kept) \subseteq Recs(s)
      /\ \A q \in Recs(kept) : q.cursor \in 1 .. h.cursor
  BY <1>1, <1>4 DEF SemanticOf
<1> HIDE DEF s, record, kept
<1>6. /\ grown \in Seq(Records) /\ Ordered(grown) /\ Recs(grown) = Recs(kept) \cup {record}
  <2>1. \A q \in Recs(kept) : q.cursor < record.cursor
    BY <1>1, <1>2, <1>5
  <2> QED BY <1>2, <1>4, <2>1, GrownFacts
<1> DEFINE S == SemanticOf(Recs(grown))
<1>7. S = IF Semantic(r) THEN SemanticOf(Recs(s)) \cup {record} ELSE SemanticOf(Recs(s))
  BY <1>2, <1>5, <1>6 DEF SemanticOf
<1>8. /\ IsFiniteSet(SemanticOf(Recs(s))) /\ Cardinality(SemanticOf(Recs(s))) \in Nat
      /\ Cardinality(SemanticOf(Recs(s))) <= HistoryLimit
  BY <1>1, SemanticCount
<1> HIDE DEF grown
<1>9. /\ IsFiniteSet(S) /\ Cardinality(S) = Cardinality(old) /\ Cardinality(old) \in Nat
      /\ Cardinality(S) <= HistoryLimit + 1
  <2>1. IsFiniteSet(S) /\ Cardinality(S) = Cardinality(old) /\ Cardinality(old) \in Nat
    BY <1>6, SemanticCount
  <2>2. \/ Cardinality(S) = Cardinality(SemanticOf(Recs(s)))
        \/ Cardinality(S) = Cardinality(SemanticOf(Recs(s))) + 1
    <3> HIDE DEF S
    <3> QED BY <1>7, <1>8, FS_AddElement
  <2> HIDE DEF S, old
  <2> QED BY <1>8, <2>1, <2>2, ConversationStreamAssumption
<1>10. \E q \in Recs(grown) : Semantic(q)
  BY <1>1, <1>2, <1>5, <1>6 DEF SemanticOf
\* The oldest record that is no heartbeat, when there are too many.
<1>11. ASSUME full
       PROVE  /\ history \in Seq(Records) /\ Ordered(history)
              /\ \E o \in SemanticOf(Recs(s)) :
                    /\ o # record
                    /\ \A q \in SemanticOf(Recs(s)) : o.cursor <= q.cursor
                    /\ Recs(history) = Recs(grown) \ {o}
              /\ Cardinality(Semantics(history)) <= HistoryLimit
              /\ \E q \in Recs(history) : Semantic(q)
  <2> DEFINE m == Min(old)
             o == grown[m]
  <2>1. m \in old /\ \A i \in old : m <= i
    <3>1. old \in SUBSET (1 .. Len(grown)) /\ Len(grown) \in Nat
      BY <1>6 DEF Semantics
    <3>2. old # {}
      BY <1>9, <1>10, <1>6 DEF Semantics, Recs
    <3> HIDE DEF old
    <3> QED BY <3>1, <3>2, MinFacts
  <2>2. m \in DOMAIN grown /\ o \in S
    BY <2>1 DEF Semantics, SemanticOf, Recs
  <2>3. \A q \in S : o.cursor <= q.cursor
    <3> SUFFICES ASSUME NEW i \in DOMAIN grown, Semantic(grown[i])
                 PROVE  o.cursor <= grown[i].cursor
      BY DEF SemanticOf, Recs
    <3>1. m <= i /\ m \in Int /\ i \in Int
      BY <1>6, <2>1, <2>2 DEF Semantics
    <3>2. grown[m] \in Records /\ grown[i] \in Records
      BY <1>6, <2>2
    <3>3. grown[m].cursor \in Int /\ grown[i].cursor \in Int
      BY <3>2 DEF Records
    <3>4. m < i => grown[m].cursor < grown[i].cursor
      BY <1>6, <2>2 DEF Ordered
    <3> QED BY <3>1, <3>3, <3>4
  <2> HIDE DEF m, o
  <2>4. /\ history \in Seq(Records) /\ Ordered(history)
        /\ Recs(history) = Recs(grown) \ {o}
    BY <1>6, <1>11, <2>2, TrimmedFacts DEF m, o
  <2> HIDE DEF trimmed, old, history
  <2>5. SemanticOf(Recs(history)) = S \ {o}
    BY <2>4 DEF SemanticOf
  <2>6. Cardinality(S \ {o}) = Cardinality(S) - 1 /\ Cardinality(S \ {o}) \in Nat
    <3> HIDE DEF S
    <3>1. Cardinality(S \ {o}) = Cardinality(S) - 1 /\ IsFiniteSet(S \ {o})
      BY <1>9, <2>2, FS_RemoveElement
    <3> QED BY <3>1, FS_CardinalityType
  <2>7. Cardinality(Semantics(history)) <= HistoryLimit
    <3>1. Cardinality(Semantics(history)) = Cardinality(S \ {o})
      BY <2>4, <2>5, SemanticCount
    <3> HIDE DEF S
    <3> QED BY <1>9, <2>6, <3>1, ConversationStreamAssumption
  <2>8. S \ {o} # {}
    <3> HIDE DEF S
    <3>1. Cardinality(S) >= 3
      BY <1>9, <1>11, ConversationStreamAssumption
    <3>2. Cardinality(S \ {o}) # 0
      BY <1>9, <2>6, <3>1
    <3> QED BY <3>2, FS_EmptySet
  <2>9. PICK q \in S \ {o} : TRUE
    BY <2>8
  <2>10. o # record
    <3> SUFFICES ASSUME o = record PROVE FALSE
      OBVIOUS
    <3>1. q \in Recs(kept)
      BY <1>6, <2>9 DEF SemanticOf
    <3>2. q.cursor \in 1 .. h.cursor /\ record.cursor <= q.cursor
      BY <1>5, <2>3, <2>9, <3>1
    <3> QED BY <1>1, <1>2, <3>2
  <2>11. o \in SemanticOf(Recs(s)) /\ SemanticOf(Recs(s)) \subseteq S
    BY <1>7, <2>2, <2>10
  <2>12. \E x \in Recs(history) : Semantic(x)
    BY <2>5, <2>9 DEF SemanticOf
  <2> HIDE DEF S
  <2> QED BY <2>3, <2>4, <2>7, <2>10, <2>11, <2>12
<1> HIDE DEF full, trimmed, old
<1>12. /\ history \in Seq(Records) /\ Ordered(history)
       /\ Cardinality(Semantics(history)) <= HistoryLimit
       /\ \E q \in Recs(history) : Semantic(q)
  <2>1. CASE full
    BY <1>11, <2>1
  <2>2. CASE ~full
    BY <1>6, <1>9, <1>10, <2>2, ConversationStreamAssumption DEF full, old
  <2> QED BY <2>1, <2>2
<1>13. \E D : Droppable(h, D) /\ Recs(history) = (Recs(s) \ D) \cup {record}
  <2> DEFINE beats == Recs(s) \ Recs(kept)
  <2>1. \A b \in beats : ~Semantic(b)
    BY <1>4 DEF SemanticOf
  <2>2. record \notin Recs(s)
    BY <1>1, <1>2
  <2>3. CASE full
    <3>1. PICK o \in SemanticOf(Recs(s)) :
             /\ o # record
             /\ \A q \in SemanticOf(Recs(s)) : o.cursor <= q.cursor
             /\ Recs(history) = Recs(grown) \ {o}
      BY <1>11, <2>3
    <3> DEFINE D == beats \cup {o}
    <3>2. Droppable(h, D)
      BY <2>1, <3>1 DEF Droppable, SemanticOf, s
    <3>3. Recs(history) = (Recs(s) \ D) \cup {record}
      BY <1>5, <1>6, <3>1
    <3> QED BY <3>2, <3>3
  <2>4. CASE ~full
    <3>1. Droppable(h, beats)
      BY <2>1 DEF Droppable, s
    <3>2. Recs(history) = (Recs(s) \ beats) \cup {record}
      BY <1>5, <1>6, <2>4
    <3> QED BY <3>1, <3>2
  <2> QED BY <2>3, <2>4
<1> HIDE DEF history
<1>14. /\ \A q \in Recs(history) : q.cursor \in 1 .. h.cursor + 1
       /\ \A p, q \in Recs(history) : ~Semantic(p) /\ ~Semantic(q) => p = q
       /\ \E q \in Recs(history) : q.cursor = h.cursor + 1
  <2>1. PICK D : Droppable(h, D) /\ Recs(history) = (Recs(s) \ D) \cup {record}
    BY <1>13
  <2>2. \A q \in Recs(history) : q.cursor \in 1 .. h.cursor + 1
    BY <1>1, <1>2, <2>1
  <2>3. Semantic(r) => \A p, q \in Recs(history) : ~Semantic(p) /\ ~Semantic(q) => p = q
    BY <1>1, <1>2, <2>1
  <2>4. ~Semantic(r) => \A p \in Recs(history) : ~Semantic(p) => p = record
    <3>1. Recs(history) \subseteq Recs(grown)
      BY <1>11, <1>12 DEF history
    <3> QED BY <1>4, <1>6, <3>1 DEF SemanticOf
  <2>5. record \in Recs(history)
    BY <2>1
  <2> QED BY <1>2, <2>2, <2>3, <2>4, <2>5
<1> HIDE DEF g
<1>15. /\ g \in Hubs /\ g.history = history /\ g.cursor = h.cursor + 1
       /\ g.id = h.id /\ g.stream = h.stream /\ g.latest = h.latest /\ g.fatal = h.fatal
  <2>1. h.cursor + 1 \in Nat
    BY <1>1
  <2> HIDE DEF s
  <2> QED BY <1>1, <1>3, <1>12, <2>1 DEF Hubs
<1>16. HistoryOK(g)
  BY <1>1, <1>12, <1>14, <1>15 DEF HistoryOK
<1> QED BY <1>2, <1>13, <1>15, <1>16 DEF s, record, g

\* A cursor the longer history reaches back to is one the shorter did, and
\* nothing that came after it has been dropped.
LEMMA ReachesBack ==
    ASSUME NEW h, HistoryOK(h), NEW r \in Drafts, NEW n \in 0 .. h.cursor,
           NEW g, g.cursor = h.cursor + 1, Reaches(g, n),
           NEW D, Droppable(h, D),
           Recs(g.history) = (Recs(h.history) \ D) \cup {NewRecord(h, r)}
    PROVE  Reaches(h, n) /\ \A o \in D : Semantic(o) => o.cursor <= n
<1> DEFINE R == Recs(h.history)
           record == NewRecord(h, r)
<1>1. /\ h.cursor \in Nat /\ h.history \in Seq(Records) /\ Ordered(h.history)
      /\ \A q \in R : q.cursor \in 1 .. h.cursor
      /\ h.cursor # 0 => \E q \in R : Semantic(q)
      /\ \A p, q \in R : ~Semantic(p) /\ ~Semantic(q) => p = q
  BY DEF HistoryOK, Hubs
<1>2. Distinct(R) /\ R \subseteq Records
  BY <1>1, CursorNames
<1>3. record.cursor = h.cursor + 1
  BY <1>1, NewRecordType
<1> HIDE DEF R, record
<1>4. CASE n = h.cursor
  <2>1. \A o \in D : o.cursor <= n
    BY <1>1, <1>4 DEF Droppable, R
  <2> QED BY <1>4, <2>1 DEF Reaches
<1>5. CASE n < h.cursor
  <2>0. n \in Nat /\ n + 1 <= h.cursor
    BY <1>1, <1>5
  <2>1. PICK q \in (R \ D) \cup {record} :
           /\ q.cursor <= n + 1
           /\ Semantic(q) \/ \E x \in (R \ D) \cup {record} :
                                Semantic(x) /\ x.cursor = q.cursor + 1
    BY <1>1, <2>0 DEF Reaches, R, record
  <2>2. q \in R \ D /\ q.cursor \in 1 .. h.cursor
    BY <1>1, <1>3, <2>0, <2>1
  <2>3. CASE Semantic(q)
    <3>1. Reaches(h, n)
      BY <2>1, <2>2, <2>3 DEF Reaches, R
    <3>2. ASSUME NEW o \in D, Semantic(o) PROVE o.cursor <= n
      <4>1. o \in R /\ o.cursor <= q.cursor /\ o # q
        BY <2>2, <2>3, <3>2 DEF Droppable, SemanticOf, R
      <4>2. o.cursor # q.cursor
        BY <1>2, <2>2, <4>1 DEF Distinct
      <4> QED BY <1>1, <2>0, <2>1, <2>2, <4>1, <4>2
    <3> QED BY <3>1, <3>2
  <2>4. CASE ~Semantic(q)
    <3>1. PICK x \in (R \ D) \cup {record} : Semantic(x) /\ x.cursor = q.cursor + 1
      BY <2>1, <2>4
    <3>2. CASE x = record
      <4>1. q.cursor = h.cursor /\ n + 1 = h.cursor
        BY <1>1, <1>3, <2>0, <2>1, <2>2, <3>1, <3>2
      <4>2. \A y \in R : Semantic(y) => y.cursor <= n
        <5> TAKE y \in R
        <5>1. Semantic(y) => y.cursor # q.cursor
          BY <1>2, <2>2, <2>4 DEF Distinct
        <5> QED BY <1>1, <2>0, <4>1, <5>1
      <4>3. \E y \in R : Semantic(y) /\ y.cursor <= n + 1
        <5>1. PICK y \in R : Semantic(y)
          BY <1>1, <2>0
        <5> QED BY <1>1, <2>0, <4>1, <5>1
      <4> QED BY <4>2, <4>3 DEF Reaches, Droppable, R
    <3>3. CASE x \in R \ D
      <4>1. Reaches(h, n)
        BY <2>1, <2>2, <3>1, <3>3 DEF Reaches, R
      <4>2. ASSUME NEW o \in D, Semantic(o) PROVE o.cursor <= n
        <5>1. o \in R /\ o.cursor <= x.cursor /\ o # x /\ o # q
          BY <2>4, <3>1, <3>3, <4>2 DEF Droppable, SemanticOf, R
        <5>2. o.cursor # x.cursor /\ o.cursor # q.cursor
          BY <1>2, <2>2, <3>3, <5>1 DEF Distinct
        <5>3. o.cursor < q.cursor
          BY <1>1, <2>2, <3>1, <5>1, <5>2
        <5> QED BY <1>1, <2>0, <2>1, <2>2, <5>1, <5>3
      <4> QED BY <4>1, <4>2
    <3> QED BY <3>1, <3>2, <3>3
  <2> QED BY <2>3, <2>4
<1> QED BY <1>1, <1>4, <1>5

\* What brings a client up to date still does with one record more.
LEMMA AppendedFits ==
    ASSUME NEW h, HistoryOK(h), NEW r \in Drafts, Semantic(r) \/ h.cursor # 0,
           NEW v \in Bodies, NEW c \in Bodies, NEW n \in 0 .. h.cursor, Fits(h, v, n, c)
    PROVE  Fits(AppendLocked(h, r), v, n, Apply(c, NewRecord(h, r)))
<1> DEFINE g == AppendLocked(h, r)
           record == NewRecord(h, r)
           A == After(h.history, n)
           B == After(g.history, n)
<1>1. /\ HistoryOK(g) /\ g.cursor = h.cursor + 1 /\ g.fatal = h.fatal /\ record \in Records
      /\ \E D : /\ Droppable(h, D)
                /\ Recs(g.history) = (Recs(h.history) \ D) \cup {record}
  BY AppendedHistory
<1>2. PICK D : /\ Droppable(h, D)
               /\ Recs(g.history) = (Recs(h.history) \ D) \cup {record}
  BY <1>1
<1>3. /\ h.cursor \in Nat /\ h.history \in Seq(Records) /\ Ordered(h.history)
      /\ \A q \in Recs(h.history) : q.cursor \in 1 .. h.cursor
  BY DEF HistoryOK, Hubs
<1>4. record.cursor = h.cursor + 1
  BY <1>3, NewRecordType
<1>5. Recs(h.history) \subseteq Records
  BY <1>3, CursorNames
<1> HIDE DEF g, record
<1> SUFFICES ASSUME Reaches(g, n), g.fatal = 0 \/ n < g.fatal
             PROVE  Yields(v, B, Apply(c, record))
  BY DEF Fits, g, record
<1>6. Reaches(h, n) /\ \A o \in D : Semantic(o) => o.cursor <= n
  BY <1>1, <1>2, ReachesBack DEF record
<1>7. Yields(v, A, c)
  BY <1>1, <1>6 DEF Fits
<1>8. Yields(v, A \cup {record}, Apply(c, record))
  <2>1. Apply(c, record) \in Bodies /\ Yields(c, {record}, Apply(c, record))
    BY <1>1, RecordYields
  <2>2. Before(A, {record}) /\ A \in SUBSET Records /\ {record} \in SUBSET Records
    BY <1>1, <1>3, <1>4, <1>5 DEF After, Before
  <2> HIDE DEF A
  <2> QED BY <1>7, <2>1, <2>2, Joined
<1>9. Changes(A \cup {record}) = Changes(B)
  <2>1. \A q \in D : q.cursor > n => q.event = "heartbeat"
    <3> TAKE q \in D
    <3>1. q.cursor \in Int /\ n \in Int
      BY <1>2, <1>3 DEF Droppable
    <3> QED BY <1>6, <3>1 DEF Semantic
  <2>2. record.cursor > n
    BY <1>3, <1>4
  <2> QED BY <1>2, <2>1, <2>2 DEF Changes, After
<1>10. A \cup {record} \in SUBSET Records /\ B \in SUBSET Records
  BY <1>1, <1>2, <1>5 DEF After
<1> HIDE DEF A, B
<1> QED BY <1>8, <1>9, <1>10, OnlyChanges

\* Hub h at conversation c goes on to hub g at d.
Advances(h, c, g, d) ==
    /\ HistoryOK(g)
    /\ g.cursor >= h.cursor
    /\ g.id = h.id /\ g.stream = h.stream /\ g.fatal = h.fatal
    /\ \A v \in Bodies, n \in 0 .. h.cursor : Fits(h, v, n, c) => Fits(g, v, n, d)

LEMMA AppendAdvances ==
    ASSUME NEW h, HistoryOK(h), NEW r \in Drafts, Semantic(r) \/ h.cursor # 0, NEW c \in Bodies
    PROVE  LET g == AppendLocked(h, r)
           IN  /\ Advances(h, c, g, Apply(c, NewRecord(h, r)))
               /\ g.latest = h.latest /\ g.cursor = h.cursor + 1 /\ h.cursor \in Nat
<1> DEFINE g == AppendLocked(h, r)
<1>1. /\ HistoryOK(g) /\ g.cursor = h.cursor + 1 /\ g.fatal = h.fatal
      /\ g.id = h.id /\ g.stream = h.stream /\ g.latest = h.latest
  BY AppendedHistory
<1>2. h.cursor \in Nat
  BY DEF HistoryOK, Hubs
<1>3. \A v \in Bodies, n \in 0 .. h.cursor :
         Fits(h, v, n, c) => Fits(g, v, n, Apply(c, NewRecord(h, r)))
  BY AppendedFits
<1> HIDE DEF g
<1>4. Advances(h, c, g, Apply(c, NewRecord(h, r)))
  BY <1>1, <1>2, <1>3 DEF Advances
<1> QED BY <1>1, <1>2, <1>4 DEF g

LEMMA AdvancesOn ==
    ASSUME NEW h, NEW c, NEW g, NEW d, NEW f, NEW e,
           HistoryOK(h), Advances(h, c, g, d), Advances(g, d, f, e)
    PROVE  Advances(h, c, f, e)
<1>1. h.cursor \in Nat /\ g.cursor \in Nat /\ f.cursor \in Nat
  BY DEF HistoryOK, Advances, Hubs
<1>2. \A n \in 0 .. h.cursor : n \in 0 .. g.cursor
  BY <1>1 DEF Advances
<1> QED BY <1>1, <1>2 DEF Advances

\* Publishing the difference between two projections.
LEMMA ChangesAdvance ==
    ASSUME NEW h, HistoryOK(h), NEW before \in Views, NEW after \in Conversations,
           before # Unknown => h.cursor # 0
    PROVE  LET g == WithChanges(h, before, after)
           IN  Advances(h, before, g, after) /\ g.latest = h.latest /\ g.cursor # 0
<1>1. /\ before \in Bodies /\ after \in Bodies /\ h.cursor \in Nat
      /\ before # Unknown => before \in Conversations
  BY DEF Views, Conversations, Unknown, Bodies, HistoryOK, Hubs
<1>2. CASE before = Unknown \/ RequiresSnapshot(before, after)
  <2> DEFINE r == [event |-> "snapshot", body |-> after]
  <2>1. r \in Drafts /\ Semantic(r)
    BY <1>1 DEF Drafts, Events, Semantic
  <2>2. Apply(before, NewRecord(h, r)) = after
    BY DEF Apply, NewRecord, Body
  <2>3. WithChanges(h, before, after) = AppendLocked(h, r)
    BY <1>2 DEF WithChanges
  <2> HIDE DEF r
  <2> QED BY <1>1, <2>1, <2>2, <2>3, AppendAdvances
<1>3. CASE before # Unknown /\ ~RequiresSnapshot(before, after)
  <2>1. /\ before.items \subseteq after.items /\ h.cursor # 0
        /\ before \in Conversations
    BY <1>1, <1>3 DEF RequiresSnapshot
  <2> DEFINE middle == [before EXCEPT !.items = after.items]
             g == WithDelta(h, before, after)
  <2>2. middle \in Bodies /\ middle.items = after.items /\ middle.state = before.state
    BY <1>1 DEF Bodies
  <2>3. Advances(h, before, g, middle) /\ g.latest = h.latest /\ g.cursor # 0
    <3>1. CASE after.items = before.items
      <4>1. g = h /\ middle = before
        BY <1>1, <3>1 DEF WithDelta, Bodies
      <4> QED BY <1>1, <2>1, <4>1 DEF Advances
    <3>2. CASE after.items # before.items
      <4> DEFINE r == [event |-> "delta",
                       body |-> [after EXCEPT !.items = after.items \ before.items]]
      <4>1. r \in Drafts /\ Semantic(r)
        BY <1>1 DEF Drafts, Events, Semantic, Bodies
      <4>2. NewRecord(h, r).event = "delta" /\ NewRecord(h, r).body.items = after.items \ before.items
        BY <1>1 DEF NewRecord, Body, Unknown, Bodies
      <4>3. Apply(before, NewRecord(h, r)) = middle
        <5>1. before.items \cup (after.items \ before.items) = after.items
          BY <2>1
        <5> HIDE DEF r
        <5> QED BY <4>2, <5>1 DEF Apply
      <4>4. g = AppendLocked(h, r)
        BY <3>2 DEF WithDelta
      <4> HIDE DEF r
      <4> QED BY <1>1, <4>1, <4>3, <4>4, AppendAdvances
    <3> QED BY <3>1, <3>2
  <2>4. WithChanges(h, before, after) = WithState(g, before, after)
    BY <1>3 DEF WithChanges
  <2> HIDE DEF g
  <2> DEFINE f == WithState(g, before, after)
  <2>5. Advances(g, middle, f, after) /\ f.latest = g.latest /\ f.cursor # 0
    <3>0. HistoryOK(g) /\ g.cursor \in Nat
      BY <2>3 DEF Advances, HistoryOK, Hubs
    <3>1. CASE after.state = before.state
      <4>1. f = g /\ middle = after
        BY <1>1, <2>2, <3>1 DEF WithState, Bodies
      <4> QED BY <2>3, <3>0, <4>1 DEF Advances
    <3>2. CASE after.state # before.state
      <4> DEFINE r == [event |-> "state", body |-> after]
      <4>1. r \in Drafts /\ Semantic(r)
        BY <1>1 DEF Drafts, Events, Semantic
      <4>2. NewRecord(g, r).event = "state" /\ NewRecord(g, r).body.state = after.state
        BY <1>1 DEF NewRecord, Body, Unknown, Bodies
      <4>3. Apply(middle, NewRecord(g, r)) = after
        <5>1. Apply(middle, NewRecord(g, r)) = [middle EXCEPT !.state = after.state]
          BY <4>2 DEF Apply
        <5> QED BY <1>1, <2>2, <5>1 DEF Bodies
      <4>4. f = AppendLocked(g, r)
        BY <3>2 DEF WithState
      <4> HIDE DEF r, middle
      <4>5. /\ Advances(g, middle, f, after) /\ f.latest = g.latest /\ f.cursor = g.cursor + 1
        BY <2>2, <3>0, <4>1, <4>3, <4>4, AppendAdvances
      <4> QED BY <3>0, <4>5
    <3> QED BY <3>1, <3>2
  <2> HIDE DEF f, middle
  <2>6. Advances(h, before, f, after)
    BY <2>3, <2>5, AdvancesOn
  <2> QED BY <2>3, <2>4, <2>5, <2>6 DEF f
<1> QED BY <1>2, <1>3

\* Accepting a projection, for whoever it is done.
LEMMA AcceptedAdvances ==
    ASSUME HistoryOK(hub), LatestOK, NEW conv \in Conversations
    PROVE  LET g == Accepted(conv)
           IN  /\ Advances(hub, hub.latest, g, g.latest)
               /\ \/ g = hub /\ (Closed \/ ~Subscribed)
                  \/ g.latest = conv /\ g.cursor # 0
<1> DEFINE h == [hub EXCEPT !.latest = conv]
<1>1. /\ hub \in Hubs /\ hub.latest \in Views /\ conv \in Views /\ hub.cursor \in Nat
  BY DEF HistoryOK, Hubs, Views
<1>2. CASE Closed \/ ~Subscribed
  BY <1>1, <1>2 DEF Accepted, Advances
<1>3. CASE ~(Closed \/ ~Subscribed)
  <2>1. /\ h \in Hubs /\ h.history = hub.history /\ h.cursor = hub.cursor /\ h.id = hub.id
        /\ h.stream = hub.stream /\ h.fatal = hub.fatal /\ h.latest = conv
    BY <1>1 DEF Hubs
  <2> HIDE DEF h
  <2>2. HistoryOK(h) /\ \A v, n, c : Fits(h, v, n, c) <=> Fits(hub, v, n, c)
    BY <2>1 DEF HistoryOK, Fits, Reaches
  <2>3. Accepted(conv) = WithChanges(h, hub.latest, conv)
    BY <1>3 DEF Accepted, h
  <2> DEFINE g == WithChanges(h, hub.latest, conv)
  <2>4. Advances(h, hub.latest, g, conv) /\ g.latest = conv /\ g.cursor # 0
    BY <1>1, <2>1, <2>2, ChangesAdvance DEF LatestOK
  <2> HIDE DEF g
  <2>5. Advances(hub, hub.latest, g, conv)
    BY <2>1, <2>2, <2>4 DEF Advances
  <2> QED BY <2>3, <2>4, <2>5 DEF g
<1> QED BY <1>2, <1>3

-----------------------------------------------------------------------------
(* Every kind of step keeps what the client has in line with the hub.        *)

LEMMA ConversationTypes ==
    /\ Unknown \in Bodies /\ Conversations \subseteq Views /\ Views \subseteq Bodies
    /\ Unknown \notin Conversations
    /\ Beat \in Drafts /\ Error \in Drafts /\ Semantic(Error)
<1>1. Unknown \in Bodies /\ Unknown \notin Conversations
  BY DEF Unknown, Bodies, Conversations
<1>2. Conversations \subseteq Bodies
  BY DEF Conversations, Bodies
<1>3. Beat \in Drafts /\ Error \in Drafts /\ Semantic(Error)
  BY <1>1 DEF Beat, Error, Drafts, Events, Semantic
<1> QED BY <1>1, <1>2, <1>3 DEF Views

\* The agent runtime shows conversations.
LEMMA TurnsType ==
    ASSUME truth \in Conversations
    PROVE  Turns \subseteq Conversations
<1>1. \A x \in {"idle", "running"} : Other(x) \in {"idle", "running"}
  <2> TAKE x \in {"idle", "running"}
  <2>1. \E y \in {"idle", "running"} : y # x
    BY "idle" # "running"
  <2> QED BY <2>1 DEF Other
<1>2. truth.items \subseteq Entries /\ truth.state \in {"idle", "running"}
  BY DEF Conversations
<1>3. \A e \in truth.items : [truth EXCEPT !.items = truth.items \ {e}] \in Conversations
  BY <1>2 DEF Conversations
<1>4. [truth EXCEPT !.state = Other(truth.state)] \in Conversations
  BY <1>1, <1>2 DEF Conversations
<1>5. [items : {truth.items \cup {e} : e \in Entries \ truth.items},
       state : {truth.state, Other(truth.state)}] \subseteq Conversations
  BY <1>1, <1>2 DEF Conversations
<1> QED BY <1>3, <1>4, <1>5 DEF Turns

\* The hub goes on, and so does whoever is in line with it.
LEMMA HubAdvances ==
    ASSUME CInv, PlacesOK', LatestOK', HistoryOK(hub'),
           hub'.stream = hub.stream, hub'.cursor >= hub.cursor,
           hub.fatal # 0 => hub'.fatal # 0,
           hub'.latest = Unknown => hub.latest = Unknown,
           \A v \in Bodies, n \in 0 .. hub.cursor :
              Fits(hub, v, n, hub.latest) => Fits(hub', v, n, hub'.latest),
           UNCHANGED <<at, batch, token, view>>, ~astray' => ~astray, Closed => Closed'
    PROVE  CInv'
<1>1. /\ hub.cursor \in Nat /\ hub'.cursor \in Nat
      /\ token.seq \in Nat /\ view \in Bodies /\ batch \in Seq(Records) /\ Ordered(batch)
  BY DEF CInv, HistoryOK, Hubs, PlacesOK
<1>2. SUFFICES ASSUME ~astray'
               PROVE  /\ TokenFits(hub)' /\ BatchFits(hub', view, batch)
                      /\ at = "live" /\ ~Closed => token.stream = hub.stream
  BY DEF CInv, ClientOK
<1>3. /\ TokenFits(hub) /\ BatchFits(hub, view, batch)
      /\ at = "live" /\ ~Closed => token.stream = hub.stream
  BY <1>2 DEF CInv, ClientOK
<1>4. TokenFits(hub)'
  <2> SUFFICES ASSUME token.stream = hub.stream
               PROVE  /\ token.seq <= hub'.cursor
                      /\ Fits(hub', view, token.seq, hub'.latest)
                      /\ \A r \in Recs(batch) : r.cursor > token.seq \/ r.event = "snapshot"
                      /\ hub'.latest = Unknown => at \in {"away", "reserved"} /\ hub'.fatal # 0
    BY DEF TokenFits
  <2>1. /\ token.seq <= hub.cursor
        /\ Fits(hub, view, token.seq, hub.latest)
        /\ \A r \in Recs(batch) : r.cursor > token.seq \/ r.event = "snapshot"
        /\ hub.latest = Unknown => at \in {"away", "reserved"} /\ hub.fatal # 0
    BY <1>3 DEF TokenFits
  <2>2. token.seq \in 0 .. hub.cursor /\ token.seq <= hub'.cursor
    BY <1>1, <2>1
  <2> QED BY <1>1, <2>1, <2>2
<1>5. BatchFits(hub', view, batch)
  <2> SUFFICES ASSUME NEW r \in Recs(batch)
               PROVE  /\ r.cursor <= hub'.cursor
                      /\ \A c \in Bodies : Yields(view, UpTo(batch, r.cursor), c)
                            => Fits(hub', c, r.cursor, hub'.latest)
                      /\ hub'.latest = Unknown => r.event = "error" /\ hub'.fatal # 0
    BY DEF BatchFits
  <2>1. /\ r.cursor <= hub.cursor
        /\ \A c \in Bodies : Yields(view, UpTo(batch, r.cursor), c)
              => Fits(hub, c, r.cursor, hub.latest)
        /\ hub.latest = Unknown => r.event = "error" /\ hub.fatal # 0
    BY <1>3 DEF BatchFits
  <2>2. r.cursor \in Nat
    BY <1>1, CursorNames DEF Records
  <2>3. r.cursor \in 0 .. hub.cursor /\ r.cursor <= hub'.cursor
    BY <1>1, <2>1, <2>2
  <2> QED BY <2>1, <2>3
<1> QED BY <1>3, <1>4, <1>5

\* Steps that leave the hub and the client alone.
LEMMA NothingNew ==
    ASSUME CInv, PlacesOK', UNCHANGED <<hub, at, batch, token, view>>,
           ~astray' => ~astray, Closed => Closed'
    PROVE  CInv'
<1>1. HistoryOK(hub) /\ LatestOK /\ hub.cursor \in Nat
  BY DEF CInv, HistoryOK, Hubs
<1>2. LatestOK' /\ HistoryOK(hub')
  BY <1>1 DEF LatestOK
<1>3. hub'.cursor >= hub.cursor
  BY <1>1
<1> QED BY <1>2, <1>3, HubAdvances

\* Whoever has a projection accepted, the hub has gone on.
LEMMA AcceptedStep ==
    ASSUME CInv, NEW conv \in Conversations, hub' = Accepted(conv), PlacesOK',
           UNCHANGED <<at, batch, token, view, astray>>, Closed => Closed'
    PROVE  CInv'
<1>1. HistoryOK(hub) /\ LatestOK
  BY DEF CInv
<1>2. /\ Advances(hub, hub.latest, hub', hub'.latest)
      /\ \/ hub' = hub
         \/ hub'.latest = conv /\ hub'.cursor # 0
  BY <1>1, AcceptedAdvances
<1>3. /\ LatestOK'
      /\ hub'.latest = Unknown => hub.latest = Unknown
  BY <1>1, <1>2, ConversationTypes DEF LatestOK
<1> QED BY <1>2, <1>3, HubAdvances DEF Advances

LEMMA AcceptSteps ==
    ASSUME CInv, ProducerAccepts \/ \E g \in Getters : GetReturns(g)
    PROVE  CInv'
<1> USE DEF Nobody, Producer
<1>1. PICK conv \in Turns \cup {truth} :
         /\ truth' = conv
         /\ \/ hub' = Accepted(conv)
            \/ ~Idle /\ hub' = AppendLocked(Accepted(conv), Beat)
  BY DEF ProducerAccepts, GetReturns, Shows
<1>2. conv \in Conversations
  BY TurnsType DEF CInv, PlacesOK
<1>3. HistoryOK(hub) /\ LatestOK /\ PlacesOK
  BY DEF CInv
<1> DEFINE g == Accepted(conv)
<1>4. /\ Advances(hub, hub.latest, g, g.latest)
      /\ \/ g = hub /\ (Closed \/ ~Subscribed)
         \/ g.latest = conv /\ g.cursor # 0
  BY <1>2, <1>3, AcceptedAdvances
<1> HIDE DEF g
<1>5. CASE hub' = AppendLocked(g, Beat) /\ ~Idle
  <2>1. g.latest = conv /\ g.cursor # 0
    BY <1>4, <1>5 DEF Idle
  <2>2. HistoryOK(g) /\ conv \in Bodies
    BY <1>2, <1>4, ConversationTypes DEF Advances
  <2>3. /\ Advances(g, conv, hub', Apply(conv, NewRecord(g, Beat)))
        /\ hub'.latest = conv /\ hub'.cursor = g.cursor + 1 /\ g.cursor \in Nat
    BY <1>5, <2>1, <2>2, AppendAdvances, ConversationTypes
  <2>4. Apply(conv, NewRecord(g, Beat)) = conv
    BY DEF Apply, NewRecord, Beat
  <2>5. Advances(hub, hub.latest, hub', hub'.latest)
    BY <1>3, <1>4, <2>1, <2>3, <2>4, AdvancesOn
  <2>6. LatestOK' /\ hub'.latest # Unknown
    BY <1>2, <2>3, ConversationTypes DEF LatestOK
  <2>7. PlacesOK'
    <3>1. hub'.fatal = hub.fatal /\ hub'.stream = hub.stream
      BY <2>5 DEF Advances
    <3>2. truth' \in Conversations
      BY <1>1, <1>2
    <3>3. CASE ProducerAccepts
      BY <1>3, <3>1, <3>2, <3>3 DEF ProducerAccepts, PlacesOK, Returned
    <3>4. CASE \E g1 \in Getters : GetReturns(g1)
      BY <1>3, <3>1, <3>2, <3>4 DEF GetReturns, PlacesOK, Returned
    <3> QED BY <3>3, <3>4
  <2>8. UNCHANGED <<at, batch, token, view, astray>> /\ Closed' = Closed
    BY DEF ProducerAccepts, GetReturns, Closed
  <2> QED BY <2>5, <2>6, <2>7, <2>8, HubAdvances DEF Advances
<1>6. CASE hub' = g
  <2>1. hub'.fatal = hub.fatal /\ hub'.stream = hub.stream
    BY <1>4, <1>6 DEF Advances
  <2>2. truth' \in Conversations
    BY <1>1, <1>2
  <2>3. PlacesOK'
    <3>1. CASE ProducerAccepts
      BY <1>3, <2>1, <2>2, <3>1 DEF ProducerAccepts, PlacesOK, Returned
    <3>2. CASE \E g1 \in Getters : GetReturns(g1)
      BY <1>3, <2>1, <2>2, <3>2 DEF GetReturns, PlacesOK, Returned
    <3> QED BY <3>1, <3>2
  <2>4. UNCHANGED <<at, batch, token, view, astray>> /\ Closed' = Closed
    BY DEF ProducerAccepts, GetReturns, Closed
  <2> QED BY <1>2, <1>6, <2>3, <2>4, AcceptedStep DEF g
<1> QED BY <1>1, <1>5, <1>6 DEF g

\* The error that ends the epoch comes last.
LEMMA FailStep ==
    ASSUME CInv, ProducerFails
    PROVE  CInv'
<1> USE DEF Nobody, Producer
<1>1. /\ HistoryOK(hub) /\ LatestOK /\ PlacesOK
      /\ UNCHANGED <<at, batch, token, view, astray, truth, shutdown>>
      /\ producer' = "none" /\ holder' = Nobody
      /\ producer = "projecting" /\ hub.fatal = 0
  BY DEF CInv, PlacesOK, ProducerFails, Returned, clientVars
<1>2. Closed' = Closed
  BY <1>1 DEF Closed
<1>3. CASE Idle
  <2>1. hub' = hub
    BY <1>3 DEF ProducerFails
  <2>2. PlacesOK'
    BY <1>1, <2>1 DEF PlacesOK
  <2> QED BY <1>1, <1>2, <2>1, <2>2, NothingNew
<1>4. CASE ~Idle
  <2> DEFINE h == AppendLocked(hub, Error)
             record == NewRecord(hub, Error)
  <2>1. /\ HistoryOK(h) /\ h.cursor = hub.cursor + 1 /\ hub.cursor \in Nat
        /\ h.stream = hub.stream /\ h.fatal = hub.fatal /\ h.latest = hub.latest
        /\ \E D : /\ Droppable(hub, D)
                  /\ Recs(h.history) = (Recs(hub.history) \ D) \cup {record}
    BY <1>1, AppendedHistory, ConversationTypes DEF HistoryOK, Hubs
  <2>2. hub.latest \in Bodies
    BY <1>1, ConversationTypes DEF HistoryOK, Hubs
  <2>3. Advances(hub, hub.latest, h, Apply(hub.latest, record))
    BY <1>1, <2>2, AppendAdvances, ConversationTypes
  <2>4. /\ Apply(hub.latest, record) = hub.latest
        /\ record.event = "error" /\ record.cursor = hub.cursor + 1
    BY DEF Apply, NewRecord, Error
  <2>5. hub' = [h EXCEPT !.fatal = h.cursor]
    BY <1>4 DEF ProducerFails
  <2> HIDE DEF h, record
  <2>6. /\ hub' \in Hubs /\ hub'.history = h.history /\ hub'.cursor = h.cursor
        /\ hub'.stream = hub.stream /\ hub'.latest = hub.latest /\ hub'.fatal = h.cursor
        /\ h.cursor \in Nat /\ h.cursor # 0
    BY <2>1, <2>5 DEF HistoryOK, Hubs
  <2>7. HistoryOK(hub')
    BY <2>1, <2>6 DEF HistoryOK
  <2>8. LatestOK'
    <3>1. hub.latest = Unknown => Recs(hub.history) = {}
      BY <1>1 DEF LatestOK
    <3>2. hub.latest = Unknown => \A r \in Recs(h.history) : r = record
      BY <2>1, <3>1
    <3>3. record.cursor >= h.cursor
      BY <2>1, <2>4
    <3> QED BY <2>4, <2>6, <3>2, <3>3 DEF LatestOK
  <2>9. PlacesOK'
    BY <1>1, <2>6 DEF PlacesOK
  <2>10. \A v \in Bodies, n \in 0 .. hub.cursor :
            Fits(hub, v, n, hub.latest) => Fits(hub', v, n, hub'.latest)
    <3> TAKE v \in Bodies, n \in 0 .. hub.cursor
    <3>1. Fits(hub, v, n, hub.latest) => Fits(h, v, n, hub.latest)
      BY <2>3, <2>4 DEF Advances
    <3> QED BY <1>1, <2>1, <2>6, <3>1 DEF Fits, Reaches
  <2>11. hub'.cursor >= hub.cursor
    BY <2>1, <2>6
  <2> QED BY <1>1, <1>2, <2>6, <2>7, <2>8, <2>9, <2>10, <2>11, HubAdvances
<1> QED BY <1>3, <1>4

\* The rest of the producer, the requests and the end of the broker.
LEMMA OtherSteps ==
    ASSUME CInv,
           \/ ProducerWakes \/ ProducerAsks \/ WorkerEnds \/ Close \/ CloseReturns \/ OthersLeave
           \/ \E g \in Getters : GetAsks(g) \/ GetProjects(g) \/ GetFails(g) \/ GetCancelled(g)
    PROVE  CInv'
<1> USE DEF Nobody, Producer, clientVars, hubVars
<1>0. PlacesOK
  BY DEF CInv
<1>1. CASE ProducerWakes
  BY <1>0, <1>1, NothingNew DEF ProducerWakes, TakesMutex, PlacesOK, Closed
<1>2. CASE ProducerAsks
  BY <1>0, <1>2, NothingNew DEF ProducerAsks, TakesMutex, PlacesOK, Closed
<1>3. CASE WorkerEnds
  BY <1>0, <1>3, NothingNew DEF WorkerEnds, PlacesOK, Closed
<1>4. CASE Close
  BY <1>0, <1>4, NothingNew DEF Close, PlacesOK, Closed
<1>5. CASE CloseReturns
  BY <1>0, <1>5, NothingNew DEF CloseReturns, PlacesOK, Closed
<1>6. CASE OthersLeave
  BY <1>0, <1>6, NothingNew DEF OthersLeave, PlacesOK, Closed
<1>7. ASSUME NEW g \in Getters, GetAsks(g) \/ GetProjects(g) \/ GetFails(g) \/ GetCancelled(g)
      PROVE  CInv'
  <2>1. /\ UNCHANGED <<truth, hub, producer, shutdown, at, batch, token, view, astray>>
        /\ holder' \in {holder, Nobody, g}
    BY <1>7 DEF GetAsks, GetProjects, GetFails, GetCancelled, TakesMutex, Returned
  <2>2. g # Producer
    BY ConversationStreamAssumption
  <2>3. PlacesOK' /\ Closed' = Closed
    BY <1>0, <2>1, <2>2 DEF PlacesOK, Closed
  <2> QED BY <2>1, <2>3, NothingNew
<1> QED BY <1>1, <1>2, <1>3, <1>4, <1>5, <1>6, <1>7

\* An epoch begins without a history, and no client has seen anything of it.
LEMMA NewEpoch ==
    ASSUME NEW n \in Nat, NEW m \in Nat,
           NEW h, h = [id |-> n, stream |-> m + 1, history |-> <<>>, cursor |-> 0,
                       latest |-> Unknown, fatal |-> 0]
    PROVE  /\ HistoryOK(h) /\ Recs(h.history) = {} /\ h.stream = m + 1
           /\ h.latest = Unknown /\ h.fatal = 0
<1>1. h.history = <<>> /\ h.cursor = 0 /\ h.latest = Unknown /\ h.fatal = 0 /\ h.stream = m + 1
  OBVIOUS
<1>2. Recs(<<>>) = {} /\ Ordered(<<>>) /\ Semantics(<<>>) = {}
  BY DEF Recs, Ordered, Semantics
<1>3. Cardinality(Semantics(<<>>)) <= HistoryLimit
  <2>1. Cardinality({}) = 0
    BY FS_EmptySet
  <2>2. Cardinality(Semantics(<<>>)) = 0
    BY <1>2, <2>1
  <2> QED BY <2>2, ConversationStreamAssumption
<1>4. h \in Hubs
  BY DEF Hubs, Views
<1> QED BY <1>1, <1>2, <1>3, <1>4 DEF HistoryOK

\* The hub is new to whoever has nothing left to read of the old one.
LEMMA NewHubStep ==
    ASSUME CInv, NEW n \in Nat, hub' = NewHub(n), PlacesOK',
           ~astray' => ~astray /\ batch' = <<>> /\ at' # "live",
           token' = token
    PROVE  CInv'
<1>1. /\ hub.stream \in Nat /\ token.stream \in Nat /\ token.stream <= hub.stream
  BY DEF CInv, HistoryOK, Hubs, PlacesOK
<1>2. /\ HistoryOK(hub') /\ Recs(hub'.history) = {} /\ hub'.stream = hub.stream + 1
      /\ hub'.latest = Unknown /\ hub'.fatal = 0
  BY <1>1, NewEpoch DEF NewHub
<1>3. LatestOK'
  BY <1>2 DEF LatestOK
<1>4. token'.stream # hub'.stream
  BY <1>1, <1>2
<1>5. ClientOK'
  <2> SUFFICES ASSUME ~astray'
               PROVE  TokenFits(hub)' /\ BatchFits(hub', view', batch') /\ at' # "live"
    BY DEF ClientOK
  <2>1. Recs(<<>>) = {}
    BY DEF Recs
  <2> QED BY <1>4, <2>1 DEF TokenFits, BatchFits
<1> QED BY <1>2, <1>3, <1>5 DEF CInv

LEMMA EvictStep ==
    ASSUME CInv, Evict
    PROVE  CInv'
<1>1. /\ at = "away" /\ UNCHANGED <<truth, producer, holder, clientVars>>
      /\ hub' = NewHub(hub.id + 1) /\ PlacesOK /\ hub \in Hubs
  BY DEF Evict, Reserved, CInv, HistoryOK
<1>2. hub.id + 1 \in Nat /\ hub.stream \in Nat
  BY <1>1 DEF Hubs
<1>3. batch = <<>> /\ hub'.fatal = 0 /\ hub'.stream = hub.stream + 1
  BY <1>1 DEF PlacesOK, NewHub
<1>4. PlacesOK'
  <2>1. token.stream \in Nat /\ token.stream <= hub.stream
    BY <1>1 DEF PlacesOK
  <2>2. token.stream <= hub'.stream
    BY <1>2, <1>3, <2>1
  <2> QED BY <1>1, <1>3, <2>2 DEF PlacesOK, clientVars
<1> QED BY <1>1, <1>2, <1>3, <1>4, NewHubStep DEF clientVars

\* The first subscriber begins a new epoch after an error, the client itself
\* or, behind its back, somebody else.
LEMMA RegisterStep ==
    ASSUME CInv, Register \/ OthersRegister
    PROVE  CInv'
<1> USE DEF Producer
<1>1. /\ PlacesOK /\ HistoryOK(hub) /\ hub \in Hubs
      /\ UNCHANGED <<truth, holder, batch, token, view, shutdown>>
      /\ \/ StartsProducer
         \/ producer # "none" /\ UNCHANGED <<producer, hub>>
      /\ (at = "reserved" /\ at' = "waiting") \/ at' = at
      /\ ~astray' => ~astray
      /\ StartsProducer /\ hub.fatal # 0 /\ at' = at /\ at' \in Connected => astray'
  <2>1. PlacesOK /\ HistoryOK(hub) /\ hub \in Hubs
    BY DEF CInv, HistoryOK
  <2>2. CASE Register
    <3>1. at = "reserved" /\ at' = "waiting" /\ astray' = astray
      BY <2>2 DEF Register
    <3> QED BY <2>1, <2>2, <3>1 DEF Register
  <2>3. CASE OthersRegister
    <3>1. \/ /\ StartsProducer
             /\ astray' = (astray \/ (hub.fatal # 0 /\ at \in Connected))
          \/ producer # "none" /\ UNCHANGED <<producer, hub>> /\ astray' = astray
      BY <2>3 DEF OthersRegister
    <3>2. UNCHANGED <<truth, holder, batch, token, view, shutdown, at>>
      BY <2>3 DEF OthersRegister
    <3>3. ~astray' => ~astray
      BY <3>1
    <3>4. StartsProducer => producer = "none"
      BY DEF StartsProducer
    <3>5. StartsProducer /\ hub.fatal # 0 /\ at \in Connected => astray'
      BY <3>1, <3>4
    <3> QED BY <2>1, <3>1, <3>2, <3>3, <3>5
  <2> QED BY <2>2, <2>3
<1>2. hub.id \in Nat /\ hub.stream \in Nat
  BY <1>1 DEF Hubs
<1>3. CASE StartsProducer /\ hub.fatal # 0
  <2>1. hub' = NewHub(hub.id) /\ producer' = "ready" /\ producer = "none"
    BY <1>3 DEF StartsProducer
  <2>2. hub'.fatal = 0 /\ hub'.stream = hub.stream + 1
    BY <2>1 DEF NewHub
  <2>3. PlacesOK'
    <3>1. token.stream \in Nat /\ token.stream <= hub.stream
      BY <1>1 DEF PlacesOK
    <3>2. token.stream <= hub'.stream
      BY <1>2, <2>2, <3>1
    <3>3. holder # Producer
      BY <1>1, <2>1 DEF PlacesOK
    <3>4. /\ at' \in {"away", "reserved"} \cup Connected
          /\ at' = "sending" <=> batch' # <<>>
      BY <1>1 DEF PlacesOK, Connected
    <3>5. /\ truth' \in Conversations /\ holder' \in {Nobody, Producer} \cup Getters
          /\ producer' \in {"none", "asking", "projecting", "ready"}
          /\ holder' # Producer /\ hub'.fatal = 0
      BY <1>1, <2>1, <2>2, <3>3 DEF PlacesOK
    <3>6. /\ batch' \in Seq(Records) /\ Ordered(batch') /\ view' \in Bodies
          /\ token' \in [stream : Nat, seq : Nat] /\ token'.stream <= hub'.stream
      BY <1>1, <3>2 DEF PlacesOK
    <3> QED BY <3>4, <3>5, <3>6 DEF PlacesOK
  <2>4. ~astray' => ~astray /\ batch' = <<>> /\ at' # "live"
    <3>0. hub' # hub
      BY <1>3, <2>2
    <3>1. at \in {"away", "reserved"} => batch = <<>>
      BY <1>1 DEF PlacesOK
    <3> QED BY <1>1, <1>3, <3>0, <3>1 DEF PlacesOK, Connected
  <2> QED BY <1>1, <1>2, <2>1, <2>3, <2>4, NewHubStep
<1>4. CASE ~(StartsProducer /\ hub.fatal # 0)
  <2>1. hub' = hub /\ (hub.fatal = 0 \/ producer # "none")
    BY <1>1, <1>4 DEF StartsProducer
  <2>2. hub.fatal = 0
    BY <1>1, <2>1 DEF PlacesOK
  <2>3. /\ producer' \in {"none", "asking", "projecting", "ready"}
        /\ holder = Producer => producer' = "projecting"
    BY <1>1 DEF StartsProducer, PlacesOK
  <2>4. (~astray' => ~astray) /\ Closed' = Closed
    BY <1>1 DEF Closed
  <2>5. CASE at' = at
    <3>1. PlacesOK'
      BY <1>1, <2>1, <2>2, <2>3, <2>5 DEF PlacesOK
    <3> QED BY <1>1, <2>1, <2>4, <2>5, <3>1, NothingNew
  <2>6. CASE at = "reserved" /\ at' = "waiting"
    <3>1. PlacesOK'
      BY <1>1, <2>1, <2>2, <2>3, <2>6 DEF PlacesOK, Connected
    <3>2. LatestOK' /\ HistoryOK(hub')
      BY <1>1, <2>1 DEF CInv, LatestOK
    <3>3. ClientOK'
      <4> SUFFICES ASSUME ~astray' PROVE TokenFits(hub)' /\ BatchFits(hub, view, batch)
        BY <1>1, <2>1, <2>6 DEF ClientOK
      <4>1. TokenFits(hub) /\ BatchFits(hub, view, batch)
        BY <2>4 DEF CInv, ClientOK
      <4>2. TokenFits(hub)'
        BY <1>1, <2>1, <2>2, <4>1 DEF TokenFits
      <4> QED BY <4>1, <4>2
    <3> QED BY <3>1, <3>2, <3>3 DEF CInv
  <2> QED BY <1>1, <2>5, <2>6
<1> QED BY <1>3, <1>4

\* The client reserves a hub, with what it has or with nothing; it leaves.
LEMMA ComesAndGoes ==
    ASSUME CInv, Reserve \/ Disconnect
    PROVE  CInv'
<1>1. /\ PlacesOK /\ HistoryOK(hub) /\ hub \in Hubs /\ LatestOK
      /\ UNCHANGED <<truth, hub, producer, holder, shutdown>>
      /\ batch' = <<>> /\ at' \in {"away", "reserved"}
      /\ \/ UNCHANGED <<token, view, astray>>
         \/ token' = NoCursor /\ view' = Unknown
  BY DEF Reserve, Disconnect, Leaves, CInv, HistoryOK, hubVars, PlacesOK
<1>2. hub.stream \in Nat /\ hub.stream # 0
  BY <1>1 DEF Hubs
<1>3. LatestOK' /\ HistoryOK(hub')
  BY <1>1 DEF LatestOK
<1>4. PlacesOK'
  <2>1. <<>> \in Seq(Records) /\ Ordered(<<>>)
    BY DEF Ordered
  <2>2. CASE UNCHANGED <<token, view, astray>>
    BY <1>1, <2>1, <2>2 DEF PlacesOK
  <2>3. CASE token' = NoCursor /\ view' = Unknown
    <3>1. token' \in [stream : Nat, seq : Nat] /\ token'.stream <= hub.stream
      BY <1>2, <2>3 DEF NoCursor
    <3> QED BY <1>1, <2>1, <2>3, <3>1, ConversationTypes DEF PlacesOK
  <2> QED BY <1>1, <2>2, <2>3
<1>5. ClientOK'
  <2>0. Recs(<<>>) = {}
    BY DEF Recs
  <2>1. CASE UNCHANGED <<token, view, astray>>
    <3> SUFFICES ASSUME ~astray PROVE TokenFits(hub)' /\ BatchFits(hub, view, <<>>)
      BY <1>1, <2>1 DEF ClientOK
    <3>1. TokenFits(hub)
      BY DEF CInv, ClientOK
    <3> QED BY <1>1, <2>0, <2>1, <3>1 DEF TokenFits, BatchFits
  <2>2. CASE token' = NoCursor /\ view' = Unknown
    <3>1. token'.stream # hub.stream
      BY <1>2, <2>2 DEF NoCursor
    <3> QED BY <1>1, <2>0, <3>1 DEF ClientOK, TokenFits, BatchFits
  <2> QED BY <1>1, <2>1, <2>2
<1> QED BY <1>3, <1>4, <1>5 DEF CInv

-----------------------------------------------------------------------------
(* What the client is sent.                                                  *)

LEMMA RecordsAfterFacts ==
    ASSUME HistoryOK(hub), NEW n \in Nat
    PROVE  /\ RecordsAfter(n) \in Seq(Records) /\ Ordered(RecordsAfter(n))
           /\ Recs(RecordsAfter(n)) = After(hub.history, n)
<1> DEFINE I == {i \in DOMAIN hub.history : hub.history[i].cursor > n}
<1>1. hub.history \in Seq(Records) /\ Ordered(hub.history)
  BY DEF HistoryOK, Hubs
<1>2. {hub.history[i] : i \in I} = After(hub.history, n)
  BY DEF After, Recs
<1>3. I \in SUBSET DOMAIN hub.history
  OBVIOUS
<1> HIDE DEF I
<1>4. /\ InOrder(hub.history, I) \in Seq(Records) /\ Ordered(InOrder(hub.history, I))
      /\ Recs(InOrder(hub.history, I)) = {hub.history[i] : i \in I}
  BY <1>1, <1>3, InOrderFacts
<1> QED BY <1>2, <1>4 DEF RecordsAfter, I

\* A snapshot stands for all there is.
LEMMA SnapshotFacts ==
    ASSUME HistoryOK(hub), NEW v \in Bodies, hub.latest # Unknown
    PROVE  /\ SnapshotForSubscriber \in Seq(Records) /\ Ordered(SnapshotForSubscriber)
           /\ SnapshotForSubscriber # <<>>
           /\ \A r \in Recs(SnapshotForSubscriber) : r.event = "snapshot"
           /\ BatchFits(hub, v, SnapshotForSubscriber)
<1> DEFINE r == [cursor |-> hub.cursor, event |-> "snapshot", body |-> hub.latest]
           b == <<r>>
<1>1. /\ hub.cursor \in Nat /\ hub.latest \in Bodies /\ hub.history \in Seq(Records)
      /\ \A q \in Recs(hub.history) : q.cursor <= hub.cursor
  BY ConversationTypes DEF HistoryOK, Hubs
<1>2. r \in Records
  BY <1>1 DEF Records, Events
<1>3. b \in Seq(Records) /\ Ordered(b) /\ b # <<>> /\ Recs(b) = {r}
  <2> HIDE DEF r
  <2> QED BY <1>2 DEF Ordered, Recs
<1>4. UpTo(b, hub.cursor) = {r}
  BY <1>1, <1>3 DEF UpTo
<1>5. Yields(v, {r}, hub.latest)
  <2>1. Apply(v, r) = hub.latest
    BY DEF Apply
  <2> HIDE DEF r
  <2> QED BY <1>2, <2>1, RecordYields
<1>6. After(hub.history, hub.cursor) = {}
  <2>1. Recs(hub.history) \subseteq Records
    BY <1>1 DEF Recs
  <2>2. \A q \in Recs(hub.history) : q.cursor \in Nat
    BY <2>1 DEF Records
  <2> QED BY <1>1, <2>2 DEF After
<1>7. Fits(hub, hub.latest, hub.cursor, hub.latest)
  BY <1>1, <1>6, NothingYields DEF Fits
<1>8. \A c \in Bodies : Yields(v, {r}, c) => c = hub.latest
  <2> TAKE c \in Bodies
  <2>1. Distinct({r}) /\ {r} \in SUBSET Records
    BY <1>2 DEF Distinct
  <2> HIDE DEF r
  <2> QED BY <1>1, <1>5, <2>1, YieldsOnce
<1>9. BatchFits(hub, v, b)
  <2> SUFFICES ASSUME NEW q \in Recs(b)
               PROVE  /\ q.cursor <= hub.cursor
                      /\ \A c \in Bodies : Yields(v, UpTo(b, q.cursor), c)
                            => Fits(hub, c, q.cursor, hub.latest)
    BY DEF BatchFits
  <2>1. q = r /\ q.cursor = hub.cursor
    BY <1>3
  <2>2. UpTo(b, q.cursor) = {r}
    BY <1>4, <2>1
  <2> HIDE DEF r, b
  <2>3. ASSUME NEW c \in Bodies, Yields(v, UpTo(b, q.cursor), c)
        PROVE  Fits(hub, c, q.cursor, hub.latest)
    BY <1>7, <1>8, <2>1, <2>2, <2>3
  <2> QED BY <1>1, <2>1, <2>3
<1> QED BY <1>3, <1>9 DEF SnapshotForSubscriber

\* A history whose head is not stale reaches back to every replayable cursor.
LEMMA ReplayReaches ==
    ASSUME HistoryOK(hub), NEW n \in Nat, CursorIsReplayable(n), ~HeadIsStale
    PROVE  Reaches(hub, n)
<1> DEFINE s == hub.history
<1>1. /\ s \in Seq(Records) /\ Ordered(s) /\ hub.cursor \in Nat
      /\ \A r \in Recs(s) : r.cursor \in 1 .. hub.cursor
      /\ \A q, r \in Recs(s) : ~Semantic(q) /\ ~Semantic(r) => q = r
      /\ hub.cursor # 0 => \E r \in Recs(s) : Semantic(r)
  BY DEF HistoryOK, Hubs
<1>2. CASE s = <<>>
  BY <1>2 DEF CursorIsReplayable, Reaches
<1>3. CASE s # <<>>
  <2>1. 1 \in DOMAIN s /\ s[1] \in Recs(s) /\ n >= s[1].cursor - 1 /\ Len(s) \in Nat
        /\ DOMAIN s = 1 .. Len(s)
    BY <1>1, <1>3 DEF CursorIsReplayable, Recs
  <2>2. s[1].cursor \in 1 .. hub.cursor /\ s[1].cursor <= n + 1
    <3>1. s[1].cursor \in 1 .. hub.cursor
      BY <1>1, <2>1
    <3> QED BY <1>1, <2>1, <3>1
  <2>3. CASE Semantic(s[1])
    BY <2>1, <2>2, <2>3 DEF Reaches
  <2>4. CASE ~Semantic(s[1])
    <3>1. PICK i \in DOMAIN s : Semantic(s[i])
      BY <1>1, <2>2 DEF Recs
    <3>2. i # 1 /\ Len(s) > 1 /\ 2 \in DOMAIN s
      BY <2>1, <2>4, <3>1
    <3>3. s[2] \in Recs(s) /\ s[2].cursor \in 1 .. hub.cursor /\ s[1].cursor < s[2].cursor
      BY <1>1, <2>1, <3>2 DEF Recs, Ordered
    <3>4. s[2].cursor = s[1].cursor + 1
      <4>1. ~(s[2].cursor > s[1].cursor + 1)
        BY <3>2 DEF HeadIsStale
      <4> QED BY <1>1, <2>2, <3>3, <4>1
    <3>5. Semantic(s[2])
      BY <1>1, <2>1, <2>2, <2>4, <3>3
    <3> QED BY <2>1, <2>2, <3>3, <3>4, <3>5 DEF Reaches
  <2> QED BY <2>3, <2>4
<1> QED BY <1>2, <1>3

\* So the records after it bring the client up to date.
LEMMA ReplayFacts ==
    ASSUME HistoryOK(hub), NEW n \in Nat, NEW v \in Bodies, CursorIsReplayable(n), ~HeadIsStale,
           Fits(hub, v, n, hub.latest), hub.latest # Unknown
    PROVE  BatchFits(hub, v, RecordsAfter(n))
<1> DEFINE b == RecordsAfter(n)
           R == Recs(hub.history)
<1>1. Recs(b) = After(hub.history, n)
  BY RecordsAfterFacts
<1>2. /\ hub.cursor \in Nat /\ hub.history \in Seq(Records) /\ hub.latest \in Bodies
      /\ R \subseteq Records /\ Distinct(R) /\ hub.fatal \in Nat
      /\ \A r \in R : r.cursor \in 1 .. hub.cursor
  BY CursorNames, ConversationTypes DEF HistoryOK, Hubs
<1>3. Reaches(hub, n)
  BY ReplayReaches
<1> HIDE DEF b, R
<1> SUFFICES ASSUME NEW r \in Recs(b)
             PROVE  /\ r.cursor <= hub.cursor
                    /\ \A c \in Bodies : Yields(v, UpTo(b, r.cursor), c)
                          => Fits(hub, c, r.cursor, hub.latest)
  BY DEF BatchFits, b
<1>4. r \in R /\ r.cursor \in 1 .. hub.cursor /\ r.cursor > n
  BY <1>1, <1>2 DEF After, R
<1> SUFFICES ASSUME NEW c \in Bodies, Yields(v, UpTo(b, r.cursor), c),
                    hub.fatal = 0 \/ r.cursor < hub.fatal
             PROVE  Yields(c, After(hub.history, r.cursor), hub.latest)
  BY <1>2, <1>4 DEF Fits
<1> DEFINE A == UpTo(b, r.cursor)
           B == After(hub.history, r.cursor)
<1>5. Yields(v, After(hub.history, n), hub.latest)
  BY <1>2, <1>3, <1>4 DEF Fits
<1>6. /\ A \in SUBSET Records /\ B \in SUBSET Records /\ Distinct(A) /\ Before(A, B)
      /\ A \cup B = After(hub.history, n)
  <2>1. A = {q \in R : q.cursor > n /\ q.cursor <= r.cursor}
    BY <1>1 DEF UpTo, After, R
  <2>2. B = {q \in R : q.cursor > r.cursor}
    BY DEF After, R
  <2>3. After(hub.history, n) = {q \in R : q.cursor > n}
    BY DEF After, R
  <2> HIDE DEF A, B
  <2>4. A \in SUBSET Records /\ B \in SUBSET Records /\ Distinct(A)
    BY <1>2, <2>1, <2>2 DEF Distinct
  <2>5. Before(A, B)
    BY <1>2, <1>4, <2>1, <2>2 DEF Before
  <2>6. \A q \in R : q.cursor > n <=> (q.cursor > n /\ q.cursor <= r.cursor) \/ q.cursor > r.cursor
    BY <1>2, <1>4
  <2>7. A \cup B = After(hub.history, n)
    BY <2>1, <2>2, <2>3, <2>6
  <2> QED BY <2>4, <2>5, <2>7
<1> HIDE DEF A, B
<1> QED BY <1>2, <1>5, <1>6, Parted DEF A, B

\* A client waits until there is something to be sent.
LEMMA ReadyStep ==
    ASSUME CInv, Ready
    PROVE  CInv'
<1>1. /\ PlacesOK /\ HistoryOK(hub) /\ LatestOK /\ hub \in Hubs
      /\ UNCHANGED <<truth, hub, producer, holder, token, view, shutdown>>
      /\ at = "waiting" /\ at' = AfterBatch(batch')
      /\ (hub.latest # Unknown \/ hub.fatal # 0 \/ Closed)
      /\ (~astray' => ~astray)
  BY DEF Ready, CInv, HistoryOK, hubVars
<1>2. /\ view \in Bodies /\ token.seq \in Nat /\ hub.fatal \in Nat /\ hub.cursor \in Nat
      /\ hub.history \in Seq(Records) /\ Ordered(hub.history) /\ hub.fatal <= hub.cursor
  BY <1>1 DEF PlacesOK, HistoryOK, Hubs
<1>3. \/ hub.latest = Unknown /\ batch' = hub.history
      \/ hub.latest # Unknown /\ Continues /\ batch' = RecordsAfter(token.seq)
      \/ hub.latest # Unknown /\ ~Continues /\ batch' = SnapshotForSubscriber
  BY DEF Ready
<1>4. batch' \in Seq(Records) /\ Ordered(batch')
  BY <1>1, <1>2, <1>3, RecordsAfterFacts, SnapshotFacts
<1>5. /\ at' \in {"sending", "live"}
      /\ at' = "sending" <=> batch' # <<>>
  BY <1>1 DEF AfterBatch
<1>6. PlacesOK'
  BY <1>1, <1>4, <1>5 DEF PlacesOK, Connected
<1>7. ClientOK'
  <2> SUFFICES ASSUME ~astray'
               PROVE  /\ TokenFits(hub)' /\ BatchFits(hub, view, batch')
                      /\ at' = "live" /\ ~Closed => token.stream = hub.stream
    BY <1>1 DEF ClientOK, Closed
  <2>1. TokenFits(hub)
    BY <1>1 DEF CInv, ClientOK
  <2>2. token.stream = hub.stream => /\ token.seq <= hub.cursor
                                     /\ Fits(hub, view, token.seq, hub.latest)
                                     /\ hub.latest # Unknown
    BY <1>1, <2>1 DEF TokenFits
  <2>3. CASE hub.latest = Unknown /\ batch' = hub.history
    <3>1. BatchFits(hub, view, hub.history)
      <4> SUFFICES ASSUME NEW r \in Recs(hub.history)
                   PROVE  /\ r.cursor <= hub.cursor
                          /\ \A c \in Bodies : Fits(hub, c, r.cursor, hub.latest)
                          /\ r.event = "error" /\ hub.fatal # 0
        BY DEF BatchFits
      <4>1. r.event = "error" /\ hub.fatal # 0 /\ r.cursor >= hub.fatal
        BY <1>1, <2>3 DEF LatestOK
      <4>2. r.cursor \in 1 .. hub.cursor
        BY <1>1 DEF HistoryOK
      <4>3. ~(r.cursor < hub.fatal)
        BY <1>2, <4>1, <4>2
      <4> QED BY <1>2, <4>1, <4>2, <4>3 DEF Fits
    <3>2. ~Closed => hub.history # <<>>
      <4> SUFFICES ASSUME ~Closed PROVE hub.history # <<>>
        OBVIOUS
      <4>1. hub.cursor # 0
        BY <1>1, <1>2, <2>3
      <4>2. Recs(hub.history) # {}
        BY <1>1, <4>1 DEF HistoryOK
      <4> QED BY <4>2 DEF Recs
    <3>3. TokenFits(hub)'
      BY <1>1, <2>2, <2>3 DEF TokenFits
    <3> QED BY <1>5, <2>3, <3>1, <3>2, <3>3
  <2>4. CASE hub.latest # Unknown /\ Continues /\ batch' = RecordsAfter(token.seq)
    <3>1. token.stream = hub.stream /\ CursorIsReplayable(token.seq) /\ ~HeadIsStale
      BY <2>4 DEF Ready, Continues
    <3>2. BatchFits(hub, view, batch')
      BY <1>1, <1>2, <2>2, <2>4, <3>1, ReplayFacts
    <3>3. \A r \in Recs(batch') : r.cursor > token.seq
      BY <1>1, <1>2, <2>4, RecordsAfterFacts DEF After
    <3>4. TokenFits(hub)'
      BY <1>1, <2>2, <2>4, <3>3 DEF TokenFits
    <3> QED BY <3>1, <3>2, <3>4
  <2>5. CASE hub.latest # Unknown /\ ~Continues /\ batch' = SnapshotForSubscriber
    <3>1. /\ BatchFits(hub, view, batch') /\ batch' # <<>>
          /\ \A r \in Recs(batch') : r.event = "snapshot"
      BY <1>1, <1>2, <2>5, SnapshotFacts
    <3>2. TokenFits(hub)'
      BY <1>1, <2>2, <2>5, <3>1 DEF TokenFits
    <3> QED BY <1>5, <3>1, <3>2
  <2> QED BY <1>3, <2>3, <2>4, <2>5
<1>8. LatestOK' /\ HistoryOK(hub')
  BY <1>1 DEF LatestOK
<1> QED BY <1>6, <1>7, <1>8 DEF CInv

LEMMA HeadFacts ==
    ASSUME NEW b \in Seq(Records), Ordered(b), b # <<>>
    PROVE  /\ Head(b) \in Recs(b) /\ Head(b) \in Records
           /\ Tail(b) \in Seq(Records) /\ Ordered(Tail(b))
           /\ Recs(b) = Recs(Tail(b)) \cup {Head(b)}
           /\ \A q \in Recs(Tail(b)) : Head(b).cursor < q.cursor
<1> DEFINE n == Len(b)
           t == Tail(b)
<1>1. /\ n \in Nat /\ n # 0 /\ DOMAIN b = 1 .. n /\ Head(b) = b[1] /\ 1 \in DOMAIN b
      /\ t \in Seq(Records) /\ DOMAIN t = 1 .. n - 1
      /\ \A i \in 1 .. n - 1 : t[i] = b[i + 1] /\ i + 1 \in 1 .. n /\ 1 < i + 1
  OBVIOUS
<1> HIDE DEF n, t
<1>2. Ordered(t)
  <2> SUFFICES ASSUME NEW i \in 1 .. n - 1, NEW j \in 1 .. n - 1, i < j
               PROVE  t[i].cursor < t[j].cursor
    BY <1>1 DEF Ordered
  <2>1. i + 1 \in DOMAIN b /\ j + 1 \in DOMAIN b /\ i + 1 < j + 1
    BY <1>1
  <2> QED BY <1>1, <2>1 DEF Ordered
<1>3. \A i \in DOMAIN b : i = 1 \/ \E j \in 1 .. n - 1 : i = j + 1
  <2> SUFFICES ASSUME NEW i \in 1 .. n, i # 1 PROVE i - 1 \in 1 .. n - 1 /\ i = (i - 1) + 1
    BY <1>1
  <2> QED BY <1>1
<1>4. Recs(b) = Recs(t) \cup {b[1]}
  <2>1. ASSUME NEW i \in DOMAIN b PROVE b[i] \in Recs(t) \cup {b[1]}
    <3>1. CASE i = 1
      BY <3>1
    <3>2. ASSUME NEW j \in 1 .. n - 1, i = j + 1 PROVE b[i] \in Recs(t)
      BY <1>1, <3>2 DEF Recs
    <3> QED BY <1>3, <3>1, <3>2
  <2>2. ASSUME NEW j \in DOMAIN t PROVE t[j] \in Recs(b)
    <3>1. t[j] = b[j + 1] /\ j + 1 \in DOMAIN b
      BY <1>1
    <3> QED BY <3>1 DEF Recs
  <2>3. b[1] \in Recs(b)
    BY <1>1 DEF Recs
  <2>4. Recs(b) \subseteq Recs(t) \cup {b[1]}
    BY <2>1 DEF Recs
  <2>5. Recs(t) \subseteq Recs(b)
    BY <2>2 DEF Recs
  <2> QED BY <2>3, <2>4, <2>5
<1>5. \A q \in Recs(t) : b[1].cursor < q.cursor
  BY <1>1 DEF Recs, Ordered
<1> QED BY <1>1, <1>2, <1>4, <1>5 DEF t, Recs

\* The client has one record more, and as much less to be sent.
LEMMA SendFits ==
    ASSUME NEW h, NEW v \in Bodies, NEW b \in Seq(Records), Ordered(b), b # <<>>,
           BatchFits(h, v, b)
    PROVE  LET r == Head(b)
           IN  /\ r.cursor <= h.cursor
               /\ Fits(h, Apply(v, r), r.cursor, h.latest)
               /\ h.latest = Unknown => r.event = "error" /\ h.fatal # 0
               /\ BatchFits(h, Apply(v, r), Tail(b))
<1> DEFINE r == Head(b)
           w == Apply(v, r)
           t == Tail(b)
<1>1. /\ r \in Recs(b) /\ r \in Records /\ t \in Seq(Records) /\ Ordered(t)
      /\ Recs(b) = Recs(t) \cup {r}
      /\ \A q \in Recs(t) : r.cursor < q.cursor
  BY HeadFacts
<1> HIDE DEF r, t
<1>2. w \in Bodies /\ Yields(v, {r}, w)
  BY <1>1, RecordYields
<1> HIDE DEF w
<1>3. r.cursor \in Nat /\ \A q \in Recs(t) : q.cursor \in Nat /\ q \in Records
  <2>1. Recs(t) \subseteq Records
    BY <1>1, CursorNames
  <2> QED BY <1>1, <2>1 DEF Records
<1>4. UpTo(b, r.cursor) = {r}
  BY <1>1, <1>3 DEF UpTo
<1>5. Fits(h, w, r.cursor, h.latest)
  BY <1>1, <1>2, <1>4 DEF BatchFits
<1>6. BatchFits(h, w, t)
  <2> SUFFICES ASSUME NEW q \in Recs(t)
               PROVE  /\ q.cursor <= h.cursor
                      /\ \A c \in Bodies : Yields(w, UpTo(t, q.cursor), c)
                            => Fits(h, c, q.cursor, h.latest)
                      /\ h.latest = Unknown => q.event = "error" /\ h.fatal # 0
    BY DEF BatchFits
  <2>1. /\ q.cursor <= h.cursor
        /\ \A c \in Bodies : Yields(v, UpTo(b, q.cursor), c) => Fits(h, c, q.cursor, h.latest)
        /\ h.latest = Unknown => q.event = "error" /\ h.fatal # 0
    BY <1>1 DEF BatchFits
  <2>2. UpTo(b, q.cursor) = {r} \cup UpTo(t, q.cursor)
    BY <1>1, <1>3 DEF UpTo
  <2>3. Before({r}, UpTo(t, q.cursor)) /\ UpTo(t, q.cursor) \in SUBSET Records
        /\ {r} \in SUBSET Records
    BY <1>1, <1>3 DEF Before, UpTo
  <2>4. ASSUME NEW c \in Bodies, Yields(w, UpTo(t, q.cursor), c)
        PROVE  Yields(v, UpTo(b, q.cursor), c)
    BY <1>2, <2>2, <2>3, <2>4, Joined
  <2> QED BY <2>1, <2>4
<1> QED BY <1>1, <1>5, <1>6 DEF BatchFits, r, w, t

LEMMA SendStep ==
    ASSUME CInv, Send
    PROVE  CInv'
<1> DEFINE r == Head(batch)
<1>1. /\ PlacesOK /\ HistoryOK(hub) /\ LatestOK /\ hub \in Hubs
      /\ UNCHANGED <<truth, hub, producer, holder, shutdown, astray>>
      /\ at = "sending" /\ batch # <<>>
      /\ view' = Apply(view, r)
      /\ token' = [stream |-> hub.stream, seq |-> r.cursor]
      /\ \/ r.event = "error" /\ at' = "away" /\ batch' = <<>>
         \/ r.event # "error" /\ batch' = Tail(batch) /\ at' = AfterBatch(Tail(batch))
  BY DEF Send, Leaves, CInv, HistoryOK, hubVars
<1>2. view \in Bodies /\ batch \in Seq(Records) /\ Ordered(batch)
  BY <1>1 DEF PlacesOK
<1>3. /\ r \in Records /\ Tail(batch) \in Seq(Records) /\ Ordered(Tail(batch))
      /\ \A q \in Recs(Tail(batch)) : r.cursor < q.cursor
  BY <1>1, <1>2, HeadFacts
<1> HIDE DEF r
<1>4. r.cursor \in Nat /\ hub.stream \in Nat
  BY <1>1, <1>3 DEF Records, Hubs
<1>5. view' \in Bodies
  BY <1>1, <1>2, <1>3, RecordYields
<1>6. PlacesOK'
  <2>1. /\ batch' \in Seq(Records) /\ Ordered(batch')
        /\ at' \in {"away", "sending", "live"}
        /\ at' = "sending" <=> batch' # <<>>
    <3>1. <<>> \in Seq(Records) /\ Ordered(<<>>)
      BY DEF Ordered
    <3> QED BY <1>1, <1>3, <3>1 DEF AfterBatch
  <2>2. token' \in [stream : Nat, seq : Nat] /\ token'.stream <= hub'.stream
    BY <1>1, <1>4
  <2>3. /\ truth' \in Conversations /\ holder' \in {Nobody, Producer} \cup Getters
        /\ producer' \in {"none", "asking", "projecting", "ready"}
        /\ holder' = Producer => producer' = "projecting"
        /\ hub'.fatal # 0 => producer' = "none"
    BY <1>1 DEF PlacesOK
  <2>4. at' \in {"away", "reserved"} \cup Connected
    BY <2>1 DEF Connected
  <2> QED BY <1>5, <2>1, <2>2, <2>3, <2>4 DEF PlacesOK
<1>7. ClientOK'
  <2> SUFFICES ASSUME ~astray
               PROVE  TokenFits(hub)' /\ BatchFits(hub, view', batch') /\ token'.stream = hub.stream
    BY <1>1 DEF ClientOK
  <2>1. BatchFits(hub, view, batch)
    BY DEF CInv, ClientOK
  <2>2. /\ r.cursor <= hub.cursor
        /\ Fits(hub, view', r.cursor, hub.latest)
        /\ hub.latest = Unknown => r.event = "error" /\ hub.fatal # 0
        /\ BatchFits(hub, view', Tail(batch))
    BY <1>1, <1>2, <2>1, SendFits DEF r
  <2>3. \A q \in Recs(batch') : q.cursor > r.cursor
    <3>1. Recs(<<>>) = {}
      BY DEF Recs
    <3>2. \A q \in Recs(Tail(batch)) : q.cursor > r.cursor
      <4>1. \A q \in Recs(Tail(batch)) : q.cursor \in Nat
        BY <1>3, CursorNames DEF Records
      <4> QED BY <1>3, <1>4, <4>1
    <3> QED BY <1>1, <3>1, <3>2
  <2>4. BatchFits(hub, view', batch')
    <3>1. Recs(<<>>) = {}
      BY DEF Recs
    <3>2. BatchFits(hub, view', <<>>)
      BY <3>1 DEF BatchFits
    <3> QED BY <1>1, <2>2, <3>2
  <2>5. token'.stream = hub.stream /\ token'.seq = r.cursor
    BY <1>1
  <2>6. hub.latest = Unknown => at' = "away" /\ hub.fatal # 0
    BY <1>1, <2>2
  <2>7. TokenFits(hub)'
    BY <1>1, <2>2, <2>3, <2>5, <2>6 DEF TokenFits
  <2> QED BY <2>4, <2>5, <2>7
<1>8. LatestOK' /\ HistoryOK(hub')
  BY <1>1 DEF LatestOK
<1> QED BY <1>6, <1>7, <1>8 DEF CInv

\* A client that has read everything is sent what is new, or leaves.
LEMMA WakeStep ==
    ASSUME CInv, Wake
    PROVE  CInv'
<1>1. /\ PlacesOK /\ HistoryOK(hub) /\ LatestOK /\ hub \in Hubs
      /\ UNCHANGED <<truth, hub, producer, holder, shutdown, token, view>>
      /\ at = "live" /\ (~astray' => ~astray)
      /\ \/ at' = "away" /\ batch' = <<>>
         \/ /\ at' = "sending" /\ ~Closed
            /\ CursorIsReplayable(token.seq) /\ RecordsAfter(token.seq) # <<>>
            /\ batch' = RecordsAfter(token.seq) /\ (~astray' => ~HeadIsStale)
         \/ /\ at' = "sending" /\ ~Closed
            /\ hub.latest # Unknown /\ batch' = SnapshotForSubscriber
  <2>1. PlacesOK /\ HistoryOK(hub) /\ LatestOK /\ hub \in Hubs
    BY DEF CInv, HistoryOK
  <2>2. /\ UNCHANGED <<truth, hub, producer, holder, shutdown, token, view>>
        /\ at = "live"
    BY DEF Wake, hubVars
  <2> DEFINE behind == RecordsAfter(token.seq)
             replays == CursorIsReplayable(token.seq)
  <2>3. \/ Leaves /\ astray' = astray
        \/ /\ ~Closed
           /\ \/ ~replays /\ hub.latest # Unknown
              \/ replays /\ behind # <<>>
           /\ at' = "sending"
           /\ batch' = IF replays THEN behind ELSE SnapshotForSubscriber
           /\ astray' = (astray \/ (replays /\ HeadIsStale))
    BY DEF Wake
  <2> HIDE DEF behind, replays
  <2>4. ~astray' => ~astray
    BY <2>3
  <2>5. at' = "sending" /\ ~astray' /\ replays => ~HeadIsStale \/ Leaves
    BY <2>3
  <2>6. Leaves => at' = "away" /\ batch' = <<>>
    BY DEF Leaves
  <2> QED BY <2>1, <2>2, <2>3, <2>4, <2>5, <2>6 DEF behind, replays
<1>2. /\ view \in Bodies /\ token.seq \in Nat
  BY <1>1 DEF PlacesOK
<1>3. /\ batch' \in Seq(Records) /\ Ordered(batch')
      /\ at' \in {"away", "sending"}
      /\ at' = "sending" <=> batch' # <<>>
  <2>1. <<>> \in Seq(Records) /\ Ordered(<<>>)
    BY DEF Ordered
  <2> QED BY <1>1, <1>2, <2>1, RecordsAfterFacts, SnapshotFacts
<1>4. PlacesOK'
  BY <1>1, <1>3 DEF PlacesOK, Connected
<1>5. ClientOK'
  <2> SUFFICES ASSUME ~astray'
               PROVE  TokenFits(hub)' /\ BatchFits(hub, view, batch')
    BY <1>1, <1>3 DEF ClientOK
  <2>1. TokenFits(hub) /\ (~Closed => token.stream = hub.stream)
    BY <1>1 DEF CInv, ClientOK
  <2>2. token.stream = hub.stream => /\ token.seq <= hub.cursor
                                     /\ Fits(hub, view, token.seq, hub.latest)
                                     /\ hub.latest # Unknown
    BY <1>1, <2>1 DEF TokenFits
  <2>3. CASE at' = "away" /\ batch' = <<>>
    <3>1. Recs(<<>>) = {}
      BY DEF Recs
    <3> QED BY <1>1, <2>2, <2>3, <3>1 DEF TokenFits, BatchFits
  <2>4. CASE /\ ~Closed /\ CursorIsReplayable(token.seq) /\ ~HeadIsStale
             /\ batch' = RecordsAfter(token.seq)
    <3>1. BatchFits(hub, view, batch')
      BY <1>1, <1>2, <2>1, <2>2, <2>4, ReplayFacts
    <3>2. \A r \in Recs(batch') : r.cursor > token.seq
      BY <1>1, <1>2, <2>4, RecordsAfterFacts DEF After
    <3> QED BY <1>1, <2>2, <3>1, <3>2 DEF TokenFits
  <2>5. CASE hub.latest # Unknown /\ batch' = SnapshotForSubscriber
    <3>1. /\ BatchFits(hub, view, batch')
          /\ \A r \in Recs(batch') : r.event = "snapshot"
      BY <1>1, <1>2, <2>5, SnapshotFacts
    <3> QED BY <1>1, <2>2, <2>5, <3>1 DEF TokenFits
  <2> QED BY <1>1, <2>3, <2>4, <2>5
<1>6. LatestOK' /\ HistoryOK(hub')
  BY <1>1 DEF LatestOK
<1> QED BY <1>4, <1>5, <1>6 DEF CInv

-----------------------------------------------------------------------------
LEMMA ConversationInit == Init => CInv
<1> SUFFICES ASSUME Init PROVE CInv
  OBVIOUS
<1> USE DEF Nobody, Producer
<1>1. hub = [id |-> 1, stream |-> 0 + 1, history |-> <<>>, cursor |-> 0,
             latest |-> Unknown, fatal |-> 0]
  BY DEF Init
<1>2. /\ HistoryOK(hub) /\ Recs(hub.history) = {} /\ hub.stream = 1
      /\ hub.latest = Unknown /\ hub.fatal = 0
  <2>1. /\ HistoryOK(hub) /\ Recs(hub.history) = {} /\ hub.stream = 0 + 1
        /\ hub.latest = Unknown /\ hub.fatal = 0
    <3>1. 1 \in Nat /\ 0 \in Nat
      OBVIOUS
    <3> QED BY <1>1, <3>1, NewEpoch, Zenon
  <2> QED BY <2>1
<1>3. LatestOK
  BY <1>2 DEF LatestOK
<1>4. PlacesOK
  <2>1. <<>> \in Seq(Records) /\ Ordered(<<>>)
    BY DEF Ordered
  <2>2. token \in [stream : Nat, seq : Nat] /\ token.stream <= hub.stream
    BY <1>2 DEF Init, NoCursor
  <2>3. truth \in Conversations
    BY DEF Init, Conversations
  <2> QED BY <1>2, <2>1, <2>2, <2>3, ConversationTypes DEF Init, PlacesOK
<1>5. ClientOK
  <2>1. Recs(<<>>) = {}
    BY DEF Recs
  <2>2. token.stream # hub.stream
    BY <1>2 DEF Init, NoCursor
  <2> QED BY <2>1, <2>2 DEF Init, ClientOK, TokenFits, BatchFits
<1> QED BY <1>2, <1>3, <1>4, <1>5 DEF CInv

\* Whatever the hub, the requests and the clients do, a client is in line.
THEOREM StaysInLine == Spec => []CInv
<1>1. ASSUME CInv, [Next]_vars PROVE CInv'
  <2>1. CASE UNCHANGED vars
    <3>1. PlacesOK
      BY <1>1 DEF CInv
    <3>2. PlacesOK' /\ Closed' = Closed
      BY <2>1, <3>1 DEF vars, hubVars, clientVars, PlacesOK, Closed
    <3> QED BY <1>1, <2>1, <3>2, NothingNew DEF vars, hubVars, clientVars
  <2>2. CASE Next
    BY <1>1, <2>2, AcceptSteps, FailStep, OtherSteps, EvictStep, RegisterStep, ComesAndGoes,
       ReadyStep, SendStep, WakeStep
       DEF Next, Produce, Get, Subscribe
  <2> QED BY <1>1, <2>1, <2>2
<1> QED BY <1>1, ConversationInit, PTL DEF Spec

\* Every variable has its type, and the history keeps to its limit: at most one
\* heartbeat more than the records that count.
THEOREM TypeCorrect == Spec => []TypeOK
<1>1. CInv => TypeOK
  <2> SUFFICES ASSUME CInv PROVE TypeOK
    OBVIOUS
  <2> DEFINE s == hub.history
             n == Len(s)
  <2>1. /\ HistoryOK(hub) /\ hub \in Hubs /\ PlacesOK
        /\ s \in Seq(Records) /\ Ordered(s) /\ n \in Nat
        /\ \A q, r \in Recs(s) : ~Semantic(q) /\ ~Semantic(r) => q = r
        /\ Cardinality(Semantics(s)) <= HistoryLimit
    BY DEF CInv, HistoryOK, Hubs
  <2> HIDE DEF s, n
  <2>2. n <= HistoryLimit + 1
    <3> DEFINE I == Semantics(s)
               beats == (1 .. n) \ I
    <3>1. I \in SUBSET (1 .. n) /\ DOMAIN s = 1 .. n
      BY <2>1 DEF Semantics, n
    <3>2. IsFiniteSet(1 .. n) /\ Cardinality(1 .. n) = n
      BY <2>1, FS_Interval
    <3>3. ASSUME NEW i \in beats, NEW j \in beats PROVE i = j
      <4>1. s[i] = s[j] /\ i \in DOMAIN s /\ j \in DOMAIN s
        BY <2>1, <3>1 DEF Semantics, Recs
      <4>2. i \in Int /\ j \in Int /\ s[i] \in Records /\ s[j] \in Records
        BY <2>1, <3>1, <4>1
      <4>3. s[i].cursor \in Int /\ s[j].cursor \in Int
        BY <4>2 DEF Records
      <4>4. ~(i < j) /\ ~(j < i)
        BY <2>1, <4>1, <4>3 DEF Ordered
      <4> QED BY <4>2, <4>4
    <3> HIDE DEF I
    <3>4. IsFiniteSet(I) /\ Cardinality(I) \in Nat
      BY <3>1, <3>2, FS_Subset, FS_CardinalityType
    <3>5. CASE beats = {}
      <4>1. I = 1 .. n
        BY <3>1, <3>5
      <4>2. n <= HistoryLimit
        BY <2>1, <3>2, <4>1 DEF I
      <4> QED BY <2>1, <4>2, ConversationStreamAssumption
    <3>6. CASE beats # {}
      <4>1. PICK b \in beats : TRUE
        BY <3>6
      <4>2. I \cup {b} = 1 .. n /\ b \notin I
        BY <3>1, <3>3, <4>1
      <4>3. Cardinality(I \cup {b}) = Cardinality(I) + 1
        BY <3>4, <4>2, FS_AddElement
      <4>4. Cardinality(I) <= HistoryLimit
        BY <2>1 DEF I
      <4>5. n = Cardinality(I) + 1
        BY <3>2, <4>2, <4>3
      <4> HIDE DEF beats
      <4> QED BY <2>1, <3>4, <4>4, <4>5, ConversationStreamAssumption
    <3> QED BY <3>5, <3>6
  <2>3. hub.fatal \in 0 .. hub.cursor /\ hub.latest \in Views
    BY <2>1 DEF HistoryOK, Hubs
  <2> QED BY <2>1, <2>2, <2>3 DEF TypeOK, PlacesOK, s, n
<1> QED BY <1>1, StaysInLine, PTL

\* A subscriber that has read everything shows what was last projected.
THEOREM ShowsTheLatest == Spec => []ViewIsCurrent
<1>1. CInv => ViewIsCurrent
  <2> SUFFICES ASSUME CInv, at = "live", ~Stirred, ~astray PROVE view = hub.latest
    BY DEF ViewIsCurrent, UpToDate
  <2> DEFINE n == token.seq
  <2>1. /\ HistoryOK(hub) /\ PlacesOK /\ TokenFits(hub) /\ ~Closed
        /\ token.stream = hub.stream
    BY DEF CInv, ClientOK, Stirred
  <2>2. /\ n \in Nat /\ n <= hub.cursor /\ Fits(hub, view, n, hub.latest)
        /\ view \in Bodies /\ hub.latest \in Bodies
        /\ hub.cursor \in Nat /\ hub.fatal \in Nat /\ hub.history \in Seq(Records)
    BY <2>1, ConversationTypes DEF TokenFits, PlacesOK, HistoryOK, Hubs
  <2>3. /\ CursorIsReplayable(n) /\ RecordsAfter(n) = <<>>
        /\ ~(hub.fatal # 0 /\ n >= hub.fatal)
    BY DEF Stirred
  <2>4. After(hub.history, n) = {}
    <3>1. Recs(<<>>) = {}
      BY DEF Recs
    <3> QED BY <2>1, <2>2, <2>3, <3>1, RecordsAfterFacts
  <2>5. n = hub.cursor
    <3>1. CASE hub.history = <<>>
      BY <2>3, <3>1 DEF CursorIsReplayable
    <3>2. CASE hub.history # <<>>
      <4>1. 1 \in DOMAIN hub.history /\ hub.history[1] \in Recs(hub.history)
        BY <2>2, <3>2 DEF Recs
      <4>2. hub.history[1].cursor \in 1 .. hub.cursor
        BY <2>1, <4>1 DEF HistoryOK
      <4>3. hub.cursor # 0
        BY <2>2, <4>2
      <4>4. PICK r \in Recs(hub.history) : r.cursor = hub.cursor
        BY <2>1, <4>3 DEF HistoryOK
      <4>5. ~(r.cursor > n)
        BY <2>4 DEF After
      <4> QED BY <2>2, <4>4, <4>5
    <3> QED BY <3>1, <3>2
  <2>6. hub.fatal = 0 \/ n < hub.fatal
    BY <2>2, <2>3
  <2>7. Yields(view, {}, hub.latest)
    BY <2>2, <2>4, <2>5, <2>6 DEF Fits, Reaches
  <2> QED BY <2>2, <2>7, NothingYields
<1> QED BY <1>1, StaysInLine, PTL

\* Within an epoch nothing is sent again, except in a snapshot.
THEOREM SentOnce == Spec => []NoRepeat
<1>1. CInv => NoRepeat
  BY DEF CInv, ClientOK, TokenFits, NoRepeat, Recs
<1> QED BY <1>1, StaysInLine, PTL
=============================================================================
