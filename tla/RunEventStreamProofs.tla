------------------------ MODULE RunEventStreamProofs ------------------------
(* Proofs about RunEventStream: what readers are sent, for any number of     *)
(* readers, Runs, threads and restarts.                                      *)
EXTENDS RunLifecycleProofs, RunEventStream, FiniteSetTheorems

\* b is the part of the log l that comes after number n.
BatchFollows(l, n, b) ==
    /\ b \in Seq(Events)
    /\ n + Len(b) <= Len(l)
    /\ \A k \in 1 .. Len(b) : b[k] = l[n + k]

\* What a reader has been sent is the log up to its cursor, and what its
\* generator holds is the part of the log that comes next.
ReaderOK(d) ==
    /\ watched[d] \in Runs \cup {NoRun}
    /\ at[d] \in {"away", "events", "yield", "status", "ended"}
    /\ at[d] \in {"events", "yield", "status"} => watched[d] \in Runs
    /\ watched[d] = NoRun => sent[d] = <<>>
    /\ watched[d] \in Runs =>
          /\ Len(sent[d]) <= Len(log[watched[d]])
          /\ sent[d] = SubSeq(log[watched[d]], 1, Len(sent[d]))
    /\ sent[d] \in Seq(Events)
    /\ cursor[d] = Len(sent[d])
    /\ at[d] = "yield" =>
          /\ batch[d] # <<>>
          /\ BatchFollows(log[watched[d]], cursor[d], batch[d])

ReadersOK ==
    /\ DOMAIN watched = Readers /\ DOMAIN cursor = Readers /\ DOMAIN sent = Readers
    /\ DOMAIN at = Readers /\ DOMAIN batch = Readers
    /\ \A d \in Readers : ReaderOK(d)

SInv == IInv /\ ReadersOK

-----------------------------------------------------------------------------
(* What events(run_id, after_seq) returns.                                   *)

\* The positions after m, in their order.
LEMMA InOrderTail ==
    ASSUME NEW S, NEW s \in Seq(S), NEW m \in 0 .. Len(s)
    PROVE  InOrder(s, (m + 1) .. Len(s)) = SubSeq(s, m + 1, Len(s))
<1> DEFINE n == Len(s)
           I == (m + 1) .. n
           Nth(k) == CHOOSE i \in I : Cardinality({j \in I : j <= i}) = k
<1>1. n \in Nat /\ m \in Nat /\ m <= n
  OBVIOUS
<1>2. Cardinality(I) = n - m
  <2>1. m + 1 \in Int /\ n \in Int
    BY <1>1
  <2>2. Cardinality(I) = IF m + 1 > n THEN 0 ELSE n - (m + 1) + 1
    BY <2>1, FS_Interval
  <2>3. (IF m + 1 > n THEN 0 ELSE n - (m + 1) + 1) = n - m
    BY <1>1
  <2> QED BY <2>2, <2>3
<1>3. ASSUME NEW i \in I PROVE Cardinality({j \in I : j <= i}) = i - m
  <2>1. {j \in I : j <= i} = (m + 1) .. i
    BY <1>1
  <2>2. i \in Int /\ m + 1 \in Int /\ i >= m + 1
    BY <1>1
  <2>3. Cardinality((m + 1) .. i) = IF m + 1 > i THEN 0 ELSE i - (m + 1) + 1
    BY <2>2, FS_Interval
  <2>4. Cardinality((m + 1) .. i) = i - m
    BY <1>1, <2>2, <2>3
  <2> QED BY <2>1, <2>4
<1>4. ASSUME NEW k \in 1 .. (n - m) PROVE Nth(k) = m + k
  <2>1. m + k \in I /\ Cardinality({j \in I : j <= m + k}) = k
    <3>1. m + k \in I /\ (m + k) - m = k
      BY <1>1
    <3> QED BY <1>3, <3>1
  <2>2. \A i \in I : Cardinality({j \in I : j <= i}) = k => i = m + k
    <3> TAKE i \in I
    <3>1. i - m = k => i = m + k
      BY <1>1
    <3> QED BY <1>3, <3>1
  <2> HIDE DEF I
  <2> QED BY <2>1, <2>2
<1>5. InOrder(s, I) = [k \in 1 .. (n - m) |-> s[m + k]]
  <2>1. InOrder(s, I) = [k \in 1 .. Cardinality(I) |-> s[Nth(k)]]
    BY DEF InOrder
  <2> HIDE DEF I, Nth
  <2> QED BY <1>2, <1>4, <2>1
<1>6. SubSeq(s, m + 1, n) = [k \in 1 .. (n - m) |-> s[m + k]]
  <2>1. n - (m + 1) + 1 = n - m /\ \A k \in 1 .. (n - m) : k + (m + 1) - 1 = m + k
    BY <1>1
  <2>2. SubSeq(s, m + 1, n) = [k \in 1 .. (1 + n - (m + 1)) |-> s[k + (m + 1) - 1]]
    BY <1>1
  <2> QED BY <1>1, <2>1, <2>2
<1> QED BY <1>5, <1>6

\* The log is dense, so the events after number m are the rest of the log.
LEMMA AfterIsTail ==
    ASSUME IInv, NEW r \in Runs, NEW m \in 0 .. Len(log[r])
    PROVE  /\ log[r] \in Seq(Events)
           /\ After(r, m) = SubSeq(log[r], m + 1, Len(log[r]))
<1>1. log[r] \in Seq(Events) /\ \A i \in DOMAIN log[r] : log[r][i].seq = i
  BY DEF IInv, TypeOK, CounterInv, DenseLog
<1>2. {i \in DOMAIN log[r] : log[r][i].seq > m} = (m + 1) .. Len(log[r])
  <2>1. DOMAIN log[r] = 1 .. Len(log[r]) /\ Len(log[r]) \in Nat
    BY <1>1
  <2>2. {i \in DOMAIN log[r] : log[r][i].seq > m} = {i \in 1 .. Len(log[r]) : i > m}
    BY <1>1, <2>1
  <2> QED BY <2>1, <2>2
<1> QED BY <1>1, <1>2, InOrderTail DEF After

-----------------------------------------------------------------------------
LEMMA StreamInitStep == StreamInit => SInv
<1> SUFFICES ASSUME StreamInit PROVE SInv
  OBVIOUS
<1>1. IInv
  BY InitStep DEF StreamInit
<1>2. ASSUME NEW d \in Readers PROVE ReaderOK(d)
  BY RunLifecycleAssumption DEF StreamInit, ReaderOK
<1> QED BY <1>1, <1>2 DEF SInv, ReadersOK, StreamInit

\* The Run goes on: what was sent stays the beginning of the log.
LEMMA RunStepKeeps ==
    ASSUME SInv, RunStep
    PROVE  SInv'
<1>0. IInv /\ ReadersOK /\ RunStep
  BY DEF SInv
<1>1. IInv'
  BY <1>0, NextStep DEF RunStep
<1>2. ASSUME NEW r \in Runs
      PROVE  /\ Len(log[r]) <= Len(log'[r])
             /\ \A n \in 0 .. Len(log[r]) : SubSeq(log'[r], 1, n) = SubSeq(log[r], 1, n)
  <2>0. log[r] \in Seq(Events) /\ log'[r] \in Seq(Events)
    BY <1>0, <1>1 DEF IInv, TypeOK
  <2>1. CASE log'[r] = log[r]
    BY <2>0, <2>1
  <2>2. ASSUME NEW a \in Actors, todo[a] # <<>>, log' = [log EXCEPT ![job[a]] = Appended(a)],
               log'[r] # log[r]
        PROVE  /\ Len(log[r]) <= Len(log'[r])
               /\ \A n \in 0 .. Len(log[r]) : SubSeq(log'[r], 1, n) = SubSeq(log[r], 1, n)
    <3>1. /\ job[a] \in Runs /\ Appended(a) \in Seq(Events)
          /\ Appended(a) = Append(log[job[a]], Appended(a)[Len(log[job[a]]) + 1])
      BY <1>0, <2>2, AppendedFacts
    <3>2. DOMAIN log = Runs
      BY <1>0 DEF IInv, TypeOK
    <3>3. job[a] = r /\ log'[r] = Append(log[r], Appended(a)[Len(log[r]) + 1])
      BY <2>2, <3>1, <3>2
    <3> DEFINE x == Appended(a)[Len(log[r]) + 1]
    <3> HIDE DEF x
    <3> QED BY <2>0, <3>3 DEF x
  <2> QED BY <1>0, <2>1, <2>2, LogSteps DEF RunStep
<1>3. ASSUME NEW d \in Readers PROVE ReaderOK(d)'
  <2>1. ReaderOK(d)
    BY <1>0 DEF ReadersOK
  <2>2. watched' = watched /\ cursor' = cursor /\ sent' = sent
    BY <1>0 DEF RunStep
  <2>3. /\ at'[d] \in {"away", "events", "yield", "status", "ended"}
        /\ at'[d] \in {"events", "yield", "status"} => at[d] = at'[d] /\ batch'[d] = batch[d]
    BY <1>0, <2>1 DEF RunStep, Hangup, ReaderOK
  <2>4. ASSUME watched[d] \in Runs
        PROVE  /\ Len(sent[d]) <= Len(log'[watched[d]])
               /\ sent[d] = SubSeq(log'[watched[d]], 1, Len(sent[d]))
    <3> DEFINE r == watched[d]
    <3>1. /\ Len(sent[d]) <= Len(log[r]) /\ sent[d] = SubSeq(log[r], 1, Len(sent[d]))
          /\ sent[d] \in Seq(Events)
      BY <2>1, <2>4 DEF ReaderOK
    <3>2. Len(log[r]) \in Nat /\ Len(log'[r]) \in Nat /\ Len(sent[d]) \in Nat
      BY <1>0, <1>1, <2>4, <3>1 DEF IInv, TypeOK
    <3> QED BY <1>2, <2>4, <3>1, <3>2
  <2>5. ASSUME at'[d] = "yield"
        PROVE  /\ batch'[d] # <<>>
               /\ BatchFollows(log'[watched[d]], cursor[d], batch'[d])
    <3> DEFINE r == watched[d]
               n == cursor[d]
    <3>1. /\ r \in Runs /\ batch[d] # <<>> /\ BatchFollows(log[r], n, batch[d])
          /\ batch'[d] = batch[d] /\ n = Len(sent[d]) /\ sent[d] \in Seq(Events)
      BY <2>1, <2>3, <2>5 DEF ReaderOK
    <3>2. log[r] \in Seq(Events) /\ log'[r] \in Seq(Events) /\ n \in Nat
      BY <1>0, <1>1, <3>1 DEF IInv, TypeOK
    <3>3. \A i \in 1 .. Len(log[r]) : log'[r][i] = log[r][i]
      <4>1. /\ Len(log[r]) <= Len(log'[r])
            /\ SubSeq(log'[r], 1, Len(log[r])) = SubSeq(log[r], 1, Len(log[r]))
        BY <1>2, <3>1, <3>2
      <4> HIDE DEF r
      <4> QED BY <3>2, <4>1
    <3>4. Len(log[r]) <= Len(log'[r])
      BY <1>2, <3>1
    <3> DEFINE b == batch[d]
    <3>5. /\ b \in Seq(Events) /\ n + Len(b) <= Len(log'[r])
          /\ \A k \in 1 .. Len(b) : b[k] = log'[r][n + k]
      <4> HIDE DEF r, n, b
      <4>1. /\ b \in Seq(Events) /\ n + Len(b) <= Len(log[r])
            /\ \A k \in 1 .. Len(b) : b[k] = log[r][n + k]
        BY <3>1 DEF BatchFollows, b
      <4>2. Len(b) \in Nat /\ Len(log[r]) \in Nat /\ Len(log'[r]) \in Nat
        BY <3>2, <4>1
      <4>3. \A k \in 1 .. Len(b) : n + k \in 1 .. Len(log[r])
        BY <3>2, <4>1, <4>2
      <4> QED BY <3>3, <3>4, <4>1, <4>2, <4>3, <3>2
    <3> QED BY <3>1, <3>5 DEF BatchFollows
  <2> QED BY <2>1, <2>2, <2>3, <2>4, <2>5 DEF ReaderOK
<1>4. DOMAIN at' = Readers /\ DOMAIN batch' = Readers
  BY <1>0 DEF RunStep, Hangup, ReadersOK
<1> QED BY <1>0, <1>1, <1>3, <1>4 DEF SInv, ReadersOK, RunStep

\* A read of the log brings the rest of it.
LEMMA ReadEventsKeeps ==
    ASSUME SInv, NEW d \in Readers, ReadEvents(d)
    PROVE  ReaderOK(d)'
<1>0. IInv /\ ReaderOK(d) /\ ReadersOK
  BY DEF SInv, ReadersOK
<1> DEFINE r == watched[d]
           n == Len(sent[d])
           l == log[r]
           records == After(r, cursor[d])
<1>1. r \in Runs /\ cursor[d] = n /\ n \in Nat /\ n <= Len(l) /\ l \in Seq(Events)
      /\ sent[d] \in Seq(Events) /\ Len(l) \in Nat
  BY <1>0 DEF ReadEvents, ReaderOK, IInv, TypeOK
<1>2. n \in 0 .. Len(l)
  BY <1>1
<1>3. records = SubSeq(l, n + 1, Len(l))
  BY <1>0, <1>1, <1>2, AfterIsTail
<1>4. /\ batch'[d] = records /\ sent' = sent /\ cursor' = cursor
      /\ at'[d] = IF records = <<>> THEN "status" ELSE "yield"
      /\ watched' = watched /\ log' = log
  BY <1>0 DEF ReadEvents, ReadersOK, vars
<1> HIDE DEF records
<1>5. BatchFollows(l, n, records)
  <2>1. ASSUME NEW w \in Seq(Events), NEW m \in 0 .. Len(w)
        PROVE  LET v == SubSeq(w, m + 1, Len(w))
               IN  /\ v \in Seq(Events) /\ Len(v) = Len(w) - m
                   /\ \A k \in 1 .. (Len(w) - m) : v[k] = w[m + k]
    OBVIOUS
  <2> HIDE DEF l, n
  <2>2. /\ records \in Seq(Events) /\ Len(records) = Len(l) - n
        /\ \A k \in 1 .. (Len(l) - n) : records[k] = l[n + k]
    BY <1>1, <1>2, <1>3, <2>1
  <2> QED BY <1>1, <1>2, <2>2 DEF BatchFollows
<1> QED BY <1>0, <1>1, <1>4, <1>5 DEF ReaderOK

\* A record that goes out is the next of the log, and the cursor follows.
LEMMA YieldKeeps ==
    ASSUME SInv, NEW d \in Readers, YieldRecord(d)
    PROVE  ReaderOK(d)'
<1>0. IInv /\ ReaderOK(d) /\ ReadersOK
  BY DEF SInv, ReadersOK
<1> DEFINE r == watched[d]
           n == Len(sent[d])
           l == log[r]
           b == batch[d]
<1>1. /\ r \in Runs /\ cursor[d] = n /\ n \in Nat /\ n <= Len(l) /\ l \in Seq(Events)
      /\ sent[d] = SubSeq(l, 1, n) /\ sent[d] \in Seq(Events) /\ Len(l) \in Nat
      /\ b # <<>> /\ BatchFollows(l, n, b)
  BY <1>0 DEF YieldRecord, ReaderOK, IInv, TypeOK
<1>2. /\ sent'[d] = Append(sent[d], Head(b)) /\ cursor'[d] = Head(b).seq
      /\ batch'[d] = Tail(b) /\ watched' = watched /\ log' = log
      /\ at'[d] = IF Tail(b) = <<>> THEN "status" ELSE "yield"
  BY <1>0 DEF YieldRecord, ReadersOK, vars
<1> HIDE DEF l, b, r
<1>3. /\ Len(b) >= 1 /\ Head(b) = b[1] /\ Tail(b) \in Seq(Events)
      /\ Len(Tail(b)) = Len(b) - 1 /\ \A k \in 1 .. (Len(b) - 1) : Tail(b)[k] = b[k + 1]
  BY <1>1 DEF BatchFollows
<1>4. Head(b) = l[n + 1] /\ n + 1 \in 1 .. Len(l) /\ n + 1 + Len(Tail(b)) <= Len(l)
  BY <1>1, <1>3 DEF BatchFollows
<1>5. Head(b).seq = n + 1
  <2>1. \A i \in DOMAIN l : l[i].seq = i
    BY <1>0, <1>1 DEF IInv, CounterInv, DenseLog, l, r
  <2>2. n + 1 \in DOMAIN l
    BY <1>1, <1>4
  <2> QED BY <1>4, <2>1, <2>2
<1>6. /\ sent'[d] \in Seq(Events) /\ Len(sent'[d]) = n + 1
      /\ sent'[d] = SubSeq(l, 1, n + 1)
  <2>1. l[n + 1] \in Events
    BY <1>1, <1>4
  <2>2. /\ Append(sent[d], l[n + 1]) \in Seq(Events)
        /\ Len(Append(sent[d], l[n + 1])) = n + 1
        /\ \A k \in 1 .. (n + 1) :
              Append(sent[d], l[n + 1])[k] = IF k <= n THEN sent[d][k] ELSE l[n + 1]
    BY <1>1, <2>1
  <2>3. \A k \in 1 .. n : sent[d][k] = l[k]
    BY <1>1
  <2>4. /\ SubSeq(l, 1, n + 1) \in Seq(Events) /\ Len(SubSeq(l, 1, n + 1)) = n + 1
        /\ \A k \in 1 .. (n + 1) : SubSeq(l, 1, n + 1)[k] = l[k]
    BY <1>1, <1>4
  <2>5. \A k \in 1 .. (n + 1) : Append(sent[d], l[n + 1])[k] = SubSeq(l, 1, n + 1)[k]
    <3> HIDE DEF n
    <3>1. \A k \in 1 .. (n + 1) : (k <= n /\ k \in 1 .. n) \/ (~(k <= n) /\ k = n + 1)
      BY <1>1
    <3> QED BY <2>2, <2>3, <2>4, <3>1
  <2> QED BY <1>2, <1>4, <2>2, <2>4, <2>5, SeqEqual
<1>7. BatchFollows(l, n + 1, Tail(b))
  <2>1. \A k \in 1 .. Len(Tail(b)) : k + 1 \in 1 .. Len(b) /\ n + (k + 1) = n + 1 + k
    <3>1. Len(b) \in Nat /\ Len(Tail(b)) = Len(b) - 1
      BY <1>1, <1>3 DEF BatchFollows
    <3> HIDE DEF n
    <3> QED BY <1>1, <3>1
  <2>2. \A k \in 1 .. Len(Tail(b)) : Tail(b)[k] = l[n + 1 + k]
    <3>1. \A k \in 1 .. Len(b) : b[k] = l[n + k]
      BY <1>1 DEF BatchFollows
    <3>2. TAKE k \in 1 .. Len(Tail(b))
    <3>3. Tail(b)[k] = b[k + 1]
      BY <1>3
    <3> QED BY <2>1, <3>1, <3>3
  <2> QED BY <1>3, <1>4, <2>2 DEF BatchFollows
<1> QED BY <1>0, <1>1, <1>2, <1>4, <1>5, <1>6, <1>7, RunLifecycleAssumption DEF ReaderOK, l, r

\* Every other step of a reader leaves what it was sent and the Run alone.
LEMMA ReaderSteps ==
    ASSUME SInv, NEW d \in Readers,
           Read(d) \/ Disconnect(d) \/ \E r \in Runs : Connect(d, r)
    PROVE  SInv'
<1>0. IInv /\ ReadersOK
  BY DEF SInv
<1>1. vars' = vars
  BY DEF Read, ReadEvents, YieldRecord, ReadStatus, Disconnect, Connect
<1>2. IInv' /\ log' = log
  <2>1. IInv'
    BY <1>0, <1>1, NextStep
  <2> QED BY <1>1, <2>1 DEF vars
<1>3. /\ DOMAIN watched' = Readers /\ DOMAIN cursor' = Readers /\ DOMAIN sent' = Readers
      /\ DOMAIN at' = Readers /\ DOMAIN batch' = Readers
  BY <1>0 DEF Read, ReadEvents, YieldRecord, ReadStatus, Disconnect, Connect, ReadersOK
<1>4. ASSUME NEW c \in Readers \ {d} PROVE ReaderOK(c)'
  <2>1. ReaderOK(c) /\ watched'[c] = watched[c] /\ cursor'[c] = cursor[c] /\ sent'[c] = sent[c]
        /\ at'[c] = at[c] /\ batch'[c] = batch[c]
    BY <1>0 DEF Read, ReadEvents, YieldRecord, ReadStatus, Disconnect, Connect, ReadersOK
  <2> QED BY <1>2, <2>1 DEF ReaderOK
<1>5. ReaderOK(d)'
  <2>0. ReaderOK(d)
    BY <1>0 DEF ReadersOK
  <2>1. CASE ReadEvents(d)
    BY <2>1, ReadEventsKeeps
  <2>2. CASE ReadStatus(d) \/ Disconnect(d)
    <3>1. /\ watched' = watched /\ cursor' = cursor /\ sent' = sent
          /\ at[d] \in {"events", "yield", "status"}
          /\ at'[d] \in {"away", "events", "status", "ended"}
      BY <1>0, <2>2 DEF ReadStatus, Disconnect, ReadersOK
    <3> QED BY <1>2, <2>0, <3>1 DEF ReaderOK
  <2>3. ASSUME NEW r \in Runs, Connect(d, r) PROVE ReaderOK(d)'
    <3>1. /\ watched[d] \in {NoRun, r} /\ watched'[d] = r /\ at'[d] = "events"
          /\ cursor' = cursor /\ sent' = sent
      BY <1>0, <2>3 DEF Connect, ReadersOK
    <3>2. log[r] \in Seq(Events)
      BY <1>0 DEF IInv, TypeOK
    <3>3. CASE watched[d] = r
      BY <1>2, <2>0, <3>1, <3>3 DEF ReaderOK
    <3>4. CASE watched[d] = NoRun
      <4>1. sent[d] = <<>> /\ cursor[d] = Len(sent[d])
        BY <2>0, <3>4 DEF ReaderOK
      <4>2. Len(sent[d]) = 0 /\ 0 <= Len(log[r]) /\ SubSeq(log[r], 1, 0) = <<>>
            /\ sent[d] \in Seq(Events)
        BY <3>2, <4>1
      <4> QED BY <1>2, <3>1, <4>1, <4>2, RunLifecycleAssumption DEF ReaderOK
    <3> QED BY <3>1, <3>3, <3>4
  <2>4. CASE YieldRecord(d)
    BY <2>4, YieldKeeps
  <2> QED BY <2>1, <2>2, <2>3, <2>4 DEF Read
<1> QED BY <1>2, <1>3, <1>4, <1>5 DEF SInv, ReadersOK

\* The inductive invariant of readers and Runs.
THEOREM StreamInvariance == StreamSpec => []SInv
<1>1. StreamInit => SInv
  BY StreamInitStep
<1>2. SInv /\ [StreamNext]_streamVars => SInv'
  <2> SUFFICES ASSUME SInv, [StreamNext]_streamVars PROVE SInv'
    OBVIOUS
  <2>1. CASE UNCHANGED streamVars
    <3>1. IInv'
      BY <2>1, NextStep DEF SInv, streamVars
    <3> QED BY <2>1, <3>1 DEF SInv, ReadersOK, ReaderOK, streamVars, readers, vars
  <2>2. CASE StreamNext
    BY <2>2, RunStepKeeps, ReaderSteps DEF StreamNext
  <2> QED BY <2>1, <2>2
<1> QED BY <1>1, <1>2, PTL DEF StreamSpec

\* A client that reconnects as often as it likes, while threads and crashing
\* processes write the log, is sent every event once and in order.
THEOREM SentExactlyOnce == StreamSpec => []ExactlyOnce
<1>1. SInv => ExactlyOnce
  BY DEF SInv, ReadersOK, ReaderOK, ExactlyOnce
<1> QED BY <1>1, StreamInvariance, PTL
=============================================================================
