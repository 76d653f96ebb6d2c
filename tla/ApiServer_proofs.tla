-------------------------- MODULE ApiServer_proofs --------------------------
(***************************************************************************)
(* Why the tables of the API server agree with each other and with the     *)
(* containers, although queues change hands with requests still in them,   *)
(* callers give up, and containers come and go between two steps.          *)
(***************************************************************************)
EXTENDS ApiServer, TLAPS, FiniteSetTheorems, SequenceTheorems

Counts == [num : Int, mean : Int, lost : Nat]

\* A request whose caller waits: it is in one place, in the queue of the caller's
\* connector, and the caller has no answer.
Waiting(q, i) ==
  LET k == reqs[q][i].call IN
  /\ call[k] # Free /\ call[k].state = "sent" /\ call[k].conn.queue = q
  /\ \A j \in DOMAIN reqs[q] : reqs[q][j].call = k => j = i
QueuedCalls == \A q \in Queues : \A i \in DOMAIN reqs[q] : reqs[q][i].call # None => Waiting(q, i)

\* The calls follow the queue of their API until it is released.
CallsFollow ==
  \A k \in Calls : call[k] # Free /\ ~call[k].conn.stale => QUEUES[call[k].api] = call[k].conn.queue

Answered ==
  \A k \in Calls : call[k] # Free /\ call[k].state = "answered" => call[k].by \in Containers /\ call[k].of \in Apis

\* An API with containers has a number of containers that it should have.
Wanted == \A c \in Existing : DESIRED[docker[c].api] # None

\* What a round of maintenance has found stays as it is until the round is over.
Rounds ==
  \A a \in Apis : ndiff[a] # 0 =>
    /\ QUEUES[a] # None /\ DESIRED[a] # None /\ API_CONTAINERS[a] # None
    /\ ndiff[a] < 0 => Cardinality(API_CONTAINERS[a]) - ndiff[a] <= MAX_PER_API_CONTAINERS

Queueing   == QueueExclusive /\ PoolFollowsQueue /\ OutstandingCounted /\ CallsFollow
Containing == ListensToOwnQueue /\ Wanted /\ Rounds /\ CapacityBound

IInv == TypeOK /\ Queueing /\ QueuedCalls /\ Answered /\ OwnAnswer /\ Containing

-----------------------------------------------------------------------------
(* Records, counts and pools.                                              *)

LEMMA Appended ==
  ASSUME NEW S, NEW s \in Seq(S), NEW e \in S
  PROVE  /\ Append(s, e) \in Seq(S) /\ Len(s) \in Nat
         /\ DOMAIN s = 1 .. Len(s) /\ DOMAIN Append(s, e) = 1 .. Len(s) + 1
         /\ \A i \in 1 .. Len(s) : Append(s, e)[i] = s[i] /\ s[i] \in S
         /\ Append(s, e)[Len(s) + 1] = e
         /\ Append(s, e) # <<>>
OBVIOUS

LEMMA CallsTyped ==
  ASSUME TypeOK, NEW k \in Calls, call[k] # Free
  PROVE  /\ call[k] \in CallsMade
         /\ call[k].conn \in Connectors /\ call[k].conn.queue \in Queues /\ call[k].conn.stale \in BOOLEAN
         /\ call[k].api \in Apis /\ call[k].cmd \in Commands /\ call[k].state \in {"sent", "answered"}
<1>1. call[k] \in CallsMade
  BY DEF TypeOK
<1> QED
  BY <1>1 DEF CallsMade, Connectors

LEMMA QueuedRequests ==
  ASSUME TypeOK
  PROVE  \A q \in Queues :
           /\ reqs[q] \in Seq(Requests) /\ Len(reqs[q]) \in Nat /\ DOMAIN reqs[q] = 1 .. Len(reqs[q])
           /\ \A j \in DOMAIN reqs[q] : reqs[q][j] \in Requests /\ reqs[q][j].call \in Calls \cup {None}
<1> SUFFICES ASSUME NEW q \in Queues
             PROVE  /\ reqs[q] \in Seq(Requests) /\ Len(reqs[q]) \in Nat /\ DOMAIN reqs[q] = 1 .. Len(reqs[q])
                    /\ \A j \in DOMAIN reqs[q] : reqs[q][j] \in Requests /\ reqs[q][j].call \in Calls \cup {None}
  OBVIOUS
<1>1. reqs[q] \in Seq(Requests)
  BY DEF TypeOK
<1>2. \A e \in Requests : e.call \in Calls \cup {None}
  BY DEF Requests
<1>3. \A j \in 1 .. Len(reqs[q]) : reqs[q][j] \in Requests
  BY <1>1
<1>4. Len(reqs[q]) \in Nat /\ DOMAIN reqs[q] = 1 .. Len(reqs[q])
  BY <1>1
<1> QED
  BY <1>1, <1>2, <1>3, <1>4

LEMMA DockerTyped ==
  ASSUME TypeOK
  PROVE  \A c \in Existing :
           /\ c \in Containers /\ docker[c] \in Launched
           /\ docker[c].state \in {"running", "exited"} /\ docker[c].api \in Apis
           /\ docker[c].queue \in Queues \cup {None}
<1> SUFFICES ASSUME NEW c \in Existing
             PROVE  c \in Containers /\ docker[c] \in Launched
  BY DEF Launched
<1>1. c \in Containers /\ docker[c] # NoContainer
  BY DEF Existing, NoContainer
<1> QED
  BY <1>1 DEF TypeOK

LEMMA Incremented ==
  ASSUME NEW counts \in [Queues -> Counts], NEW q \in Queues, NEW n \in Int
  PROVE  /\ incr_outstanding(counts, q, n) \in [Queues -> Counts]
         /\ incr_outstanding(counts, q, n)[q].num = counts[q].num + n
         /\ incr_outstanding(counts, q, n)[q].lost = counts[q].lost
         /\ \A p \in Queues \ {q} : incr_outstanding(counts, q, n)[p] = counts[p]
<1> DEFINE old == counts[q]
           c   == old.num + n
           m   == (old.mean + 16 * c) \div 5
           rec == [num |-> c, mean |-> m, lost |-> old.lost]
<1>1. old \in Counts /\ c \in Int
  BY DEF Counts
<1>3. old.mean + 16 * c \in Int
  BY <1>1 DEF Counts
<1>4. m \in Int
  BY <1>3
<1>5. rec \in Counts
  BY <1>1, <1>4 DEF Counts
<1>6. incr_outstanding(counts, q, n) = [counts EXCEPT ![q] = rec]
  BY DEF incr_outstanding
<1>7. rec.num = c /\ rec.lost = old.lost
  OBVIOUS
<1> HIDE DEF rec
<1> QED
  BY <1>5, <1>6, <1>7

LEMMA UnderWayFinite ==
  ASSUME NEW q
  PROVE  IsFiniteSet(UnderWay(q)) /\ Cardinality(UnderWay(q)) \in Nat
BY FiniteAssumption, FS_Subset, FS_CardinalityType DEF UnderWay

LEMMA Reset ==
  ASSUME TypeOK, NEW a \in Apis, NEW q \in Queues
  PROVE  /\ reset(a, q) \in [Queues -> Counts]
         /\ QUEUES[a] = q => reset(a, q) = outstanding
         /\ QUEUES[a] # q => reset(a, q)[q].num = 0 /\ reset(a, q)[q].lost = Cardinality(UnderWay(q))
         /\ \A p \in Queues \ {q} : reset(a, q)[p] = outstanding[p]
<1> DEFINE rec == [num |-> 0, mean |-> 0, lost |-> Cardinality(UnderWay(q))]
<1>1. rec \in Counts
  BY UnderWayFinite DEF Counts
<1>2. [NewQueue EXCEPT !.lost = Cardinality(UnderWay(q))] = rec
  BY DEF NewQueue
<1>3. outstanding \in [Queues -> Counts]
  BY DEF TypeOK, Counts
<1>4. reset(a, q) = IF QUEUES[a] = q THEN outstanding ELSE [outstanding EXCEPT ![q] = rec]
  BY <1>2 DEF reset
<1> HIDE DEF rec
<1>5. QUEUES[a] # q => reset(a, q)[q] = rec
  BY <1>3, <1>4
<1> QED
  BY <1>1, <1>3, <1>4, <1>5 DEF rec

-----------------------------------------------------------------------------
(* A call takes a queue and a connector.                                   *)

LEMMA QueueTaken ==
  ASSUME TypeOK, QueueExclusive, NEW a \in Apis, NEW q \in Queues, get_queue(a, q)
  PROVE  /\ QUEUES' \in [Apis -> Queues \cup {None}] /\ (QUEUE_CACHE \subseteq Queues)'
         /\ QUEUES[a] \in {q, None} /\ QUEUES'[a] = q
         /\ \A b \in Apis \ {a} : QUEUES'[b] = QUEUES[b] /\ QUEUES[b] # q
         /\ QUEUE_CACHE' = QUEUE_CACHE \ {q}
         /\ QueueExclusive'
<1>1. QUEUES \in [Apis -> Queues \cup {None}] /\ QUEUE_CACHE \subseteq Queues
  BY DEF TypeOK
<1>2. QUEUES' = [QUEUES EXCEPT ![a] = q] /\ QUEUE_CACHE' = QUEUE_CACHE \ {q}
  BY DEF get_queue
<1>3. QUEUES[a] \in {q, None}
  BY DEF get_queue
<1>4. QUEUES'[a] = q /\ \A b \in Apis \ {a} : QUEUES'[b] = QUEUES[b]
  BY <1>1, <1>2
<1>5. q # None
  BY NoneAssumption
<1>6. \A b \in Apis \ {a} : QUEUES[b] # q
  BY <1>5 DEF get_queue, QueueExclusive
<1> QED
  BY <1>1, <1>2, <1>3, <1>4, <1>6 DEF QueueExclusive

LEMMA Pool ==
  ASSUME TypeOK, PoolFollowsQueue, NEW a \in Apis, NEW q \in Queues, QUEUES[a] \in {q, None}
  PROVE  /\ get_conn(a, q) \in Connectors
         /\ get_conn(a, q).queue \in Queues
         /\ ~get_conn(a, q).stale => get_conn(a, q).queue = q
         /\ Pooled(a) => QUEUES[a] = q
         /\ ~Pooled(a) => get_conn(a, q).queue = q
         /\ pop_conn(a) => /\ CONNS' \in [Apis -> {None} \cup Seq(Connectors)]
                           /\ \A b \in Apis \ {a} : CONNS'[b] = CONNS[b]
                           /\ \A i \in DOMAIN CONNS'[a] : CONNS'[a][i].stale \/ CONNS'[a][i].queue = q
<1> DEFINE pool == CONNS[a]
<1>1. CONNS \in [Apis -> {None} \cup Seq(Connectors)] /\ pool \in {None} \cup Seq(Connectors)
  BY DEF TypeOK
<1>2. CASE Pooled(a)
  <2>1. pool \in Seq(Connectors) /\ pool # <<>> /\ pool # None
    BY <1>1, <1>2 DEF Pooled
  <2>2. Len(pool) \in 1 .. Len(pool) /\ DOMAIN pool = 1 .. Len(pool) /\ Len(pool) \in Nat \ {0}
    BY <2>1
  <2>3. QUEUES[a] = q
    BY <2>1, NoneAssumption DEF PoolFollowsQueue
  <2>4. \A i \in 1 .. Len(pool) : pool[i] \in Connectors /\ (pool[i].stale \/ pool[i].queue = q)
    BY <2>1, <2>2, <2>3 DEF PoolFollowsQueue
  <2>5. get_conn(a, q) = pool[Len(pool)]
    BY <1>2 DEF get_conn
  <2> DEFINE rest == SubSeq(pool, 1, Len(pool) - 1)
  <2>6. rest \in Seq(Connectors) /\ DOMAIN rest = 1 .. Len(pool) - 1 /\ \A i \in DOMAIN rest : rest[i] = pool[i]
    BY <2>1, <2>2
  <2>7. pop_conn(a) => CONNS' = [CONNS EXCEPT ![a] = rest]
    BY <1>2 DEF pop_conn
  <2> HIDE DEF rest
  <2>8. \A i \in DOMAIN rest : rest[i].stale \/ rest[i].queue = q
    BY <2>2, <2>4, <2>6
  <2>9. get_conn(a, q) \in Connectors /\ get_conn(a, q).queue \in Queues
        /\ (~get_conn(a, q).stale => get_conn(a, q).queue = q)
    BY <2>2, <2>4, <2>5 DEF Connectors
  <2>10. pop_conn(a) => CONNS'[a] = rest
    BY <1>1, <2>7
  <2>11. pop_conn(a) => CONNS' \in [Apis -> {None} \cup Seq(Connectors)]
    BY <1>1, <2>6, <2>7
  <2>12. pop_conn(a) => \A b \in Apis \ {a} : CONNS'[b] = CONNS[b]
    BY <1>1, <2>7
  <2> QED
    BY <1>2, <2>3, <2>8, <2>9, <2>10, <2>11, <2>12
<1>3. CASE ~Pooled(a)
  <2>1. get_conn(a, q) = [queue |-> q, stale |-> FALSE]
    BY <1>3 DEF get_conn
  <2>2. get_conn(a, q) \in Connectors /\ get_conn(a, q).queue = q
    BY <2>1 DEF Connectors
  <2>3. pop_conn(a) => CONNS' = [CONNS EXCEPT ![a] = <<>>]
    BY <1>3 DEF pop_conn
  <2>4. <<>> \in Seq(Connectors) /\ DOMAIN <<>> = {}
    OBVIOUS
  <2> QED
    BY <1>1, <1>3, <2>2, <2>3, <2>4
<1> QED
  BY <1>2, <1>3

\* Taking a queue and a connector leaves the tables right, whatever the counts.
LEMMA Popped ==
  ASSUME TypeOK, Queueing, NEW a \in Apis, NEW q \in Queues, get_queue(a, q), pop_conn(a)
  PROVE  PoolFollowsQueue'
<1>1. QUEUES[a] \in {q, None} /\ QUEUES'[a] = q /\ \A b \in Apis \ {a} : QUEUES'[b] = QUEUES[b]
  BY QueueTaken DEF Queueing
<1>2. /\ \A b \in Apis \ {a} : CONNS'[b] = CONNS[b]
      /\ \A i \in DOMAIN CONNS'[a] : CONNS'[a][i].stale \/ CONNS'[a][i].queue = q
  BY <1>1, Pool DEF Queueing
<1>3. q # None
  BY NoneAssumption
<1>4. ASSUME NEW b \in Apis, CONNS'[b] # None
      PROVE  QUEUES'[b] # None /\ \A i \in DOMAIN CONNS'[b] : CONNS'[b][i].stale \/ CONNS'[b][i].queue = QUEUES'[b]
  <2>1. CASE b = a
    BY <1>1, <1>2, <1>3, <2>1
  <2>2. CASE b # a
    BY <1>1, <1>2, <1>4, <2>2 DEF Queueing, PoolFollowsQueue
  <2> QED
    BY <2>1, <2>2
<1> QED
  BY <1>4 DEF PoolFollowsQueue

LEMMA ResetCounted ==
  ASSUME TypeOK, Queueing, NEW a \in Apis, NEW q \in Queues, get_queue(a, q),
         NEW p \in Queues, p \in QUEUE_CACHE' \/ \E b \in Apis : QUEUES'[b] = p
  PROVE  reset(a, q)[p].num = Cardinality(UnderWay(p)) - reset(a, q)[p].lost
<1>1. CASE p = q /\ QUEUES[a] # q
  <2>1. reset(a, q)[q].num = 0 /\ reset(a, q)[q].lost = Cardinality(UnderWay(q))
    BY <1>1, Reset
  <2> QED
    BY <1>1, <2>1, UnderWayFinite
<1>2. CASE p # q \/ QUEUES[a] = q
  <2>1. reset(a, q)[p] = outstanding[p]
    BY <1>2, Reset
  <2>2. p \in QUEUE_CACHE \/ \E b \in Apis : QUEUES[b] = p
    BY <1>2, QueueTaken DEF Queueing
  <2> QED
    BY <2>1, <2>2 DEF Queueing, OutstandingCounted
<1> QED
  BY <1>1, <1>2

Sent(a, cmd, conn) == [state |-> "sent", api |-> a, cmd |-> cmd, conn |-> conn, by |-> None, of |-> None]

LEMMA Started ==
  ASSUME TypeOK, NEW k \in FreeCalls, NEW a \in Apis, NEW cmd \in Commands, NEW conn \in Connectors,
         call' = [call EXCEPT ![k] = Sent(a, cmd, conn)]
  PROVE  /\ call' \in [Calls -> {Free} \cup CallsMade]
         /\ k \in Calls /\ call[k] = Free
         /\ call'[k] = Sent(a, cmd, conn) /\ call'[k] # Free
         /\ \A m \in Calls \ {k} : call'[m] = call[m]
         /\ \A p \in Queues : Cardinality(UnderWay(p)') = Cardinality(UnderWay(p)) + (IF p = conn.queue THEN 1 ELSE 0)
<1>1. k \in Calls /\ call[k] = Free /\ call \in [Calls -> {Free} \cup CallsMade]
  BY DEF FreeCalls, TypeOK
<1>2. Sent(a, cmd, conn) \in CallsMade
  BY DEF Sent, CallsMade
<1>3. call'[k] = Sent(a, cmd, conn) /\ \A m \in Calls \ {k} : call'[m] = call[m]
  BY <1>1
<1>4. Sent(a, cmd, conn).state # Free.state
  BY DEF Sent, Free
<1>5. Sent(a, cmd, conn).conn = conn
  BY DEF Sent
<1>6. ASSUME NEW p \in Queues
      PROVE  Cardinality(UnderWay(p)') = Cardinality(UnderWay(p)) + (IF p = conn.queue THEN 1 ELSE 0)
  <2>1. k \notin UnderWay(p)
    BY <1>1 DEF UnderWay
  <2>2. CASE p = conn.queue
    <3>1. UnderWay(p)' = UnderWay(p) \cup {k}
      BY <1>1, <1>3, <1>4, <1>5, <2>2 DEF UnderWay
    <3> QED
      BY <2>1, <2>2, <3>1, UnderWayFinite, FS_AddElement
  <2>3. CASE p # conn.queue
    <3>1. UnderWay(p)' = UnderWay(p)
      BY <1>1, <1>3, <1>4, <1>5, <2>3 DEF UnderWay
    <3> QED
      BY <2>3, <3>1, UnderWayFinite
  <2> QED
    BY <2>2, <2>3
<1> QED
  BY <1>1, <1>2, <1>3, <1>4, <1>6

\* The caller is turned away.
LEMMA Overloads ==
  ASSUME TypeOK, Queueing, NEW a \in Apis, NEW q \in Queues, get_queue(a, q), overload(a, q)
  PROVE  /\ outstanding' \in [Queues -> Counts] /\ CONNS' \in [Apis -> {None} \cup Seq(Connectors)]
         /\ Queueing'
<1>1. QUEUES[a] \in {q, None} /\ QUEUES'[a] = q /\ \A b \in Apis \ {a} : QUEUES'[b] = QUEUES[b]
  BY QueueTaken DEF Queueing
<1>2. QueueExclusive' /\ PoolFollowsQueue'
  BY QueueTaken, Popped DEF Queueing, overload
<1>3. outstanding' = reset(a, q) /\ call' = call
  BY DEF overload
<1>4. OutstandingCounted'
  BY <1>3, ResetCounted DEF OutstandingCounted, UnderWay
<1>5. CallsFollow'
  <2> SUFFICES ASSUME NEW k \in Calls, call[k] # Free, ~call[k].conn.stale
               PROVE  QUEUES'[call[k].api] = call[k].conn.queue
    BY <1>3 DEF CallsFollow
  <2>1. QUEUES[call[k].api] = call[k].conn.queue /\ call[k].conn.queue \in Queues /\ call[k].api \in Apis
    BY CallsTyped DEF Queueing, CallsFollow
  <2> QED
    BY <1>1, <2>1, NoneAssumption
<1>6. outstanding' \in [Queues -> Counts]
  BY <1>3, Reset
<1>7. CONNS' \in [Apis -> {None} \cup Seq(Connectors)]
  BY <1>1, Pool DEF Queueing, overload
<1> QED
  BY <1>2, <1>4, <1>5, <1>6, <1>7 DEF Queueing

\* The call is made.
LEMMA Sends ==
  ASSUME TypeOK, Queueing, QueuedCalls, Answered, OwnAnswer,
         NEW a \in Apis, NEW q \in Queues, get_queue(a, q),
         NEW cmd \in Commands, conn_send_recv(a, cmd, q)
  PROVE  /\ outstanding' \in [Queues -> Counts] /\ CONNS' \in [Apis -> {None} \cup Seq(Connectors)]
         /\ call' \in [Calls -> {Free} \cup CallsMade] /\ reqs' \in [Queues -> Seq(Requests)]
         /\ Queueing' /\ QueuedCalls' /\ Answered' /\ OwnAnswer'
<1> DEFINE msg(k) == [cmd |-> cmd, call |-> k]
<1>1. QUEUES[a] \in {q, None} /\ QUEUES'[a] = q /\ \A b \in Apis \ {a} : QUEUES'[b] = QUEUES[b]
  BY QueueTaken DEF Queueing
<1>2. PICK conn \in Connectors :
        conn = get_conn(a, q) /\ conn.queue \in Queues /\ (~conn.stale => conn.queue = q)
  BY <1>1, Pool DEF Queueing
<1>3. QueueExclusive' /\ PoolFollowsQueue'
  BY QueueTaken, Popped DEF Queueing, conn_send_recv
<1>4. PICK k \in FreeCalls :
        /\ call' = [call EXCEPT ![k] = Sent(a, cmd, conn)]
        /\ reqs' = [reqs EXCEPT ![conn.queue] = Append(@, msg(k))]
  BY <1>2 DEF conn_send_recv, Sent
<1>5. outstanding' = incr_outstanding(reset(a, q), conn.queue, 1)
  BY <1>2 DEF conn_send_recv
<1>6. CONNS' \in [Apis -> {None} \cup Seq(Connectors)]
  BY <1>1, Pool DEF Queueing, conn_send_recv
<1>7. /\ call' \in [Calls -> {Free} \cup CallsMade]
      /\ k \in Calls /\ call[k] = Free
      /\ call'[k] = Sent(a, cmd, conn) /\ call'[k] # Free
      /\ \A m \in Calls \ {k} : call'[m] = call[m]
      /\ \A p \in Queues : Cardinality(UnderWay(p)') = Cardinality(UnderWay(p)) + (IF p = conn.queue THEN 1 ELSE 0)
  BY <1>4, Started
<1>8. Sent(a, cmd, conn).state = "sent" /\ Sent(a, cmd, conn).conn = conn /\ Sent(a, cmd, conn).api = a
  BY DEF Sent
<1>9. /\ outstanding' \in [Queues -> Counts]
      /\ outstanding'[conn.queue].num = reset(a, q)[conn.queue].num + 1
      /\ outstanding'[conn.queue].lost = reset(a, q)[conn.queue].lost
      /\ \A p \in Queues \ {conn.queue} : outstanding'[p] = reset(a, q)[p]
  BY <1>2, <1>5, Incremented, Reset
<1>10. OutstandingCounted'
  <2> SUFFICES ASSUME NEW p \in Queues, p \in QUEUE_CACHE' \/ \E b \in Apis : QUEUES'[b] = p
               PROVE  outstanding'[p].num = Cardinality(UnderWay(p)') - outstanding'[p].lost
    BY DEF OutstandingCounted
  <2>1. reset(a, q)[p].num = Cardinality(UnderWay(p)) - reset(a, q)[p].lost /\ reset(a, q)[p] \in Counts
    BY ResetCounted, Reset
  <2>2. Cardinality(UnderWay(p)) \in Nat /\ reset(a, q)[p].num \in Int /\ reset(a, q)[p].lost \in Nat
    BY <2>1, UnderWayFinite DEF Counts
  <2>3. CASE p = conn.queue
    BY <1>7, <1>9, <2>1, <2>2, <2>3
  <2>4. CASE p # conn.queue
    BY <1>7, <1>9, <2>1, <2>2, <2>4
  <2> QED
    BY <2>3, <2>4
<1>11. CallsFollow'
  <2> SUFFICES ASSUME NEW m \in Calls, call'[m] # Free, ~call'[m].conn.stale
               PROVE  QUEUES'[call'[m].api] = call'[m].conn.queue
    BY DEF CallsFollow
  <2>1. CASE m = k
    BY <1>1, <1>2, <1>7, <1>8, <2>1
  <2>2. CASE m # k
    <3>1. call'[m] = call[m]
      BY <1>7, <2>2
    <3>2. QUEUES[call[m].api] = call[m].conn.queue /\ call[m].conn.queue \in Queues /\ call[m].api \in Apis
      BY <3>1, CallsTyped DEF Queueing, CallsFollow
    <3> QED
      BY <1>1, <3>1, <3>2, NoneAssumption
  <2> QED
    BY <2>1, <2>2
<1>12. Answered' /\ OwnAnswer'
  <2> SUFFICES ASSUME NEW m \in Calls, call'[m] # Free, call'[m].state = "answered"
               PROVE  call'[m] = call[m]
    BY DEF Answered, OwnAnswer, Free
  <2> QED
    BY <1>7, <1>8
<1>13. reqs \in [Queues -> Seq(Requests)] /\ msg(k) \in Requests
  BY <1>7 DEF TypeOK, Requests
<1> HIDE DEF msg
<1>14. /\ reqs' \in [Queues -> Seq(Requests)]
       /\ reqs'[conn.queue] = Append(reqs[conn.queue], msg(k))
       /\ \A p \in Queues \ {conn.queue} : reqs'[p] = reqs[p]
  BY <1>2, <1>4, <1>13, Appended
<1>15. QueuedCalls'
  <2> SUFFICES ASSUME NEW p \in Queues, NEW i \in DOMAIN reqs'[p], reqs'[p][i].call # None
               PROVE  Waiting(p, i)'
    BY DEF QueuedCalls
  <2>1. \A j \in DOMAIN reqs[p] : reqs[p][j].call # k
    BY <1>7, <1>13, NoneAssumption DEF QueuedCalls, Waiting
  <2>0. /\ reqs[p] \in Seq(Requests) /\ Len(reqs[p]) \in Nat /\ DOMAIN reqs[p] = 1 .. Len(reqs[p])
        /\ \A j \in DOMAIN reqs[p] : reqs[p][j] \in Requests /\ reqs[p][j].call \in Calls \cup {None}
    BY QueuedRequests
  <2>2. ASSUME NEW j \in DOMAIN reqs'[p]
        PROVE  IF reqs'[p][j].call = k THEN p = conn.queue /\ j = Len(reqs[p]) + 1
               ELSE j \in DOMAIN reqs[p] /\ reqs'[p][j] = reqs[p][j]
    <3>1. CASE p = conn.queue
      <4>1. /\ DOMAIN reqs'[p] = 1 .. Len(reqs[p]) + 1
            /\ \A l \in 1 .. Len(reqs[p]) : reqs'[p][l] = reqs[p][l]
            /\ reqs'[p][Len(reqs[p]) + 1] = msg(k)
        <5>1. reqs'[p] = Append(reqs[p], msg(k))
          BY <1>14, <3>1
        <5> QED
          BY <1>13, <2>0, <5>1, Appended
      <4>2. msg(k).call = k
        BY DEF msg
      <4>3. j \in 1 .. Len(reqs[p]) \/ j = Len(reqs[p]) + 1
        BY <2>0, <4>1
      <4> QED
        BY <2>0, <2>1, <3>1, <4>1, <4>2, <4>3
    <3>2. CASE p # conn.queue
      BY <1>14, <2>1, <3>2
    <3> QED
      BY <3>1, <3>2
  <2>3. CASE reqs'[p][i].call # k
    <3> DEFINE m == reqs[p][i].call
    <3>1. i \in DOMAIN reqs[p] /\ reqs'[p][i] = reqs[p][i] /\ m # None /\ m # k
      BY <2>2, <2>3
    <3>2. m \in Calls
      BY <2>0, <3>1
    <3>3. Waiting(p, i) /\ call'[m] = call[m]
      BY <1>7, <3>1, <3>2 DEF QueuedCalls
    <3> QED
      BY <2>2, <2>3, <3>1, <3>3 DEF Waiting
  <2>4. CASE reqs'[p][i].call = k
    <3>1. p = conn.queue
      BY <2>2, <2>4
    <3>2. \A j \in DOMAIN reqs'[p] : reqs'[p][j].call = k => j = i
      BY <2>2, <2>4
    <3> QED
      BY <1>7, <1>8, <2>4, <3>1, <3>2 DEF Waiting
  <2> QED
    BY <2>3, <2>4
<1> QED
  BY <1>3, <1>6, <1>7, <1>9, <1>10, <1>11, <1>12, <1>14, <1>15 DEF Queueing

-----------------------------------------------------------------------------
(* A call ends.                                                            *)

LEMMA Ended ==
  ASSUME TypeOK, NEW k \in Calls, call[k] # Free, call' = [call EXCEPT ![k] = Free]
  PROVE  /\ call' \in [Calls -> {Free} \cup CallsMade]
         /\ call'[k] = Free
         /\ \A m \in Calls \ {k} : call'[m] = call[m]
         /\ \A p \in Queues :
              Cardinality(UnderWay(p)') = Cardinality(UnderWay(p)) - (IF p = call[k].conn.queue THEN 1 ELSE 0)
<1>1. call \in [Calls -> {Free} \cup CallsMade]
  BY DEF TypeOK
<1>2. call'[k] = Free /\ \A m \in Calls \ {k} : call'[m] = call[m]
  BY <1>1
<1>3. ASSUME NEW p \in Queues
      PROVE  Cardinality(UnderWay(p)') = Cardinality(UnderWay(p)) - (IF p = call[k].conn.queue THEN 1 ELSE 0)
  <2>1. CASE p = call[k].conn.queue
    <3>1. UnderWay(p)' = UnderWay(p) \ {k} /\ k \in UnderWay(p)
      BY <1>2, <2>1 DEF UnderWay
    <3>2. Cardinality(UnderWay(p) \ {k}) = Cardinality(UnderWay(p)) - 1
      BY <3>1, UnderWayFinite, FS_RemoveElement
    <3> QED
      BY <2>1, <3>1, <3>2
  <2>2. CASE p # call[k].conn.queue
    <3>1. UnderWay(p)' = UnderWay(p)
      BY <1>2, <2>2 DEF UnderWay
    <3> QED
      BY <2>2, <3>1, UnderWayFinite
  <2> QED
    BY <2>1, <2>2
<1> QED
  BY <1>1, <1>2, <1>3

LEMMA Releases ==
  ASSUME TypeOK, Queueing, Answered, OwnAnswer,
         NEW k \in Calls, call[k] # Free, NEW hasErrors \in BOOLEAN, release(k, hasErrors)
  PROVE  /\ outstanding' \in [Queues -> Counts] /\ CONNS' \in [Apis -> {None} \cup Seq(Connectors)]
         /\ call' \in [Calls -> {Free} \cup CallsMade]
         /\ call'[k] = Free /\ \A m \in Calls \ {k} : call'[m] = call[m]
         /\ Queueing' /\ Answered' /\ OwnAnswer'
<1> DEFINE a == call[k].api
           conn == call[k].conn
<1>1. conn \in Connectors /\ conn.queue \in Queues /\ a \in Apis
  BY CallsTyped
<1>2. /\ call' \in [Calls -> {Free} \cup CallsMade] /\ call'[k] = Free
      /\ \A m \in Calls \ {k} : call'[m] = call[m]
      /\ \A p \in Queues : Cardinality(UnderWay(p)') = Cardinality(UnderWay(p)) - (IF p = conn.queue THEN 1 ELSE 0)
  BY Ended DEF release
<1>3. outstanding \in [Queues -> Counts] /\ CONNS \in [Apis -> {None} \cup Seq(Connectors)]
  BY DEF TypeOK, Counts
<1>4. outstanding' = incr_outstanding(outstanding, conn.queue, -1)
  BY DEF release
<1>5. /\ outstanding' \in [Queues -> Counts]
      /\ outstanding'[conn.queue].num = outstanding[conn.queue].num + (-1)
      /\ outstanding'[conn.queue].lost = outstanding[conn.queue].lost
      /\ \A p \in Queues \ {conn.queue} : outstanding'[p] = outstanding[p]
  BY <1>1, <1>3, <1>4, Incremented
<1>6. QUEUES' = QUEUES /\ QUEUE_CACHE' = QUEUE_CACHE
  BY DEF release
<1>7. QueueExclusive'
  BY <1>6 DEF Queueing, QueueExclusive
<1>8. OutstandingCounted'
  <2> SUFFICES ASSUME NEW p \in Queues, p \in QUEUE_CACHE \/ \E b \in Apis : QUEUES[b] = p
               PROVE  outstanding'[p].num = Cardinality(UnderWay(p)') - outstanding'[p].lost
    BY <1>6 DEF OutstandingCounted
  <2>1. outstanding[p].num = Cardinality(UnderWay(p)) - outstanding[p].lost
    BY DEF Queueing, OutstandingCounted
  <2>2. Cardinality(UnderWay(p)) \in Nat /\ outstanding[p].num \in Int /\ outstanding[p].lost \in Nat
    BY <1>3, UnderWayFinite DEF Counts
  <2>3. CASE p = conn.queue
    BY <1>2, <1>5, <2>1, <2>2, <2>3
  <2>4. CASE p # conn.queue
    BY <1>2, <1>5, <2>1, <2>2, <2>4
  <2> QED
    BY <2>3, <2>4
<1>9. CONNS' \in [Apis -> {None} \cup Seq(Connectors)] /\ PoolFollowsQueue'
  <2>1. CASE CONNS' = CONNS
    BY <1>3, <1>6, <2>1 DEF Queueing, PoolFollowsQueue
  <2>2. CASE CONNS[a] # None /\ CONNS' = [CONNS EXCEPT ![a] = Append(CONNS[a], conn)]
    <3> DEFINE pool == CONNS[a]
    <3>1. pool \in Seq(Connectors)
      BY <1>1, <1>3, <2>2
    <3>2. /\ Append(pool, conn) \in Seq(Connectors)
          /\ DOMAIN pool = 1 .. Len(pool) /\ Len(pool) \in Nat /\ DOMAIN Append(pool, conn) = 1 .. Len(pool) + 1
          /\ \A i \in 1 .. Len(pool) : Append(pool, conn)[i] = pool[i]
          /\ Append(pool, conn)[Len(pool) + 1] = conn
      BY <1>1, <3>1, Appended
    <3>3. QUEUES[a] # None /\ \A i \in DOMAIN pool : pool[i].stale \/ pool[i].queue = QUEUES[a]
      BY <1>1, <2>2 DEF Queueing, PoolFollowsQueue
    <3>4. conn.stale \/ conn.queue = QUEUES[a]
      BY DEF Queueing, CallsFollow
    <3>5. \A i \in DOMAIN Append(pool, conn) : i \in 1 .. Len(pool) \/ i = Len(pool) + 1
      BY <3>2
    <3>6. \A i \in DOMAIN Append(pool, conn) :
            Append(pool, conn)[i].stale \/ Append(pool, conn)[i].queue = QUEUES[a]
      BY <3>2, <3>3, <3>4, <3>5
    <3> DEFINE more == Append(pool, conn)
    <3>7. CONNS' = [CONNS EXCEPT ![a] = more]
      BY <2>2
    <3> HIDE DEF more
    <3>8. CONNS' \in [Apis -> {None} \cup Seq(Connectors)]
      BY <1>1, <1>3, <3>2, <3>7 DEF more
    <3>9. CONNS'[a] = more /\ \A b \in Apis \ {a} : CONNS'[b] = CONNS[b]
      BY <1>1, <1>3, <3>7
    <3>10. PoolFollowsQueue'
      <4> SUFFICES ASSUME NEW b \in Apis, CONNS'[b] # None
                   PROVE  QUEUES[b] # None /\ \A i \in DOMAIN CONNS'[b] : CONNS'[b][i].stale \/ CONNS'[b][i].queue = QUEUES[b]
        BY <1>6 DEF PoolFollowsQueue
      <4>1. CASE b = a
        BY <3>3, <3>6, <3>9, <4>1 DEF more
      <4>2. CASE b # a
        BY <3>9, <4>2 DEF Queueing, PoolFollowsQueue
      <4> QED
        BY <4>1, <4>2
    <3> QED
      BY <3>8, <3>10
  <2> QED
    BY <2>1, <2>2 DEF release
<1>10. CallsFollow'
  BY <1>2, <1>6 DEF Queueing, CallsFollow
<1>11. Answered' /\ OwnAnswer'
  <2> SUFFICES ASSUME NEW m \in Calls, call'[m] # Free
               PROVE  call'[m] = call[m]
    BY DEF Answered, OwnAnswer, Free
  <2> QED
    BY <1>2
<1> QED
  BY <1>2, <1>5, <1>7, <1>8, <1>9, <1>10, <1>11 DEF Queueing

-----------------------------------------------------------------------------
(* Containers come and go.                                                 *)

\* No container starts, and none changes its API or its queue.
NoneStarts ==
  \A c \in Existing' :
    /\ c \in Existing /\ docker'[c].api = docker[c].api /\ docker'[c].queue = docker[c].queue
    /\ docker'[c].state = "running" => docker[c].state = "running"

LEMMA RunningFinite ==
  ASSUME NEW a
  PROVE  Running(a) \subseteq Containers /\ IsFiniteSet(Running(a)) /\ Cardinality(Running(a)) \in Nat
BY FiniteAssumption, FS_Subset, FS_CardinalityType DEF Running, Existing

LEMMA Fewer ==
  ASSUME NoneStarts
  PROVE  /\ \A a \in Apis : Running(a)' \subseteq Running(a)
         /\ CapacityBound => CapacityBound'
<1>1. ASSUME NEW a \in Apis
      PROVE  Running(a)' \subseteq Running(a)
  BY DEF NoneStarts, Running
<1>2. ASSUME NEW a \in Apis, Cardinality(Running(a)) <= MAX_PER_API_CONTAINERS
      PROVE  Cardinality(Running(a)') <= MAX_PER_API_CONTAINERS
  <2>1. /\ IsFiniteSet(Running(a)') /\ Cardinality(Running(a)') \in Nat /\ Cardinality(Running(a)) \in Nat
        /\ Cardinality(Running(a)') <= Cardinality(Running(a))
    BY <1>1, RunningFinite, FS_Subset, FS_CardinalityType
  <2> QED
    BY <1>2, <2>1, LimitsAssumption
<1> QED
  BY <1>1, <1>2 DEF CapacityBound

LEMMA Creates ==
  ASSUME TypeOK, ListensToOwnQueue, Wanted, NEW a \in Apis, NEW q \in Queues, create_new(a, q),
         QUEUES[a] \in {q, None}, QUEUES'[a] = q, \A b \in Apis \ {a} : QUEUES'[b] = QUEUES[b]
  PROVE  /\ docker' \in [Containers -> {NoContainer} \cup Launched]
         /\ API_CONTAINERS' \in [Apis -> {None} \cup SUBSET Containers]
         /\ DESIRED' \in [Apis -> {None} \cup 0 .. MAX_PER_API_CONTAINERS]
         /\ ListensToOwnQueue' /\ Wanted'
         /\ \A b \in Apis \ {a} : /\ Running(b)' = Running(b)
                                  /\ API_CONTAINERS'[b] = API_CONTAINERS[b] /\ DESIRED'[b] = DESIRED[b]
         /\ API_CONTAINERS'[a] # None /\ DESIRED'[a] # None
         /\ \E c \in Containers :
              /\ c \notin Running(a) /\ Running(a)' = Running(a) \cup {c}
              /\ API_CONTAINERS[a] # None =>
                   c \notin API_CONTAINERS[a] /\ API_CONTAINERS'[a] = API_CONTAINERS[a] \cup {c}
<1>1. PICK c \in NewContainers :
        /\ docker' = [docker EXCEPT ![c] = [state |-> "running", api |-> a, queue |-> q]]
        /\ API_CONTAINERS' = [API_CONTAINERS EXCEPT ![a] = (IF @ = None THEN {} ELSE @) \cup {c}]
        /\ DESIRED' = [DESIRED EXCEPT ![a] = IF @ = None THEN 1 ELSE @]
  BY DEF create_new
<1> DEFINE new  == [state |-> "running", api |-> a, queue |-> q]
           list == (IF API_CONTAINERS[a] = None THEN {} ELSE API_CONTAINERS[a]) \cup {c}
           want == IF DESIRED[a] = None THEN 1 ELSE DESIRED[a]
<1>2. /\ docker \in [Containers -> {NoContainer} \cup Launched]
      /\ API_CONTAINERS \in [Apis -> {None} \cup SUBSET Containers]
      /\ DESIRED \in [Apis -> {None} \cup 0 .. MAX_PER_API_CONTAINERS]
  BY DEF TypeOK
<1>3. /\ c \in Containers /\ c \notin Existing
      /\ \A b \in Apis : API_CONTAINERS[b] = None \/ c \notin API_CONTAINERS[b]
  BY DEF NewContainers
<1>4. new \in Launched /\ new.state = "running" /\ new.api = a /\ new.queue = q
  BY DEF Launched
<1>5. list \in SUBSET Containers /\ c \in list /\ list # None
  BY <1>2, <1>3, NoneAssumption
<1>6. want \in 0 .. MAX_PER_API_CONTAINERS /\ want # None
  BY <1>2, LimitsAssumption, NoneAssumption
<1>7. docker' = [docker EXCEPT ![c] = new] /\ API_CONTAINERS' = [API_CONTAINERS EXCEPT ![a] = list]
      /\ DESIRED' = [DESIRED EXCEPT ![a] = want]
  BY <1>1
<1>8. /\ API_CONTAINERS[a] # None => list = API_CONTAINERS[a] \cup {c}
      /\ DESIRED[a] # None => want = DESIRED[a]
  OBVIOUS
<1>9. \A d \in Running(a) : API_CONTAINERS[a] # None /\ d \in API_CONTAINERS[a] /\ d \in list
  BY DEF ListensToOwnQueue
<1> HIDE DEF new, list, want
<1>10. /\ docker' \in [Containers -> {NoContainer} \cup Launched]
       /\ docker'[c] = new /\ \A d \in Containers \ {c} : docker'[d] = docker[d]
  BY <1>2, <1>3, <1>4, <1>7
<1>11. /\ API_CONTAINERS' \in [Apis -> {None} \cup SUBSET Containers]
       /\ API_CONTAINERS'[a] = list /\ \A b \in Apis \ {a} : API_CONTAINERS'[b] = API_CONTAINERS[b]
  BY <1>2, <1>5, <1>7
<1>12. /\ DESIRED' \in [Apis -> {None} \cup 0 .. MAX_PER_API_CONTAINERS]
       /\ DESIRED'[a] = want /\ \A b \in Apis \ {a} : DESIRED'[b] = DESIRED[b]
  BY <1>2, <1>6, <1>7
<1>13. Existing' = Existing \cup {c}
  BY <1>3, <1>4, <1>10 DEF Existing
<1>14. Running(a)' = Running(a) \cup {c} /\ \A b \in Apis \ {a} : Running(b)' = Running(b)
  BY <1>3, <1>4, <1>10, <1>13 DEF Running, Existing
<1>15. c \notin Running(a)
  BY <1>3 DEF Running
<1>16. Wanted'
  <2> SUFFICES ASSUME NEW d \in Existing'
               PROVE  DESIRED'[docker'[d].api] # None
    BY DEF Wanted
  <2>1. CASE d = c
    BY <1>4, <1>6, <1>10, <1>12, <2>1
  <2>2. CASE d # c
    <3>1. d \in Existing /\ docker'[d] = docker[d] /\ docker[d].api \in Apis
      BY <1>10, <1>13, <2>2, DockerTyped
    <3> QED
      BY <1>6, <1>12, <3>1 DEF Wanted
  <2> QED
    BY <2>1, <2>2
<1>17. ListensToOwnQueue'
  <2> SUFFICES ASSUME NEW b \in Apis, NEW d \in Running(b)'
               PROVE  /\ API_CONTAINERS'[b] # None /\ d \in API_CONTAINERS'[b]
                      /\ docker'[d].queue \in {QUEUES'[b], None}
    BY DEF ListensToOwnQueue
  <2>1. CASE d = c
    BY <1>4, <1>5, <1>10, <1>11, <1>14, <1>15, <2>1, <1>3 DEF Running
  <2>2. CASE d # c
    <3>1. d \in Running(b) /\ docker'[d] = docker[d]
      BY <1>10, <1>14, <2>2, RunningFinite
    <3>2. docker[d].queue \in {QUEUES[b], None} /\ API_CONTAINERS[b] # None /\ d \in API_CONTAINERS[b]
      BY <3>1 DEF ListensToOwnQueue
    <3> QED
      BY <1>5, <1>9, <1>11, <3>1, <3>2
  <2> QED
    BY <2>1, <2>2
<1> QED
  BY <1>3, <1>5, <1>6, <1>8, <1>10, <1>11, <1>12, <1>14, <1>15, <1>16, <1>17

-----------------------------------------------------------------------------
(* The steps of the server.                                                *)

LEMMA NoRounds ==
  ASSUME \A b \in Apis : ndiff'[b] = 0
  PROVE  Rounds'
BY DEF Rounds

LEMMA Post ==
  ASSUME IInv, NEW a \in Apis, post(a)
  PROVE  IInv'
<1>1. PICK q \in Queues :
        /\ get_queue(a, q)
        /\ ensure_container_available(a, q)
        /\ overload(a, q) \/ conn_send_recv(a, "serve", q)
  BY DEF post
<1>2. ndiff' = ndiff /\ ndiff \in [Apis -> Int] /\ \A b \in Apis : ndiff[b] = 0
  BY DEF post, Idle, IInv, TypeOK
<1>3. /\ QUEUES' \in [Apis -> Queues \cup {None}] /\ (QUEUE_CACHE \subseteq Queues)'
      /\ QUEUES[a] \in {q, None} /\ QUEUES'[a] = q
      /\ \A b \in Apis \ {a} : QUEUES'[b] = QUEUES[b]
  BY <1>1, QueueTaken DEF IInv, Queueing
<1>4. /\ outstanding' \in [Queues -> Counts] /\ CONNS' \in [Apis -> {None} \cup Seq(Connectors)]
      /\ call' \in [Calls -> {Free} \cup CallsMade] /\ reqs' \in [Queues -> Seq(Requests)]
      /\ Queueing' /\ QueuedCalls' /\ Answered' /\ OwnAnswer'
  <2>1. CASE overload(a, q)
    <3>1. call' = call /\ reqs' = reqs
      BY <2>1 DEF overload
    <3>2. QueuedCalls' /\ Answered' /\ OwnAnswer'
      BY <3>1 DEF IInv, QueuedCalls, Waiting, Answered, OwnAnswer
    <3>3. call' \in [Calls -> {Free} \cup CallsMade] /\ reqs' \in [Queues -> Seq(Requests)]
      BY <3>1 DEF IInv, TypeOK
    <3> QED
      BY <1>1, <2>1, <3>2, <3>3, Overloads DEF IInv
  <2>2. CASE conn_send_recv(a, "serve", q)
    <3>1. "serve" \in Commands
      BY DEF Commands
    <3> QED
      BY <1>1, <2>2, <3>1, Sends DEF IInv
  <2> QED
    BY <1>1, <2>1, <2>2
<1>5. /\ docker' \in [Containers -> {NoContainer} \cup Launched]
      /\ API_CONTAINERS' \in [Apis -> {None} \cup SUBSET Containers]
      /\ DESIRED' \in [Apis -> {None} \cup 0 .. MAX_PER_API_CONTAINERS]
      /\ ListensToOwnQueue' /\ Wanted' /\ CapacityBound'
  <2>1. CASE ContainerListed(a)
    <3>1. lists' = lists /\ docker' = docker
      BY <1>1, <2>1 DEF ensure_container_available
    <3>2. Existing' = Existing /\ \A b \in Apis : Running(b)' = Running(b)
      BY <3>1 DEF Existing, Running
    <3>3. ListensToOwnQueue'
      BY <1>3, <3>1, <3>2 DEF IInv, Containing, ListensToOwnQueue, lists
    <3>4. Wanted' /\ CapacityBound'
      BY <3>1, <3>2 DEF IInv, Containing, Wanted, CapacityBound, lists
    <3> QED
      BY <3>1, <3>3, <3>4 DEF IInv, TypeOK, lists
  <2>2. CASE ~ContainerListed(a)
    <3>1. create_new(a, q)
      BY <1>1, <2>2 DEF ensure_container_available
    <3>2. /\ docker' \in [Containers -> {NoContainer} \cup Launched]
          /\ API_CONTAINERS' \in [Apis -> {None} \cup SUBSET Containers]
          /\ DESIRED' \in [Apis -> {None} \cup 0 .. MAX_PER_API_CONTAINERS]
          /\ ListensToOwnQueue' /\ Wanted'
          /\ \A b \in Apis \ {a} : Running(b)' = Running(b)
          /\ \E c \in Containers : Running(a)' = Running(a) \cup {c}
      BY <1>3, <3>1, Creates DEF IInv, Containing
    <3>3. Running(a) = {}
      <4> SUFFICES ASSUME NEW c \in Running(a)
                   PROVE  FALSE
        OBVIOUS
      <4> DEFINE L == API_CONTAINERS[a]
      <4>1. L # None /\ c \in L /\ c \in Existing /\ Running(a) \subseteq L
        BY DEF IInv, Containing, ListensToOwnQueue, Running
      <4>2. L \in SUBSET Containers /\ IsFiniteSet(L) /\ Cardinality(L) \in Nat
        BY <4>1, FiniteAssumption, FS_Subset, FS_CardinalityType DEF IInv, TypeOK
      <4>3. ~(Cardinality(L) > 1) /\ ~(L \subseteq Existing)
        BY <2>2, <4>1 DEF ContainerListed
      <4>4. PICK d \in L : d \notin Existing
        BY <4>3
      <4>5. {c, d} \subseteq L /\ c # d
        BY <4>1, <4>4
      <4>6. IsFiniteSet({c}) /\ Cardinality({c}) = 1
        BY FS_Singleton
      <4>7. Cardinality({c} \cup {d}) = 2
        <5>1. d \notin {c}
          BY <4>5
        <5>2. Cardinality({c} \cup {d}) = Cardinality({c}) + 1
          BY <4>6, <5>1, FS_AddElement
        <5> QED
          BY <4>6, <5>2
      <4>8. Cardinality({c} \cup {d}) <= Cardinality(L)
        BY <4>2, <4>5, FS_Subset
      <4> QED
        BY <4>2, <4>3, <4>7, <4>8
    <3>4. PICK c \in Containers : Running(a)' = {c}
      BY <3>2, <3>3
    <3>5. Cardinality(Running(a)') = 1
      BY <3>4, FS_Singleton
    <3>6. CapacityBound'
      <4>1. \A b \in Apis : Cardinality(Running(b)) <= MAX_PER_API_CONTAINERS
        BY DEF IInv, Containing, CapacityBound
      <4>2. \A b \in Apis \ {a} : Cardinality(Running(b)') <= MAX_PER_API_CONTAINERS
        BY <3>2, <4>1
      <4>3. Cardinality(Running(a)') <= MAX_PER_API_CONTAINERS
        BY <3>5, LimitsAssumption
      <4> QED
        BY <4>2, <4>3 DEF CapacityBound
    <3> QED
      BY <3>2, <3>6
  <2> QED
    BY <2>1, <2>2
<1>6. Rounds'
  BY <1>2, NoRounds
<1>7. TypeOK'
  BY <1>2, <1>3, <1>4, <1>5 DEF TypeOK, Counts
<1> QED
  BY <1>4, <1>5, <1>6, <1>7 DEF IInv, Containing

LEMMA TerminateOne ==
  ASSUME IInv, NEW a \in Apis, terminate_one(a)
  PROVE  IInv'
<1> DEFINE q == QUEUES[a]
<1>1. QUEUES' = QUEUES /\ QUEUE_CACHE' = QUEUE_CACHE /\ lists' = lists /\ docker' = docker
  BY DEF terminate_one
<1>2. /\ QUEUES \in [Apis -> Queues \cup {None}] /\ QUEUE_CACHE \subseteq Queues
      /\ ndiff \in [Apis -> Int] /\ ndiff[a] > 0
  BY DEF terminate_one, IInv, TypeOK
<1>3. q # None /\ q \in Queues
  BY <1>2 DEF IInv, Containing, Rounds
<1>4. get_queue(a, q)
  BY <1>1, <1>2, <1>3 DEF get_queue, IInv, Queueing, QueueExclusive
<1>5. /\ outstanding' \in [Queues -> Counts] /\ CONNS' \in [Apis -> {None} \cup Seq(Connectors)]
      /\ call' \in [Calls -> {Free} \cup CallsMade] /\ reqs' \in [Queues -> Seq(Requests)]
      /\ Queueing' /\ QueuedCalls' /\ Answered' /\ OwnAnswer'
  <2>1. CASE /\ call' = call /\ reqs' = reqs
             /\ overload(a, q) \/ (outstanding' = outstanding /\ CONNS' = CONNS)
    <3>1. QueuedCalls' /\ Answered' /\ OwnAnswer'
      BY <2>1 DEF IInv, QueuedCalls, Waiting, Answered, OwnAnswer
    <3>2. call' \in [Calls -> {Free} \cup CallsMade] /\ reqs' \in [Queues -> Seq(Requests)]
      BY <2>1 DEF IInv, TypeOK
    <3>3. CASE overload(a, q)
      BY <1>3, <1>4, <3>1, <3>2, <3>3, Overloads DEF IInv
    <3>4. CASE outstanding' = outstanding /\ CONNS' = CONNS
      <4>1. outstanding' \in [Queues -> Counts] /\ CONNS' \in [Apis -> {None} \cup Seq(Connectors)]
        BY <3>4 DEF IInv, TypeOK, Counts
      <4>2. QueueExclusive' /\ PoolFollowsQueue' /\ CallsFollow'
        BY <1>1, <2>1, <3>4 DEF IInv, Queueing, QueueExclusive, PoolFollowsQueue, CallsFollow
      <4>3. OutstandingCounted'
        BY <1>1, <2>1, <3>4 DEF IInv, Queueing, OutstandingCounted, UnderWay
      <4> QED
        BY <3>1, <3>2, <4>1, <4>2, <4>3 DEF Queueing
    <3> QED
      BY <2>1, <3>3, <3>4
  <2>2. CASE conn_send_recv(a, Terminate, q)
    <3>1. Terminate \in Commands
      BY DEF Commands
    <3> QED
      BY <1>3, <1>4, <2>2, <3>1, Sends DEF IInv
  <2>3. overload(a, q) => call' = call /\ reqs' = reqs
    BY DEF overload
  <2>4. \/ overload(a, q) \/ conn_send_recv(a, Terminate, q)
        \/ outstanding' = outstanding /\ CONNS' = CONNS /\ call' = call /\ reqs' = reqs
    BY DEF terminate_one
  <2> QED
    BY <2>1, <2>2, <2>3, <2>4
<1>6. Existing' = Existing /\ \A b \in Apis : Running(b)' = Running(b)
  BY <1>1 DEF Existing, Running
<1>7. ListensToOwnQueue' /\ Wanted' /\ CapacityBound'
  BY <1>1, <1>6 DEF IInv, Containing, ListensToOwnQueue, Wanted, CapacityBound, lists
<1>8. ndiff' \in [Apis -> Int] /\ \A b \in Apis : ndiff'[b] = 0 \/ ndiff'[b] = ndiff[b] \/ (ndiff[b] # 0 /\ ndiff'[b] >= 0)
  <2>1. CASE ndiff' = [b \in Apis |-> 0]
    BY <2>1
  <2>2. CASE ndiff' = [ndiff EXCEPT ![a] = @ - 1]
    BY <1>2, <2>2
  <2> QED
    BY <2>1, <2>2 DEF terminate_one
<1>9. Rounds'
  BY <1>1, <1>2, <1>8 DEF IInv, Containing, Rounds, lists
<1>10. TypeOK'
  BY <1>1, <1>2, <1>5, <1>8 DEF IInv, TypeOK, Counts, lists
<1> QED
  BY <1>5, <1>7, <1>9, <1>10 DEF IInv, Containing

LEMMA LaunchOne ==
  ASSUME IInv, NEW a \in Apis, launch_one(a)
  PROVE  IInv'
<1> DEFINE q == QUEUES[a]
<1>1. /\ queueVars' = queueVars /\ CONNS' = CONNS /\ call' = call /\ reqs' = reqs
      /\ QUEUES' = QUEUES
  BY DEF launch_one, queueVars
<1>2. QUEUES \in [Apis -> Queues \cup {None}] /\ ndiff \in [Apis -> Int] /\ ndiff[a] < 0
  BY DEF launch_one, IInv, TypeOK
<1>3. /\ q # None /\ q \in Queues /\ DESIRED[a] # None /\ API_CONTAINERS[a] # None
      /\ Cardinality(API_CONTAINERS[a]) - ndiff[a] <= MAX_PER_API_CONTAINERS
  BY <1>2 DEF IInv, Containing, Rounds
<1>4. Queueing' /\ QueuedCalls' /\ Answered' /\ OwnAnswer'
  <2>1. QueueExclusive' /\ PoolFollowsQueue' /\ CallsFollow'
    BY <1>1 DEF IInv, Queueing, QueueExclusive, PoolFollowsQueue, CallsFollow, queueVars
  <2>2. OutstandingCounted'
    BY <1>1 DEF IInv, Queueing, OutstandingCounted, UnderWay, queueVars
  <2>3. QueuedCalls' /\ Answered' /\ OwnAnswer'
    BY <1>1 DEF IInv, QueuedCalls, Waiting, Answered, OwnAnswer
  <2> QED
    BY <2>1, <2>2, <2>3 DEF Queueing
<1>5. CASE create_new(a, q) /\ ndiff' = [ndiff EXCEPT ![a] = @ + 1]
  <2>1. /\ docker' \in [Containers -> {NoContainer} \cup Launched]
        /\ API_CONTAINERS' \in [Apis -> {None} \cup SUBSET Containers]
        /\ DESIRED' \in [Apis -> {None} \cup 0 .. MAX_PER_API_CONTAINERS]
        /\ ListensToOwnQueue' /\ Wanted'
        /\ \A b \in Apis \ {a} : /\ Running(b)' = Running(b)
                                 /\ API_CONTAINERS'[b] = API_CONTAINERS[b] /\ DESIRED'[b] = DESIRED[b]
        /\ API_CONTAINERS'[a] # None /\ DESIRED'[a] # None
        /\ \E c \in Containers :
             API_CONTAINERS[a] # None => c \notin API_CONTAINERS[a] /\ API_CONTAINERS'[a] = API_CONTAINERS[a] \cup {c}
    BY <1>1, <1>3, <1>5, Creates DEF IInv, Containing
  <2>2. PICK c \in Containers : c \notin API_CONTAINERS[a] /\ API_CONTAINERS'[a] = API_CONTAINERS[a] \cup {c}
    BY <1>3, <2>1
  <2> DEFINE L == API_CONTAINERS[a]
             more == API_CONTAINERS'[a]
  <2>3. L \in SUBSET Containers /\ IsFiniteSet(L) /\ Cardinality(L) \in Nat
    BY <1>3, FiniteAssumption, FS_Subset, FS_CardinalityType DEF IInv, TypeOK
  <2>4. Cardinality(more) = Cardinality(L) + 1 /\ IsFiniteSet(more)
    BY <2>2, <2>3, FS_AddElement
  <2>5. ndiff' \in [Apis -> Int] /\ ndiff'[a] = ndiff[a] + 1 /\ \A b \in Apis \ {a} : ndiff'[b] = ndiff[b]
    BY <1>2, <1>5
  <2>6. Cardinality(more) - ndiff'[a] <= MAX_PER_API_CONTAINERS /\ Cardinality(more) <= MAX_PER_API_CONTAINERS
    BY <1>2, <1>3, <2>3, <2>4, <2>5, LimitsAssumption
  <2>7. Rounds'
    <3> SUFFICES ASSUME NEW b \in Apis, ndiff'[b] # 0
                 PROVE  /\ QUEUES[b] # None /\ DESIRED'[b] # None /\ API_CONTAINERS'[b] # None
                        /\ ndiff'[b] < 0 => Cardinality(API_CONTAINERS'[b]) - ndiff'[b] <= MAX_PER_API_CONTAINERS
      BY <1>1 DEF Rounds
    <3>1. CASE b = a
      BY <1>3, <2>1, <2>6, <3>1
    <3>2. CASE b # a
      BY <2>1, <2>5, <3>2 DEF IInv, Containing, Rounds
    <3> QED
      BY <3>1, <3>2
  <2>8. CapacityBound'
    <3>1. Running(a)' \subseteq more
      BY <2>1 DEF ListensToOwnQueue
    <3>2. Cardinality(Running(a)') <= Cardinality(more) /\ Cardinality(Running(a)') \in Nat
      BY <2>4, <3>1, FS_Subset, FS_CardinalityType
    <3>3. Cardinality(Running(a)') <= MAX_PER_API_CONTAINERS
      BY <2>3, <2>4, <2>6, <3>2, LimitsAssumption
    <3> QED
      BY <2>1, <3>3 DEF IInv, Containing, CapacityBound
  <2>9. TypeOK'
    BY <1>1, <2>1, <2>5 DEF IInv, TypeOK, queueVars
  <2> QED
    BY <1>4, <2>1, <2>7, <2>8, <2>9 DEF IInv, Containing
<1>6. CASE lists' = lists /\ docker' = docker /\ ndiff' = [b \in Apis |-> 0]
  <2>1. Existing' = Existing /\ \A b \in Apis : Running(b)' = Running(b)
    BY <1>6 DEF Existing, Running
  <2>2. ListensToOwnQueue' /\ Wanted' /\ CapacityBound'
    BY <1>1, <1>6, <2>1 DEF IInv, Containing, ListensToOwnQueue, Wanted, CapacityBound, lists
  <2>3. Rounds'
    BY <1>6, NoRounds
  <2>4. TypeOK'
    BY <1>1, <1>6 DEF IInv, TypeOK, queueVars, lists
  <2> QED
    BY <1>4, <2>2, <2>3, <2>4 DEF IInv, Containing
<1> QED
  BY <1>5, <1>6 DEF launch_one

LEMMA OnRecv ==
  ASSUME IInv, NEW k \in Calls, on_recv(k)
  PROVE  IInv'
<1> DEFINE c == call[k].by
<1>1. /\ \A b \in Apis : ndiff[b] = 0
      /\ call[k].state = "answered" /\ release(k, FALSE)
      /\ DESIRED' = DESIRED /\ ndiff' = ndiff /\ reqs' = reqs
  BY DEF on_recv, Idle
<1>2. call[k] # Free
  BY <1>1 DEF Free
<1>3. c \in Containers /\ call[k].of \in Apis
  BY <1>1, <1>2 DEF IInv, Answered
<1>4. /\ outstanding' \in [Queues -> Counts] /\ CONNS' \in [Apis -> {None} \cup Seq(Connectors)]
      /\ call' \in [Calls -> {Free} \cup CallsMade]
      /\ \A m \in Calls \ {k} : call'[m] = call[m]
      /\ Queueing' /\ Answered' /\ OwnAnswer'
  BY <1>1, <1>2, Releases DEF IInv
<1>5. QUEUES' = QUEUES /\ QUEUE_CACHE' = QUEUE_CACHE
  BY <1>1 DEF release
<1>6. QueuedCalls'
  <2> SUFFICES ASSUME NEW q \in Queues, NEW i \in DOMAIN reqs[q], reqs[q][i].call # None
               PROVE  Waiting(q, i)'
    BY <1>1 DEF QueuedCalls
  <2>1. Waiting(q, i)
    BY DEF IInv, QueuedCalls
  <2>2. reqs[q][i].call \in Calls
    BY QueuedRequests DEF IInv
  <2>3. reqs[q][i].call # k
    BY <1>1, <2>1 DEF Waiting
  <2> QED
    BY <1>1, <1>4, <2>1, <2>2, <2>3 DEF Waiting
<1>7. Rounds'
  BY <1>1, NoRounds
<1>8. CASE call[k].cmd = Terminate /\ c \in Existing
  <2>1. docker' = [docker EXCEPT ![c] = NoContainer] /\ deregister_api_container(call[k].of, c)
    BY <1>8 DEF on_recv
  <2> DEFINE a == call[k].of
             list == IF API_CONTAINERS[a] = None THEN {} ELSE API_CONTAINERS[a] \ {c}
  <2>2. API_CONTAINERS \in [Apis -> {None} \cup SUBSET Containers] /\ docker \in [Containers -> {NoContainer} \cup Launched]
    BY DEF IInv, TypeOK
  <2>3. list \in SUBSET Containers /\ list # None /\ \A d \in Running(a) \ {c} : d \in list
    BY <1>3, <2>2, NoneAssumption DEF IInv, Containing, ListensToOwnQueue
  <2>4. API_CONTAINERS' = [API_CONTAINERS EXCEPT ![a] = list]
    BY <2>1 DEF deregister_api_container
  <2> HIDE DEF list
  <2>5. /\ API_CONTAINERS' \in [Apis -> {None} \cup SUBSET Containers]
        /\ API_CONTAINERS'[a] = list /\ \A b \in Apis \ {a} : API_CONTAINERS'[b] = API_CONTAINERS[b]
    BY <1>3, <2>2, <2>3, <2>4
  <2>6. /\ docker' \in [Containers -> {NoContainer} \cup Launched]
        /\ docker'[c] = NoContainer /\ \A d \in Containers \ {c} : docker'[d] = docker[d]
    BY <1>3, <2>1, <2>2
  <2>7. Existing' = Existing \ {c} /\ \A d \in Existing' : docker'[d] = docker[d]
    BY <2>6 DEF Existing, NoContainer
  <2>8. NoneStarts
    BY <2>7 DEF NoneStarts
  <2>9. Wanted'
    BY <1>1, <2>7 DEF IInv, Containing, Wanted
  <2>10. ListensToOwnQueue'
    <3> SUFFICES ASSUME NEW b \in Apis, NEW d \in Running(b)'
                 PROVE  /\ API_CONTAINERS'[b] # None /\ d \in API_CONTAINERS'[b]
                        /\ docker'[d].queue \in {QUEUES[b], None}
      BY <1>5 DEF ListensToOwnQueue
    <3>1. d \in Running(b) \ {c} /\ docker'[d] = docker[d]
      BY <2>7 DEF Running
    <3>2. docker[d].queue \in {QUEUES[b], None} /\ API_CONTAINERS[b] # None /\ d \in API_CONTAINERS[b]
      BY <3>1 DEF IInv, Containing, ListensToOwnQueue
    <3> QED
      BY <2>3, <2>5, <3>1, <3>2
  <2>11. CapacityBound'
    BY <2>8, Fewer DEF IInv, Containing
  <2>12. TypeOK'
    BY <1>1, <1>4, <1>5, <2>5, <2>6 DEF IInv, TypeOK, Counts
  <2> QED
    BY <1>4, <1>6, <1>7, <2>9, <2>10, <2>11, <2>12 DEF IInv, Containing
<1>9. CASE docker' = docker /\ API_CONTAINERS' = API_CONTAINERS
  <2>1. Existing' = Existing /\ \A b \in Apis : Running(b)' = Running(b)
    BY <1>9 DEF Existing, Running
  <2>2. ListensToOwnQueue' /\ Wanted' /\ CapacityBound'
    BY <1>1, <1>5, <1>9, <2>1 DEF IInv, Containing, ListensToOwnQueue, Wanted, CapacityBound
  <2>3. TypeOK'
    BY <1>1, <1>4, <1>5, <1>9 DEF IInv, TypeOK, Counts
  <2> QED
    BY <1>4, <1>6, <1>7, <2>2, <2>3 DEF IInv, Containing
<1> QED
  BY <1>8, <1>9 DEF on_recv

LEMMA OnTimeout ==
  ASSUME IInv, NEW k \in Calls, on_timeout(k)
  PROVE  IInv'
<1> DEFINE dropped(q, i) == IF reqs[q][i].call = k THEN [reqs[q][i] EXCEPT !.call = None] ELSE reqs[q][i]
           queue(q) == [i \in DOMAIN reqs[q] |-> dropped(q, i)]
<1>1. /\ \A b \in Apis : ndiff[b] = 0
      /\ call[k] # Free /\ release(k, TRUE)
      /\ lists' = lists /\ ndiff' = ndiff /\ docker' = docker
      /\ reqs' = [q \in Queues |-> queue(q)]
  BY DEF on_timeout, Idle
<1>2. /\ outstanding' \in [Queues -> Counts] /\ CONNS' \in [Apis -> {None} \cup Seq(Connectors)]
      /\ call' \in [Calls -> {Free} \cup CallsMade]
      /\ \A m \in Calls \ {k} : call'[m] = call[m]
      /\ Queueing' /\ Answered' /\ OwnAnswer'
  BY <1>1, Releases DEF IInv
<1>3. QUEUES' = QUEUES /\ QUEUE_CACHE' = QUEUE_CACHE
  BY <1>1 DEF release
<1>4. ASSUME NEW q \in Queues, NEW i \in DOMAIN reqs[q]
      PROVE  /\ dropped(q, i) \in Requests
             /\ dropped(q, i).call = IF reqs[q][i].call = k THEN None ELSE reqs[q][i].call
  <2>1. reqs[q][i] \in Requests
    BY QueuedRequests DEF IInv
  <2> QED
    BY <2>1 DEF Requests
<1> HIDE DEF dropped
<1>5. ASSUME NEW q \in Queues
      PROVE  queue(q) \in Seq(Requests) /\ DOMAIN queue(q) = DOMAIN reqs[q]
  <2>1. DOMAIN reqs[q] = 1 .. Len(reqs[q]) /\ Len(reqs[q]) \in Nat
    BY QueuedRequests DEF IInv
  <2> QED
    BY <1>4, <2>1
<1>6. reqs' \in [Queues -> Seq(Requests)]
  BY <1>1, <1>5
<1>7. QueuedCalls'
  <2> SUFFICES ASSUME NEW q \in Queues, NEW i \in DOMAIN reqs'[q], reqs'[q][i].call # None
               PROVE  Waiting(q, i)'
    BY DEF QueuedCalls
  <2>1. DOMAIN reqs'[q] = DOMAIN reqs[q] /\ \A j \in DOMAIN reqs[q] : reqs'[q][j] = dropped(q, j)
    BY <1>1
  <2>2. reqs'[q][i].call = reqs[q][i].call /\ reqs[q][i].call # k /\ reqs[q][i].call # None
    BY <1>4, <2>1
  <2>3. Waiting(q, i) /\ reqs[q][i].call \in Calls
    BY <2>1, <2>2, QueuedRequests DEF IInv, QueuedCalls
  <2>4. \A j \in DOMAIN reqs[q] : reqs'[q][j].call = reqs[q][i].call => reqs[q][j].call = reqs[q][i].call
    BY <1>4, <2>1, <2>2
  <2> QED
    BY <1>2, <2>1, <2>2, <2>3, <2>4 DEF Waiting
<1>8. Rounds'
  BY <1>1, NoRounds
<1>9. Existing' = Existing /\ \A b \in Apis : Running(b)' = Running(b)
  BY <1>1 DEF Existing, Running
<1>10. ListensToOwnQueue' /\ Wanted' /\ CapacityBound'
  BY <1>1, <1>3, <1>9 DEF IInv, Containing, ListensToOwnQueue, Wanted, CapacityBound, lists
<1>11. TypeOK'
  BY <1>1, <1>2, <1>3, <1>6 DEF IInv, TypeOK, Counts, lists
<1> QED
  BY <1>2, <1>7, <1>8, <1>10, <1>11 DEF IInv, Containing

-----------------------------------------------------------------------------
(* The steps of the containers.                                            *)

\* The first request of a queue goes; the others keep their callers.
LEMMA Taken ==
  ASSUME TypeOK, QueuedCalls, NEW q \in Queues, reqs[q] # <<>>, reqs' = [reqs EXCEPT ![q] = Tail(@)]
  PROVE  /\ Head(reqs[q]) \in Requests /\ reqs' \in [Queues -> Seq(Requests)]
         /\ 1 \in DOMAIN reqs[q] /\ Head(reqs[q]) = reqs[q][1]
         /\ call' = call => QueuedCalls'
         /\ \A k \in Calls : /\ Head(reqs[q]).call = k
                             /\ \A m \in Calls \ {k} : call'[m] = call[m]
                             => QueuedCalls'
<1>1. reqs[q] \in Seq(Requests) /\ Len(reqs[q]) \in Nat /\ DOMAIN reqs[q] = 1 .. Len(reqs[q])
  BY QueuedRequests
<1>2. Head(reqs[q]) \in Requests /\ Head(reqs[q]) = reqs[q][1] /\ 1 \in DOMAIN reqs[q]
  BY <1>1
<1> DEFINE rest == Tail(reqs[q])
<1>3. /\ rest \in Seq(Requests) /\ DOMAIN rest = 1 .. Len(reqs[q]) - 1
      /\ \A i \in DOMAIN rest : rest[i] = reqs[q][i + 1]
  BY <1>1
<1> HIDE DEF rest
<1>4. reqs' \in [Queues -> Seq(Requests)] /\ reqs'[q] = rest /\ \A p \in Queues \ {q} : reqs'[p] = reqs[p]
  BY <1>3 DEF TypeOK, rest
<1>5. ASSUME NEW p \in Queues, NEW i \in DOMAIN reqs'[p]
      PROVE  \E j \in DOMAIN reqs[p] :
               /\ reqs'[p][i] = reqs[p][j] /\ (p = q => j = i + 1 /\ j # 1) /\ (p # q => j = i)
  <2>1. CASE p = q
    <3>1. i \in 1 .. Len(reqs[q]) - 1 /\ reqs'[p][i] = reqs[q][i + 1]
      BY <1>3, <1>4, <2>1
    <3> QED
      BY <1>1, <2>1, <3>1
  <2>2. CASE p # q
    BY <1>4, <2>2
  <2> QED
    BY <2>1, <2>2
<1>6. ASSUME \A p \in Queues : \A j \in DOMAIN reqs[p] :
               reqs[p][j].call # None /\ (p = q => j # 1) => call'[reqs[p][j].call] = call[reqs[p][j].call]
      PROVE  QueuedCalls'
  <2> SUFFICES ASSUME NEW p \in Queues, NEW i \in DOMAIN reqs'[p], reqs'[p][i].call # None
               PROVE  Waiting(p, i)'
    BY DEF QueuedCalls
  <2>1. PICK j \in DOMAIN reqs[p] :
          reqs'[p][i] = reqs[p][j] /\ (p = q => j = i + 1 /\ j # 1) /\ (p # q => j = i)
    BY <1>5
  <2>2. Waiting(p, j) /\ call'[reqs[p][j].call] = call[reqs[p][j].call]
    BY <1>6, <2>1 DEF QueuedCalls
  <2>3. ASSUME NEW l \in DOMAIN reqs'[p], reqs'[p][l].call = reqs'[p][i].call
        PROVE  l = i
    <3>1. PICK n \in DOMAIN reqs[p] : reqs'[p][l] = reqs[p][n] /\ (p = q => n = l + 1) /\ (p # q => n = l)
      BY <1>5
    <3>2. n = j
      BY <2>1, <2>2, <2>3, <3>1 DEF Waiting
    <3>3. CASE p = q
      <4>1. l \in Int /\ i \in Int
        BY <1>1, <1>3, <1>4, <3>3
      <4> QED
        BY <2>1, <3>1, <3>2, <3>3, <4>1
    <3>4. CASE p # q
      BY <2>1, <3>1, <3>2, <3>4
    <3> QED
      BY <3>3, <3>4
  <2> QED
    BY <2>1, <2>2, <2>3 DEF Waiting
<1>7. call' = call => QueuedCalls'
  BY <1>6
<1>8. ASSUME NEW k \in Calls, Head(reqs[q]).call = k, \A m \in Calls \ {k} : call'[m] = call[m]
      PROVE  QueuedCalls'
  <2>1. ASSUME NEW p \in Queues, NEW j \in DOMAIN reqs[p], reqs[p][j].call # None, p = q => j # 1
        PROVE  call'[reqs[p][j].call] = call[reqs[p][j].call]
    <3>1. Waiting(p, j) /\ Waiting(q, 1) /\ reqs[p][j].call \in Calls
      BY <1>2, <1>8, <2>1, QueuedRequests, NoneAssumption DEF QueuedCalls
    <3>2. reqs[p][j].call # k
      BY <1>2, <1>8, <2>1, <3>1 DEF Waiting
    <3> QED
      BY <1>8, <3>1, <3>2
  <2> QED
    BY <1>6, <2>1
<1> QED
  BY <1>2, <1>4, <1>7, <1>8

LEMMA BusyTyped ==
  ASSUME TypeOK, NEW c \in Containers, Busy(c)
  PROVE  /\ docker[c] \in Launched /\ docker[c].state = "running" /\ docker[c].api \in Apis
         /\ docker[c].queue \in Queues /\ reqs[docker[c].queue] # <<>>
         /\ c \in Running(docker[c].api)
BY DockerTyped DEF Busy, Running

\* A container goes on or ends, with the lists as they were.
LEMMA Works ==
  ASSUME IInv, NEW c \in Existing, NEW s \in {"running", "exited"}, docker[c].state = "running",
         docker' = [docker EXCEPT ![c] = [@ EXCEPT !.state = s]],
         QUEUES' = QUEUES, lists' = lists, ndiff' = ndiff
  PROVE  docker' \in [Containers -> {NoContainer} \cup Launched] /\ Containing'
<1> DEFINE r == [docker[c] EXCEPT !.state = s]
<1>1. docker \in [Containers -> {NoContainer} \cup Launched] /\ docker[c] \in Launched /\ c \in Containers
  BY DockerTyped DEF IInv, TypeOK
<1>2. r \in Launched /\ r.state = s /\ r.api = docker[c].api /\ r.queue = docker[c].queue
  BY <1>1 DEF Launched
<1>3. docker' = [docker EXCEPT ![c] = r]
  OBVIOUS
<1> HIDE DEF r
<1>4. /\ docker' \in [Containers -> {NoContainer} \cup Launched]
      /\ docker'[c] = r /\ \A d \in Containers \ {c} : docker'[d] = docker[d]
  BY <1>1, <1>2, <1>3
<1>5. \A d \in Existing' : d \in Existing /\ docker'[d].api = docker[d].api /\ docker'[d].queue = docker[d].queue
  BY <1>1, <1>2, <1>4 DEF Existing
<1>6. \A d \in Existing' : docker'[d].state = "running" => docker[d].state = "running"
  BY <1>2, <1>4 DEF Existing
<1>7. NoneStarts
  BY <1>5, <1>6 DEF NoneStarts
<1>8. ListensToOwnQueue'
  <2> SUFFICES ASSUME NEW b \in Apis, NEW d \in Running(b)'
               PROVE  /\ API_CONTAINERS[b] # None /\ d \in API_CONTAINERS[b]
                      /\ docker'[d].queue \in {QUEUES[b], None}
    BY DEF ListensToOwnQueue, lists
  <2>1. d \in Running(b) /\ docker'[d].queue = docker[d].queue
    BY <1>5, <1>7, Fewer DEF Running
  <2> QED
    BY <2>1 DEF IInv, Containing, ListensToOwnQueue
<1>9. Wanted'
  BY <1>5 DEF IInv, Containing, Wanted, lists
<1>10. Rounds'
  BY DEF IInv, Containing, Rounds, lists
<1>11. CapacityBound'
  BY <1>7, Fewer DEF IInv, Containing
<1> QED
  BY <1>4, <1>8, <1>9, <1>10, <1>11 DEF Containing

LEMMA ContainerExits ==
  ASSUME IInv, NEW c \in Containers, container_exits(c)
  PROVE  IInv'
<1>1. /\ c \in Existing /\ docker[c].state = "running"
      /\ docker' = [docker EXCEPT ![c] = [@ EXCEPT !.state = "exited"]]
      /\ queueVars' = queueVars /\ CONNS' = CONNS /\ call' = call /\ lists' = lists /\ ndiff' = ndiff
      /\ QUEUES' = QUEUES
  BY DEF container_exits, queueVars
<1>2. docker' \in [Containers -> {NoContainer} \cup Launched] /\ Containing'
  BY <1>1, Works
<1>3. reqs' \in [Queues -> Seq(Requests)] /\ QueuedCalls'
  <2>1. CASE reqs' = reqs
    BY <1>1, <2>1 DEF IInv, TypeOK, QueuedCalls, Waiting
  <2>2. CASE Busy(c) /\ reqs' = [reqs EXCEPT ![docker[c].queue] = Tail(@)]
    BY <1>1, <2>2, BusyTyped, Taken DEF IInv
  <2> QED
    BY <2>1, <2>2 DEF container_exits
<1>4. QueueExclusive' /\ PoolFollowsQueue' /\ CallsFollow' /\ Answered' /\ OwnAnswer'
  BY <1>1 DEF IInv, Queueing, QueueExclusive, PoolFollowsQueue, CallsFollow, Answered, OwnAnswer, queueVars
<1>5. OutstandingCounted'
  BY <1>1 DEF IInv, Queueing, OutstandingCounted, UnderWay, queueVars
<1>6. TypeOK'
  BY <1>1, <1>2, <1>3 DEF IInv, TypeOK, queueVars, lists
<1> QED
  BY <1>2, <1>3, <1>4, <1>5, <1>6 DEF IInv, Queueing

\* The container that answers is one of the API whose queue the call went to.
LEMMA Serve ==
  ASSUME IInv, NEW c \in Containers, serve(c)
  PROVE  IInv'
<1> DEFINE q == docker[c].queue
           r == Head(reqs[q])
           k == r.call
           answer == [call[k] EXCEPT !.state = "answered", !.by = c, !.of = docker[c].api]
<1>1. /\ Busy(c) /\ c \in Existing
      /\ reqs' = [reqs EXCEPT ![q] = Tail(@)]
      /\ queueVars' = queueVars /\ CONNS' = CONNS /\ lists' = lists /\ ndiff' = ndiff
      /\ QUEUES' = QUEUES
  BY DEF serve, queueVars, Busy
<1>2. /\ docker[c].state = "running" /\ docker[c].api \in Apis /\ q \in Queues /\ reqs[q] # <<>>
      /\ c \in Running(docker[c].api)
  BY <1>1, BusyTyped DEF IInv
<1>3. PICK s \in {"running", "exited"} : docker' = [docker EXCEPT ![c] = [@ EXCEPT !.state = s]]
  BY DEF serve
<1>4. docker' \in [Containers -> {NoContainer} \cup Launched] /\ Containing'
  BY <1>1, <1>2, <1>3, Works
<1>5. /\ r \in Requests /\ reqs' \in [Queues -> Seq(Requests)] /\ 1 \in DOMAIN reqs[q] /\ r = reqs[q][1]
      /\ call' = call => QueuedCalls'
  BY <1>1, <1>2, Taken DEF IInv
<1>6. CASE k = None
  <2>1. call' = call
    BY <1>6 DEF serve
  <2>2. QueueExclusive' /\ PoolFollowsQueue' /\ CallsFollow' /\ Answered' /\ OwnAnswer'
    BY <1>1, <2>1 DEF IInv, Queueing, QueueExclusive, PoolFollowsQueue, CallsFollow, Answered, OwnAnswer, queueVars
  <2>3. OutstandingCounted'
    BY <1>1, <2>1 DEF IInv, Queueing, OutstandingCounted, UnderWay, queueVars
  <2>4. TypeOK'
    BY <1>1, <1>4, <1>5, <2>1 DEF IInv, TypeOK, queueVars, lists
  <2> QED
    BY <1>4, <1>5, <2>1, <2>2, <2>3, <2>4 DEF IInv, Queueing
<1>7. CASE k # None
  <2>1. call' = [call EXCEPT ![k] = answer]
    BY <1>7 DEF serve
  <2>2. k \in Calls
    BY <1>5, <1>7 DEF Requests
  <2>3. call[k] # Free /\ call[k].conn.queue = q /\ call[k] \in CallsMade /\ call[k].api \in Apis
    BY <1>2, <1>5, <1>7, <2>2, CallsTyped DEF IInv, QueuedCalls, Waiting
  <2>4. /\ answer \in CallsMade /\ answer.conn = call[k].conn /\ answer.api = call[k].api
        /\ answer.by = c /\ answer.of = docker[c].api /\ answer.state = "answered"
    BY <1>2, <2>3 DEF CallsMade
  <2>5. answer # Free
    BY <2>4 DEF Free
  <2> HIDE DEF answer, k
  <2>6. /\ call' \in [Calls -> {Free} \cup CallsMade]
        /\ call'[k] = answer /\ \A m \in Calls \ {k} : call'[m] = call[m]
    BY <2>1, <2>2, <2>4 DEF IInv, TypeOK
  <2>7. QueuedCalls'
    <3>1. Head(reqs[q]).call = k
      BY DEF k
    <3> QED
      BY <1>1, <1>2, <2>2, <2>6, <3>1, Taken DEF IInv
  <2>8. QueueExclusive' /\ PoolFollowsQueue'
    BY <1>1 DEF IInv, Queueing, QueueExclusive, PoolFollowsQueue, queueVars
  <2>9. \A m \in Calls : (call'[m] # Free <=> call[m] # Free) /\ (call[m] # Free => call'[m].conn = call[m].conn)
    BY <2>3, <2>4, <2>5, <2>6
  <2>10. \A p \in Queues : UnderWay(p)' = UnderWay(p)
    BY <2>9 DEF UnderWay
  <2>11. OutstandingCounted'
    BY <1>1, <2>10 DEF IInv, Queueing, OutstandingCounted, queueVars
  <2>12. CallsFollow'
    BY <1>1, <2>4, <2>6, <2>9 DEF IInv, Queueing, CallsFollow, queueVars
  <2>13. Answered'
    BY <1>2, <2>4, <2>6 DEF IInv, Answered
  <2>14. OwnAnswer'
    <3> SUFFICES ASSUME NEW m \in Calls, call'[m].state = "answered", ~call'[m].conn.stale
                 PROVE  call'[m].of = call'[m].api
      BY DEF OwnAnswer
    <3>1. CASE m = k
      <4>1. QUEUES[call[k].api] = q
        BY <2>2, <2>3, <2>4, <2>6, <3>1 DEF IInv, Queueing, CallsFollow
      <4>2. QUEUES[docker[c].api] = q
        BY <1>2, NoneAssumption DEF IInv, Containing, ListensToOwnQueue
      <4>3. call[k].api = docker[c].api
        BY <1>2, <2>3, <4>1, <4>2, NoneAssumption DEF IInv, Queueing, QueueExclusive
      <4> QED
        BY <2>4, <2>6, <3>1, <4>3
    <3>2. CASE m # k
      BY <2>6, <3>2 DEF IInv, OwnAnswer
    <3> QED
      BY <3>1, <3>2
  <2>15. TypeOK'
    BY <1>1, <1>4, <1>5, <2>6 DEF IInv, TypeOK, queueVars, lists
  <2> QED
    BY <1>4, <2>7, <2>8, <2>11, <2>12, <2>13, <2>14, <2>15 DEF IInv, Queueing
<1> QED
  BY <1>6, <1>7

-----------------------------------------------------------------------------
(* Maintenance.                                                            *)

\* The queues of the APIs that lost their last container go to the cache, with the
\* calls in them, which from now on follow nobody.
LEMMA ReleaseQueues ==
  ASSUME IInv, NEW idle \in SUBSET Apis, \A a \in idle : QUEUES[a] # None, release_queues(idle),
         reqs' = reqs
  PROVE  /\ QUEUES' \in [Apis -> Queues \cup {None}] /\ (QUEUE_CACHE \subseteq Queues)'
         /\ CONNS' \in [Apis -> {None} \cup Seq(Connectors)] /\ call' \in [Calls -> {Free} \cup CallsMade]
         /\ \A a \in Apis \ idle : QUEUES'[a] = QUEUES[a]
         /\ QueueExclusive' /\ PoolFollowsQueue' /\ CallsFollow'
         /\ \A p \in Queues : UnderWay(p)' = UnderWay(p)
         /\ \A p \in Queues : p \in QUEUE_CACHE' \/ (\E a \in Apis : QUEUES'[a] = p)
              => p \in QUEUE_CACHE \/ (\E a \in Apis : QUEUES[a] = p)
         /\ QueuedCalls' /\ Answered' /\ OwnAnswer'
<1> DEFINE gone == {QUEUES[a] : a \in idle}
           stale(k) == [call[k] EXCEPT !.conn = [@ EXCEPT !.stale = TRUE]]
<1>1. /\ QUEUES \in [Apis -> Queues \cup {None}] /\ QUEUE_CACHE \subseteq Queues
      /\ CONNS \in [Apis -> {None} \cup Seq(Connectors)] /\ call \in [Calls -> {Free} \cup CallsMade]
  BY DEF IInv, TypeOK
<1>2. /\ QUEUES' = [a \in Apis |-> IF a \in idle THEN None ELSE QUEUES[a]]
      /\ QUEUE_CACHE' = QUEUE_CACHE \cup gone
      /\ CONNS' = [a \in Apis |-> IF a \in idle THEN None ELSE CONNS[a]]
      /\ call' = [k \in Calls |-> IF \E q \in gone : k \in UnderWay(q) THEN stale(k) ELSE call[k]]
  BY DEF release_queues
<1>3. gone \subseteq Queues
  BY <1>1
<1>4. QUEUES' \in [Apis -> Queues \cup {None}] /\ (QUEUE_CACHE \subseteq Queues)'
  BY <1>1, <1>2, <1>3
<1>5. CONNS' \in [Apis -> {None} \cup Seq(Connectors)]
  BY <1>1, <1>2
<1>6. QueueExclusive'
  BY <1>1, <1>2 DEF IInv, Queueing, QueueExclusive
<1>7. PoolFollowsQueue'
  BY <1>1, <1>2 DEF IInv, Queueing, PoolFollowsQueue
<1>8. ASSUME NEW k \in Calls, call[k] # Free
      PROVE  /\ stale(k) \in CallsMade /\ stale(k) # Free
             /\ stale(k).conn.queue = call[k].conn.queue /\ stale(k).conn.stale = TRUE
             /\ stale(k).state = call[k].state /\ stale(k).api = call[k].api
             /\ stale(k).by = call[k].by /\ stale(k).of = call[k].of
  <2> DEFINE conn == [call[k].conn EXCEPT !.stale = TRUE]
  <2>1. call[k] \in CallsMade /\ call[k].conn \in Connectors /\ call[k].state \in {"sent", "answered"}
    BY <1>8, CallsTyped DEF IInv
  <2>2. conn \in Connectors /\ conn.queue = call[k].conn.queue /\ conn.stale = TRUE
    BY <2>1 DEF Connectors
  <2>3. stale(k) = [call[k] EXCEPT !.conn = conn]
    OBVIOUS
  <2> HIDE DEF stale, conn
  <2>4. /\ stale(k) \in CallsMade /\ stale(k).conn = conn
        /\ stale(k).state = call[k].state /\ stale(k).api = call[k].api
        /\ stale(k).by = call[k].by /\ stale(k).of = call[k].of
    BY <2>1, <2>2, <2>3 DEF CallsMade
  <2>5. stale(k) # Free
    BY <2>1, <2>4 DEF Free
  <2> QED
    BY <2>2, <2>4, <2>5
<1> HIDE DEF stale
<1>9. ASSUME NEW k \in Calls
      PROVE  /\ call'[k] # Free <=> call[k] # Free
             /\ call[k] # Free =>
                  /\ call'[k] \in CallsMade
                  /\ call'[k].conn.queue = call[k].conn.queue
                  /\ ~call'[k].conn.stale => ~call[k].conn.stale /\ call[k].conn.queue \notin gone
                  /\ call'[k].state = call[k].state /\ call'[k].api = call[k].api
                  /\ call'[k].by = call[k].by /\ call'[k].of = call[k].of
  <2>1. CASE \E q \in gone : k \in UnderWay(q)
    <3>1. call'[k] = stale(k) /\ call[k] # Free
      BY <1>2, <2>1 DEF UnderWay
    <3> QED
      BY <1>8, <3>1
  <2>2. CASE ~\E q \in gone : k \in UnderWay(q)
    <3>1. call'[k] = call[k] /\ (call[k] # Free => call[k].conn.queue \notin gone)
      BY <1>2, <2>2 DEF UnderWay
    <3> QED
      BY <1>1, <3>1
  <2> QED
    BY <2>1, <2>2
<1>10. call' \in [Calls -> {Free} \cup CallsMade]
  <2>1. call' = [k \in Calls |-> call'[k]]
    BY <1>2
  <2>2. \A k \in Calls : call'[k] \in {Free} \cup CallsMade
    BY <1>9
  <2> QED
    BY <2>1, <2>2
<1>11. \A p \in Queues : UnderWay(p)' = UnderWay(p)
  BY <1>9 DEF UnderWay
<1>12. CallsFollow'
  <2> SUFFICES ASSUME NEW k \in Calls, call'[k] # Free, ~call'[k].conn.stale
               PROVE  QUEUES'[call'[k].api] = call'[k].conn.queue
    BY DEF CallsFollow
  <2>1. /\ call[k] # Free /\ ~call[k].conn.stale /\ call[k].conn.queue \notin gone /\ call[k].api \in Apis
        /\ call'[k].api = call[k].api /\ call'[k].conn.queue = call[k].conn.queue
    BY <1>9, CallsTyped DEF IInv
  <2>2. QUEUES[call[k].api] = call[k].conn.queue
    BY <2>1 DEF IInv, Queueing, CallsFollow
  <2>3. call[k].api \notin idle
    BY <2>1, <2>2
  <2> QED
    BY <1>2, <2>1, <2>2, <2>3
<1>13. QueuedCalls'
  <2> SUFFICES ASSUME NEW q \in Queues, NEW i \in DOMAIN reqs[q], reqs[q][i].call # None
               PROVE  Waiting(q, i)'
    BY DEF QueuedCalls
  <2>1. Waiting(q, i) /\ reqs[q][i].call \in Calls
    BY QueuedRequests DEF IInv, QueuedCalls
  <2> QED
    BY <1>9, <2>1 DEF Waiting
<1>14. Answered'
  BY <1>9 DEF IInv, Answered
<1>15. OwnAnswer'
  <2> SUFFICES ASSUME NEW k \in Calls, call'[k].state = "answered", ~call'[k].conn.stale
               PROVE  call'[k].of = call'[k].api
    BY DEF OwnAnswer
  <2>1. call'[k] # Free
    BY DEF Free
  <2> QED
    BY <1>9, <2>1 DEF IInv, OwnAnswer
<1>16. ASSUME NEW p \in Queues, p \in QUEUE_CACHE' \/ \E a \in Apis : QUEUES'[a] = p
       PROVE  p \in QUEUE_CACHE \/ \E a \in Apis : QUEUES[a] = p
  BY <1>2, <1>16, NoneAssumption
<1>17. \A a \in Apis \ idle : QUEUES'[a] = QUEUES[a]
  BY <1>2
<1> QED
  BY <1>4, <1>5, <1>6, <1>7, <1>10, <1>11, <1>12, <1>13, <1>14, <1>15, <1>16, <1>17

LEMMA CalcDesired ==
  ASSUME TypeOK, NEW a \in Apis, QUEUES[a] # None, DESIRED[a] # None
  PROVE  calc_desired(a) \in 0 .. MAX_PER_API_CONTAINERS
<1> DEFINE mean == outstanding[QUEUES[a]].mean
           now  == DESIRED[a]
<1>1. QUEUES[a] \in Queues /\ outstanding[QUEUES[a]] \in Counts
  BY DEF TypeOK, Counts
<1>2. mean \in Int
  BY <1>1 DEF Counts
<1>3. now \in 0 .. MAX_PER_API_CONTAINERS /\ MAX_PER_API_CONTAINERS \in Nat \ {0}
  BY LimitsAssumption DEF TypeOK
<1>4. mean > 4 => mean \div 4 \in Nat
  BY <1>2
<1> HIDE DEF mean, now
<1>5. /\ mean > 4 => LeastOf(now + mean \div 4, MAX_PER_API_CONTAINERS) \in 0 .. MAX_PER_API_CONTAINERS
      /\ GreatestOf(now, 1) \in 0 .. MAX_PER_API_CONTAINERS
      /\ now > 1 => now - 1 \in 0 .. MAX_PER_API_CONTAINERS
      /\ 0 \in 0 .. MAX_PER_API_CONTAINERS
  BY <1>3, <1>4 DEF LeastOf, GreatestOf
<1>6. calc_desired(a) = IF mean > 4 THEN LeastOf(now + mean \div 4, MAX_PER_API_CONTAINERS)
                        ELSE IF mean < 1 THEN 0
                        ELSE IF mean < 2 /\ now > 1 THEN now - 1
                        ELSE GreatestOf(now, 1)
  BY DEF calc_desired, mean, now
<1> QED
  BY <1>5, <1>6

LEMMA CalcCounts ==
  ASSUME TypeOK, NEW done \in SUBSET Apis, NEW first, calc_desired_container_counts(done, first),
         \A a \in done : QUEUES[a] # None /\ DESIRED[a] # None
  PROVE  /\ DESIRED' \in [Apis -> {None} \cup 0 .. MAX_PER_API_CONTAINERS]
         /\ \A a \in Apis : DESIRED[a] # None => DESIRED'[a] # None
         /\ outstanding' \in [Queues -> Counts]
         /\ \A p \in Queues : outstanding'[p].num = outstanding[p].num /\ outstanding'[p].lost = outstanding[p].lost
<1>1. /\ DESIRED \in [Apis -> {None} \cup 0 .. MAX_PER_API_CONTAINERS]
      /\ outstanding \in [Queues -> Counts]
  BY DEF TypeOK, Counts
<1>2. \A a \in done : calc_desired(a) \in 0 .. MAX_PER_API_CONTAINERS
  BY CalcDesired
<1>3. 0 \in 0 .. MAX_PER_API_CONTAINERS /\ None \notin 0 .. MAX_PER_API_CONTAINERS
  BY LimitsAssumption, NoneAssumption
<1>4. DESIRED' = [a \in Apis |-> IF a \in done THEN calc_desired(a) ELSE IF a = first THEN 0 ELSE DESIRED[a]]
  BY DEF calc_desired_container_counts
<1>5. DESIRED' \in [Apis -> {None} \cup 0 .. MAX_PER_API_CONTAINERS]
  BY <1>1, <1>2, <1>3, <1>4
<1>6. \A a \in Apis : DESIRED[a] # None => DESIRED'[a] # None
  BY <1>2, <1>3, <1>4
<1> DEFINE count(p) == IF outstanding[p].num = 0 /\ \E a \in done : QUEUES[a] = p
                       THEN incr_outstanding(outstanding, p, 0)[p] ELSE outstanding[p]
<1>7. outstanding' = [p \in Queues |-> count(p)]
  BY DEF calc_desired_container_counts
<1>8. ASSUME NEW p \in Queues
      PROVE  count(p) \in Counts /\ count(p).num = outstanding[p].num /\ count(p).lost = outstanding[p].lost
  <2>1. /\ incr_outstanding(outstanding, p, 0) \in [Queues -> Counts]
        /\ incr_outstanding(outstanding, p, 0)[p].num = outstanding[p].num + 0
        /\ incr_outstanding(outstanding, p, 0)[p].lost = outstanding[p].lost
    BY <1>1, Incremented
  <2>2. outstanding[p] \in Counts /\ outstanding[p].num \in Int
    BY <1>1 DEF Counts
  <2> QED
    BY <2>1, <2>2
<1> HIDE DEF count
<1> QED
  BY <1>5, <1>6, <1>7, <1>8

LEMMA Maintain ==
  ASSUME IInv, NEW unresponsive \in SUBSET Existing, maintain(unresponsive)
  PROVE  IInv'
<1> DEFINE listed == {a \in Apis : ~(Running(a) \subseteq unresponsive)}
           queueless == {a \in listed : QUEUES[a] = None}
           idle == {a \in Apis \ listed : QUEUES[a] # None}
<1>1. /\ \A b \in Apis : ndiff[b] = 0
      /\ refresh_container_list(unresponsive) /\ release_queues(idle) /\ reqs' = reqs
  BY DEF maintain, Idle
<1>2. /\ QUEUES' \in [Apis -> Queues \cup {None}] /\ (QUEUE_CACHE \subseteq Queues)'
      /\ CONNS' \in [Apis -> {None} \cup Seq(Connectors)] /\ call' \in [Calls -> {Free} \cup CallsMade]
      /\ \A a \in Apis \ idle : QUEUES'[a] = QUEUES[a]
      /\ QueueExclusive' /\ PoolFollowsQueue' /\ CallsFollow'
      /\ \A p \in Queues : UnderWay(p)' = UnderWay(p)
      /\ \A p \in Queues : p \in QUEUE_CACHE' \/ (\E a \in Apis : QUEUES'[a] = p)
           => p \in QUEUE_CACHE \/ (\E a \in Apis : QUEUES[a] = p)
      /\ QueuedCalls' /\ Answered' /\ OwnAnswer'
  <2>1. idle \in SUBSET Apis /\ \A a \in idle : QUEUES[a] # None
    OBVIOUS
  <2> HIDE DEF idle
  <2> QED
    BY <1>1, <2>1, ReleaseQueues
<1>3. \A a \in listed : DESIRED[a] # None
  <2> SUFFICES ASSUME NEW a \in listed
               PROVE  DESIRED[a] # None
    OBVIOUS
  <2>1. PICK c \in Running(a) : TRUE
    OBVIOUS
  <2>2. c \in Existing /\ docker[c].api = a
    BY DEF Running
  <2> QED
    BY <2>2 DEF IInv, Containing, Wanted
<1> DEFINE begun == ndiff' = [a \in Apis |-> IF a \in listed THEN Cardinality(API_CONTAINERS'[a]) - DESIRED'[a] ELSE 0]
           found(done, first) ==
             /\ calc_desired_container_counts(done, first)
             /\ \A a \in done : QUEUES[a] # None /\ DESIRED[a] # None
             /\ (queueless = {} /\ begun) \/ ndiff' = ndiff
<1>4. PICK done \in SUBSET Apis, first \in Apis \cup {None} : found(done, first)
  <2>1. CASE queueless = {} /\ calc_desired_container_counts(listed, None) /\ begun
    <3>1. listed \in SUBSET Apis /\ found(listed, None)
      BY <1>3, <2>1
    <3> QED
      BY <3>1
  <2>2. CASE \E one \in queueless, some \in SUBSET (listed \ queueless) :
               calc_desired_container_counts(some, one) /\ ndiff' = ndiff
    <3>1. PICK one \in queueless, some \in SUBSET (listed \ queueless) :
            calc_desired_container_counts(some, one) /\ ndiff' = ndiff
      BY <2>2
    <3>2. some \in SUBSET Apis /\ found(some, one)
      BY <1>3, <3>1
    <3> QED
      BY <3>2
  <2> QED
    BY <2>1, <2>2 DEF maintain
<1>5. /\ DESIRED' \in [Apis -> {None} \cup 0 .. MAX_PER_API_CONTAINERS]
      /\ \A a \in Apis : DESIRED[a] # None => DESIRED'[a] # None
      /\ outstanding' \in [Queues -> Counts]
      /\ \A p \in Queues : outstanding'[p].num = outstanding[p].num /\ outstanding'[p].lost = outstanding[p].lost
  BY <1>4, CalcCounts DEF IInv
<1>6. OutstandingCounted'
  BY <1>2, <1>5 DEF IInv, Queueing, OutstandingCounted
<1>7. /\ API_CONTAINERS' = [a \in Apis |-> IF Running(a) \subseteq unresponsive THEN None ELSE Running(a) \ unresponsive]
      /\ docker' = [c \in Containers |-> IF c \in unresponsive \/ docker[c].state # "running"
                                         THEN NoContainer ELSE docker[c]]
  BY <1>1 DEF refresh_container_list
<1>8. API_CONTAINERS' \in [Apis -> {None} \cup SUBSET Containers]
  BY <1>7, RunningFinite
<1>9. docker' \in [Containers -> {NoContainer} \cup Launched]
  BY <1>7 DEF IInv, TypeOK
<1>10. \A c \in Existing' : c \in Existing /\ docker[c].state = "running" /\ docker'[c] = docker[c] /\ c \notin unresponsive
  BY <1>7 DEF Existing, NoContainer
<1>11. \A a \in Apis : Running(a)' = Running(a) \ unresponsive
  BY <1>7, <1>10 DEF Running, Existing
<1>12. NoneStarts
  BY <1>10 DEF NoneStarts
<1>13. CapacityBound'
  BY <1>12, Fewer DEF IInv, Containing
<1>14. Wanted'
  <2> SUFFICES ASSUME NEW c \in Existing'
               PROVE  DESIRED'[docker'[c].api] # None
    BY DEF Wanted
  <2>1. c \in Existing /\ docker'[c] = docker[c] /\ docker[c].api \in Apis
    BY <1>10, DockerTyped DEF IInv
  <2> QED
    BY <1>5, <2>1 DEF IInv, Containing, Wanted
<1>15. ListensToOwnQueue'
  <2> SUFFICES ASSUME NEW a \in Apis, NEW c \in Running(a)'
               PROVE  /\ API_CONTAINERS'[a] # None /\ c \in API_CONTAINERS'[a]
                      /\ docker'[c].queue \in {QUEUES'[a], None}
    BY DEF ListensToOwnQueue
  <2>1. c \in Running(a) /\ c \notin unresponsive /\ docker'[c] = docker[c]
    BY <1>10, <1>11 DEF Running
  <2>2. API_CONTAINERS'[a] = Running(a) \ unresponsive /\ API_CONTAINERS'[a] # None
    BY <1>7, <2>1, RunningFinite, NoneAssumption
  <2>3. QUEUES'[a] = QUEUES[a]
    BY <1>2, <2>1
  <2> QED
    BY <2>1, <2>2, <2>3 DEF IInv, Containing, ListensToOwnQueue
<1>16. ndiff' \in [Apis -> Int] /\ Rounds'
  <2>1. CASE ndiff' = ndiff
    BY <1>1, <2>1, NoRounds DEF IInv, TypeOK
  <2>2. CASE queueless = {} /\ begun
    <3>1. ASSUME NEW a \in listed
          PROVE  /\ QUEUES'[a] # None /\ DESIRED'[a] # None /\ API_CONTAINERS'[a] # None
                 /\ Cardinality(API_CONTAINERS'[a]) \in Nat /\ DESIRED'[a] \in 0 .. MAX_PER_API_CONTAINERS
      <4>1. QUEUES'[a] # None
        BY <1>2, <2>2
      <4>2. DESIRED'[a] # None /\ DESIRED'[a] \in 0 .. MAX_PER_API_CONTAINERS
        BY <1>3, <1>5
      <4>3. API_CONTAINERS'[a] = Running(a) \ unresponsive
        BY <1>7
      <4>4. API_CONTAINERS'[a] # None
        BY <4>3, RunningFinite, NoneAssumption
      <4>5. Cardinality(API_CONTAINERS'[a]) \in Nat
        BY <4>3, RunningFinite, FS_Subset, FS_CardinalityType
      <4> QED
        BY <4>1, <4>2, <4>4, <4>5
    <3>2. \A a \in Apis : ndiff'[a] = IF a \in listed THEN Cardinality(API_CONTAINERS'[a]) - DESIRED'[a] ELSE 0
      BY <2>2
    <3>3. \A a \in Apis : ndiff'[a] \in Int
      BY <3>1, <3>2, LimitsAssumption
    <3>4. ndiff' \in [Apis -> Int]
      BY <2>2, <3>2, <3>3
    <3>5. Rounds'
      <4> SUFFICES ASSUME NEW a \in Apis, ndiff'[a] # 0
                   PROVE  /\ QUEUES'[a] # None /\ DESIRED'[a] # None /\ API_CONTAINERS'[a] # None
                          /\ ndiff'[a] < 0 => Cardinality(API_CONTAINERS'[a]) - ndiff'[a] <= MAX_PER_API_CONTAINERS
        BY DEF Rounds
      <4>1. a \in listed /\ ndiff'[a] = Cardinality(API_CONTAINERS'[a]) - DESIRED'[a]
        BY <3>2
      <4> HIDE DEF listed
      <4>2. Cardinality(API_CONTAINERS'[a]) - ndiff'[a] = DESIRED'[a]
        BY <3>1, <4>1, LimitsAssumption
      <4> QED
        BY <3>1, <4>1, <4>2, LimitsAssumption
    <3> QED
      BY <3>4, <3>5
  <2> QED
    BY <1>4, <2>1, <2>2
<1>17. TypeOK'
  BY <1>1, <1>2, <1>5, <1>8, <1>9, <1>16 DEF IInv, TypeOK, Counts
<1> QED
  BY <1>2, <1>6, <1>13, <1>14, <1>15, <1>16, <1>17 DEF IInv, Queueing, Containing

-----------------------------------------------------------------------------
(* The theorems.                                                           *)

LEMMA Initially == Init => IInv
<1> SUFFICES ASSUME Init
             PROVE  IInv
  OBVIOUS
<1>1. docker \in [Containers -> {NoContainer} \cup Launched]
  BY DEF Init, Launched
<1>2. \A c \in Existing : docker[c].queue = None /\ docker[c].api \in Apis /\ docker[c].state = "running"
  BY DEF Init, Existing, NoContainer
<1>3. <<>> \in Seq(Requests)
  OBVIOUS
<1>4. NewQueue \in Counts
  BY DEF NewQueue, Counts
<1>5. 1 \in 0 .. MAX_PER_API_CONTAINERS /\ 1 # None
  BY LimitsAssumption, NoneAssumption
<1>6. TypeOK
  <2>1. API_CONTAINERS \in [Apis -> {None} \cup SUBSET Containers]
    BY RunningFinite DEF Init
  <2>2. DESIRED \in [Apis -> {None} \cup 0 .. MAX_PER_API_CONTAINERS]
    BY <1>5 DEF Init
  <2>3. outstanding \in [Queues -> Counts] /\ reqs \in [Queues -> Seq(Requests)]
    BY <1>3, <1>4 DEF Init
  <2> QED
    BY <1>1, <2>1, <2>2, <2>3 DEF Init, TypeOK, Counts
<1>7. \A q : UnderWay(q) = {}
  BY DEF Init, UnderWay
<1>8. Queueing
  <2>1. OutstandingCounted
    BY NoneAssumption DEF Init, OutstandingCounted
  <2> QED
    BY <2>1 DEF Init, Queueing, QueueExclusive, PoolFollowsQueue, CallsFollow
<1>9. QueuedCalls /\ Answered /\ OwnAnswer
  BY DEF Init, QueuedCalls, Answered, OwnAnswer, Free
<1>10. ListensToOwnQueue
  <2> SUFFICES ASSUME NEW a \in Apis, NEW c \in Running(a)
               PROVE  API_CONTAINERS[a] = Running(a) /\ API_CONTAINERS[a] # None /\ docker[c].queue = None
    BY DEF ListensToOwnQueue
  <2>1. Running(a) # None
    BY RunningFinite, NoneAssumption
  <2> QED
    BY <1>2, <2>1 DEF Init, Running
<1>11. Wanted
  <2> SUFFICES ASSUME NEW c \in Existing
               PROVE  DESIRED[docker[c].api] # None
    BY DEF Wanted
  <2>1. c \in Running(docker[c].api) /\ docker[c].api \in Apis
    BY <1>2 DEF Running
  <2> QED
    BY <1>5, <2>1 DEF Init
<1>12. Rounds /\ CapacityBound
  BY DEF Init, Rounds, CapacityBound
<1> QED
  BY <1>6, <1>8, <1>9, <1>10, <1>11, <1>12 DEF IInv, Containing

LEMMA Steps == IInv /\ [Next]_vars => IInv'
<1> SUFFICES ASSUME IInv, [Next]_vars
             PROVE  IInv'
  OBVIOUS
<1>1. CASE UNCHANGED vars
  <2>1. /\ QUEUES' = QUEUES /\ QUEUE_CACHE' = QUEUE_CACHE /\ outstanding' = outstanding /\ CONNS' = CONNS
        /\ call' = call /\ API_CONTAINERS' = API_CONTAINERS /\ DESIRED' = DESIRED /\ ndiff' = ndiff
        /\ docker' = docker /\ reqs' = reqs
    BY <1>1 DEF vars, queueVars, lists
  <2>2. TypeOK'
    BY <2>1 DEF IInv, TypeOK
  <2>3. Existing' = Existing /\ \A b \in Apis : Running(b)' = Running(b)
    BY <2>1 DEF Existing, Running
  <2>4. OutstandingCounted'
    BY <2>1 DEF IInv, Queueing, OutstandingCounted, UnderWay
  <2>5. QueueExclusive' /\ PoolFollowsQueue' /\ CallsFollow' /\ Answered' /\ OwnAnswer'
    BY <2>1 DEF IInv, Queueing, QueueExclusive, PoolFollowsQueue, CallsFollow, Answered, OwnAnswer
  <2>6. QueuedCalls'
    BY <2>1 DEF IInv, QueuedCalls, Waiting
  <2>7. Containing'
    BY <2>1, <2>3 DEF IInv, Containing, ListensToOwnQueue, Wanted, Rounds, CapacityBound
  <2> QED
    BY <2>2, <2>4, <2>5, <2>6, <2>7 DEF IInv, Queueing
<1>2. CASE Next
  BY <1>2, Post, TerminateOne, LaunchOne, OnRecv, OnTimeout, Maintain, Serve, ContainerExits DEF Next
<1> QED
  BY <1>1, <1>2

LEMMA Invariant == Spec => []IInv
BY Initially, Steps, PTL DEF Spec

\* The tables, pools, calls and containers have their types: no step mistakes a
\* missing entry (None) for a queue, a pool or a list.
THEOREM TypeCorrect == Spec => []TypeOK
<1>1. IInv => TypeOK
  BY DEF IInv
<1> QED
  BY <1>1, Invariant, PTL

\* However queues are released, cached and used again, connectors pooled, and calls
\* answered or given up: no queue has two owners, a pool leads to the queue of its
\* API, num_outstanding is right, and running containers are listed and listen.
THEOREM TablesAgree == Spec => []Bookkeeping
<1>1. IInv => Bookkeeping
  BY DEF IInv, Queueing, Containing, Bookkeeping
<1> QED
  BY <1>1, Invariant, PTL

\* Over a connector to a queue that was not released since, a caller gets the answer
\* of a container of its own API (conn_send_recv, on_recv).
THEOREM AnswersAreOwn == Spec => []OwnAnswer
<1>1. IInv => OwnAnswer
  BY DEF IInv
<1> QED
  BY <1>1, Invariant, PTL

\* Calls and rounds of maintenance together never run more than
\* MAX_PER_API_CONTAINERS containers of an API.
THEOREM WithinCapacity == Spec => []CapacityBound
<1>1. IInv => CapacityBound
  BY DEF IInv, Containing
<1> QED
  BY <1>1, Invariant, PTL
=============================================================================
