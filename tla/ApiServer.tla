----------------------------- MODULE ApiServer -----------------------------
(***************************************************************************)
(* JBoxAPI, the server of REST APIs (srvr_jbapi.py, api/, handlers/        *)
(* api_handler.py): one tornado thread that forwards HTTP calls to         *)
(* containers through queue devices, and every five minutes adapts the     *)
(* number of containers of each API to its load.                           *)
(*                                                                         *)
(* A queue belongs to one API at a time.  When the last container of an    *)
(* API is gone its queue goes to a cache and the next API takes it from    *)
(* there, whatever still travels through it.  A connector is a socket to a *)
(* queue that a pool keeps for the next call of its API.                   *)
(*                                                                         *)
(* mean is the running mean of the queue length in quarters, rounded      *)
(* down.  Container names, calls and queue devices are slots: one that no  *)
(* part of the system refers to stands for a new one.                      *)
(***************************************************************************)
EXTENDS Integers, Sequences, FiniteSets

CONSTANTS
  Apis, Containers, Calls, Queues,
  None,                    \* no queue, no pool, no list, no caller
  MAX_PER_API_CONTAINERS, MAX_CONNS, BUFFER_SZ,
  MaxReqs                  \* bound: requests that wait in one queue device

ASSUME NoneAssumption ==
  None \notin Queues \cup Calls \cup Nat /\ \A list \in SUBSET Containers : list # None
\* Of slots, there are finitely many.
ASSUME FiniteAssumption == IsFiniteSet(Calls) /\ IsFiniteSet(Containers)
ASSUME LimitsAssumption ==
  /\ MAX_PER_API_CONTAINERS \in Nat \ {0} /\ MAX_CONNS \in Nat /\ BUFFER_SZ \in Nat \ {0}
  /\ MaxReqs \in Nat

VARIABLES
  QUEUES,            \* the queue of each API, None if it has none
  QUEUE_CACHE,       \* queues that wait to be used again
  outstanding,       \* per queue: num_outstanding, mean_outstanding, and as history
                     \* the calls under way when the queue was last reset
  CONNS,             \* the pool of each API: a sequence of connectors, or None
  call,              \* the calls under way and their connectors
  API_CONTAINERS,    \* the containers listed for each API, or None
  DESIRED,           \* DESIRED_CONTAINER_COUNTS, or None
  ndiff,             \* containers that maintenance has yet to end (> 0) or start (< 0)
  docker,            \* the containers in Docker and the queue each listens to
  reqs               \* the requests inside each queue device

queueVars == <<QUEUES, QUEUE_CACHE, outstanding>>
lists     == <<API_CONTAINERS, DESIRED>>
vars      == <<queueVars, CONNS, call, lists, ndiff, docker, reqs>>

Terminate   == ":terminate"
Commands    == {"serve", Terminate}
Requests    == [cmd : Commands, call : Calls \cup {None}]
\* A connector is known by its queue; stale: the queue was released since.
Connectors  == [queue : Queues, stale : BOOLEAN]
Free        == [state |-> "free"]
NoContainer == [state |-> "absent"]

CallsMade   == [state : {"sent", "answered"}, api : Apis, cmd : Commands, conn : Connectors,
                by : Containers \cup {None}, of : Apis \cup {None}]
Launched    == [state : {"running", "exited"}, api : Apis, queue : Queues \cup {None}]

TypeOK ==
  /\ QUEUES \in [Apis -> Queues \cup {None}]
  /\ QUEUE_CACHE \subseteq Queues
  /\ outstanding \in [Queues -> [num : Int, mean : Int, lost : Nat]]
  /\ CONNS \in [Apis -> {None} \cup Seq(Connectors)]
  /\ call \in [Calls -> {Free} \cup CallsMade]
  /\ API_CONTAINERS \in [Apis -> {None} \cup SUBSET Containers]
  /\ DESIRED \in [Apis -> {None} \cup 0 .. MAX_PER_API_CONTAINERS]
  /\ ndiff \in [Apis -> Int]
  /\ docker \in [Containers -> {NoContainer} \cup Launched]
  /\ reqs \in [Queues -> Seq(Requests)]

NewQueue == [num |-> 0, mean |-> 0, lost |-> 0]

Existing    == {c \in Containers : docker[c].state # "absent"}
Running(a)  == {c \in Existing : docker[c].state = "running" /\ docker[c].api = a}

\* The server starts with empty tables and new queue devices.  Containers of
\* its predecessor may still run: they are listed, but they listen to queues
\* that are no more.
Init ==
  /\ docker \in [Containers -> {NoContainer} \cup [state : {"running"}, api : Apis, queue : {None}]]
  /\ \A a \in Apis : Cardinality(Running(a)) <= MAX_PER_API_CONTAINERS
  /\ API_CONTAINERS = [a \in Apis |-> IF Running(a) = {} THEN None ELSE Running(a)]
  /\ DESIRED = [a \in Apis |-> IF Running(a) = {} THEN None ELSE 1]
  /\ QUEUES = [a \in Apis |-> None] /\ QUEUE_CACHE = {}
  /\ outstanding = [q \in Queues |-> NewQueue]
  /\ CONNS = [a \in Apis |-> None]
  /\ call = [k \in Calls |-> Free]
  /\ ndiff = [a \in Apis |-> 0]
  /\ reqs = [q \in Queues |-> <<>>]

UnderWay(q) == {k \in Calls : call[k] # Free /\ call[k].conn.queue = q}
FreeCalls   == {k \in Calls : call[k] = Free}
\* The thread is not in the middle of maintenance.
Idle        == \A a \in Apis : ndiff[a] = 0

-----------------------------------------------------------------------------
(* Queues and connectors.                                                  *)

incr_outstanding(counts, q, n) ==
  LET old == counts[q]
      c   == old.num + n
  IN  [counts EXCEPT ![q] = [num |-> c, mean |-> (old.mean + 16 * c) \div 5, lost |-> old.lost]]

\* The queue of a, or else one of the cache, or else a new one.
get_queue(a, q) ==
  /\ IF QUEUES[a] # None THEN q = QUEUES[a]
     ELSE IF QUEUE_CACHE # {} THEN q \in QUEUE_CACHE
     ELSE \A b \in Apis : QUEUES[b] # q
  /\ QUEUES' = [QUEUES EXCEPT ![a] = q]
  /\ QUEUE_CACHE' = QUEUE_CACHE \ {q}

\* A queue that is handed out anew starts to count from nought.
reset(a, q) ==
  IF QUEUES[a] = q THEN outstanding
  ELSE [outstanding EXCEPT ![q] = [NewQueue EXCEPT !.lost = Cardinality(UnderWay(q))]]

\* A connector from the pool, the last put there, or a new one to the queue.
Pooled(a) == CONNS[a] \notin {None, <<>>}
get_conn(a, q) == IF Pooled(a) THEN CONNS[a][Len(CONNS[a])] ELSE [queue |-> q, stale |-> FALSE]
pop_conn(a) ==
  CONNS' = [CONNS EXCEPT ![a] = IF Pooled(a) THEN SubSeq(@, 1, Len(@) - 1) ELSE <<>>]

\* Mutant: a call that timed out is not counted down.
release_uncounted(k, hasErrors) ==
  /\ outstanding' = IF hasErrors THEN outstanding ELSE incr_outstanding(outstanding, call[k].conn.queue, -1)
  /\ call' = [call EXCEPT ![k] = Free]
  /\ UNCHANGED <<QUEUES, QUEUE_CACHE, CONNS>>

\* The end of a call gives its connector back, if its API has a pool by now.
release(k, hasErrors) ==
  LET a == call[k].api IN
  /\ outstanding' = incr_outstanding(outstanding, call[k].conn.queue, -1)
  /\ CONNS' = IF CONNS[a] # None /\ ~hasErrors /\ Len(CONNS[a]) < MAX_CONNS
              THEN [CONNS EXCEPT ![a] = Append(@, call[k].conn)] ELSE CONNS
  /\ call' = [call EXCEPT ![k] = Free]
  /\ UNCHANGED <<QUEUES, QUEUE_CACHE>>

\* Bounds of the model.
HasRoom(a, q) == FreeCalls # {} /\ Len(reqs[get_conn(a, q).queue]) < MaxReqs

Overloaded(a, q) == reset(a, q)[get_conn(a, q).queue].mean >= 4 * BUFFER_SZ

\* The caller is turned away, and the connector is not given back.
overload(a, q) ==
  /\ Overloaded(a, q)
  /\ outstanding' = reset(a, q) /\ pop_conn(a)
  /\ UNCHANGED <<call, reqs>>

conn_send_recv(a, cmd, q) ==
  LET conn == get_conn(a, q) IN
  /\ ~Overloaded(a, q)
  /\ outstanding' = incr_outstanding(reset(a, q), conn.queue, 1) /\ pop_conn(a)
  /\ \E k \in FreeCalls :
       /\ call' = [call EXCEPT ![k] = [state |-> "sent", api |-> a, cmd |-> cmd, conn |-> conn,
                                       by |-> None, of |-> None]]
       /\ reqs' = [reqs EXCEPT ![conn.queue] = Append(@, [cmd |-> cmd, call |-> k])]

-----------------------------------------------------------------------------
(* HTTP calls.                                                             *)

deregister_api_container(a, c) ==
  API_CONTAINERS' = [API_CONTAINERS EXCEPT ![a] = IF @ = None THEN {} ELSE @ \ {c}]

\* Slots that stand for new containers: nothing refers to them.
NewContainers ==
  {c \in Containers \ Existing :
     /\ \A b \in Apis : API_CONTAINERS[b] = None \/ c \notin API_CONTAINERS[b]
     /\ \A k \in Calls : call[k] = Free \/ call[k].by # c}

create_new(a, q) ==
  \E c \in NewContainers :
    /\ docker' = [docker EXCEPT ![c] = [state |-> "running", api |-> a, queue |-> q]]
    /\ API_CONTAINERS' = [API_CONTAINERS EXCEPT ![a] = (IF @ = None THEN {} ELSE @) \cup {c}]
    /\ DESIRED' = [DESIRED EXCEPT ![a] = IF @ = None THEN 1 ELSE @]

\* Two names on the list pass for a container; of one, Docker is asked,
\* which also counts a container that has exited.
ContainerListed(a) ==
  /\ API_CONTAINERS[a] # None
  /\ \/ Cardinality(API_CONTAINERS[a]) > 1
     \/ API_CONTAINERS[a] # {} /\ API_CONTAINERS[a] \subseteq Existing

ensure_container_available(a, q) ==
  IF ContainerListed(a) THEN UNCHANGED <<lists, docker>> ELSE create_new(a, q)

post(a) ==
  /\ Idle
  /\ \E q \in Queues :
       /\ get_queue(a, q)
       /\ HasRoom(a, q)
       /\ ensure_container_available(a, q)
       /\ overload(a, q) \/ conn_send_recv(a, "serve", q)
  /\ UNCHANGED <<ndiff>>

\* The answer to a terminate message has the container deleted, unless it is
\* no longer there.
on_recv(k) ==
  LET c == call[k].by IN
  /\ Idle /\ call[k].state = "answered"
  /\ release(k, FALSE)
  /\ IF call[k].cmd = Terminate /\ c \in Existing
     THEN /\ docker' = [docker EXCEPT ![c] = NoContainer]
          /\ deregister_api_container(call[k].of, c)
     ELSE UNCHANGED <<docker, API_CONTAINERS>>
  /\ UNCHANGED <<DESIRED, ndiff, reqs>>

\* The caller gives up; its request stays where it is.
on_timeout(k) ==
  /\ Idle /\ call[k] # Free
  /\ release(k, TRUE)
  /\ reqs' = [q \in Queues |-> [i \in DOMAIN reqs[q] |->
                IF reqs[q][i].call = k THEN [reqs[q][i] EXCEPT !.call = None] ELSE reqs[q][i]]]
  /\ UNCHANGED <<lists, ndiff, docker>>

-----------------------------------------------------------------------------
(* Maintenance.                                                            *)

LeastOf(m, n) == IF m < n THEN m ELSE n
GreatestOf(m, n) == IF m > n THEN m ELSE n

\* Mutant: the increment is not limited.
calc_unlimited(a) ==
  LET mean == outstanding[QUEUES[a]].mean IN
  IF mean > 4 THEN DESIRED[a] + mean \div 4 ELSE IF mean < 1 THEN 0 ELSE GreatestOf(DESIRED[a], 1)

\* Mutant: an API keeps its last container.
calc_keep_last(a) == GreatestOf(DESIRED[a], 1)

calc_desired(a) ==
  LET mean == outstanding[QUEUES[a]].mean
      now  == DESIRED[a]
  IN  IF mean > 4 THEN LeastOf(now + mean \div 4, MAX_PER_API_CONTAINERS)
      ELSE IF mean < 1 THEN 0
      ELSE IF mean < 2 /\ now > 1 THEN now - 1
      ELSE GreatestOf(now, 1)

\* The APIs in done, and first if it has containers and no queue, which
\* raises an exception.
calc_desired_container_counts(done, first) ==
  /\ DESIRED' = [a \in Apis |-> IF a \in done THEN calc_desired(a) ELSE IF a = first THEN 0 ELSE DESIRED[a]]
  /\ outstanding' = [q \in Queues |-> IF outstanding[q].num = 0 /\ \E a \in done : QUEUES[a] = q
                                      THEN incr_outstanding(outstanding, q, 0)[q] ELSE outstanding[q]]

\* Mutant: the pool outlives its queue.
release_queues_only(idle) ==
  LET gone == {QUEUES[a] : a \in idle} IN
  /\ QUEUES' = [a \in Apis |-> IF a \in idle THEN None ELSE QUEUES[a]]
  /\ QUEUE_CACHE' = QUEUE_CACHE \cup gone
  /\ UNCHANGED <<CONNS, call>>

release_queues(idle) ==
  LET gone == {QUEUES[a] : a \in idle} IN
  /\ QUEUES' = [a \in Apis |-> IF a \in idle THEN None ELSE QUEUES[a]]
  /\ QUEUE_CACHE' = QUEUE_CACHE \cup gone
  /\ CONNS' = [a \in Apis |-> IF a \in idle THEN None ELSE CONNS[a]]
  /\ call' = [k \in Calls |-> IF \E q \in gone : k \in UnderWay(q)
                              THEN [call[k] EXCEPT !.conn = [@ EXCEPT !.stale = TRUE]] ELSE call[k]]

\* Containers that do not run are deleted, those that have not answered for
\* long (which ones, is left open) are killed and deleted, the others listed.
refresh_container_list(unresponsive) ==
  /\ API_CONTAINERS' = [a \in Apis |-> IF Running(a) \subseteq unresponsive THEN None
                                       ELSE Running(a) \ unresponsive]
  /\ docker' = [c \in Containers |-> IF c \in unresponsive \/ docker[c].state # "running"
                                     THEN NoContainer ELSE docker[c]]

maintain(unresponsive) ==
  LET listed == {a \in Apis : ~(Running(a) \subseteq unresponsive)}
      queueless == {a \in listed : QUEUES[a] = None}
  IN
  /\ Idle
  /\ refresh_container_list(unresponsive)
  /\ release_queues({a \in Apis \ listed : QUEUES[a] # None})
  /\ \/ /\ queueless = {}
        /\ calc_desired_container_counts(listed, None)
        /\ ndiff' = [a \in Apis |-> IF a \in listed THEN Cardinality(API_CONTAINERS'[a]) - DESIRED'[a] ELSE 0]
     \/ \E first \in queueless, done \in SUBSET (listed \ queueless) :
          calc_desired_container_counts(done, first) /\ UNCHANGED ndiff
  /\ UNCHANGED <<reqs>>

\* When the model runs out of calls, requests or containers, maintenance ends: a bound.
\* With too many calls outstanding there is nobody to tell: on_overload is
\* None, the call of it raises an exception and maintenance ends.
terminate_one(a) ==
  LET q == QUEUES[a] IN
  /\ ndiff[a] > 0
  /\ \/ overload(a, q) /\ ndiff' = [b \in Apis |-> 0]
     \/ HasRoom(a, q) /\ conn_send_recv(a, Terminate, q) /\ ndiff' = [ndiff EXCEPT ![a] = @ - 1]
     \/ ~HasRoom(a, q) /\ ndiff' = [b \in Apis |-> 0] /\ UNCHANGED <<outstanding, CONNS, call, reqs>>
  /\ UNCHANGED <<QUEUES, QUEUE_CACHE, lists, docker>>

launch_one(a) ==
  /\ ndiff[a] < 0
  /\ \/ create_new(a, QUEUES[a]) /\ ndiff' = [ndiff EXCEPT ![a] = @ + 1]
     \/ NewContainers = {} /\ ndiff' = [b \in Apis |-> 0] /\ UNCHANGED <<lists, docker>>
  /\ UNCHANGED <<queueVars, CONNS, call, reqs>>

-----------------------------------------------------------------------------
(* The containers and time.                                                *)

Busy(c) ==
  /\ c \in Existing /\ docker[c].state = "running" /\ docker[c].queue # None
  /\ reqs[docker[c].queue] # <<>>

\* Takes the next request of the queue and answers it; a container ends
\* after the answer to a terminate message.
serve(c) ==
  /\ Busy(c)
  /\ LET q == docker[c].queue
         r == Head(reqs[q])
     IN  /\ docker' = [docker EXCEPT ![c] = [@ EXCEPT !.state = IF r.cmd = Terminate THEN "exited" ELSE "running"]]
         /\ reqs' = [reqs EXCEPT ![q] = Tail(@)]
         /\ call' = IF r.call = None THEN call
                    ELSE [call EXCEPT ![r.call] = [@ EXCEPT !.state = "answered", !.by = c, !.of = docker[c].api]]
  /\ UNCHANGED <<queueVars, CONNS, lists, ndiff>>

\* A container fails, with the request it works on or without one.
container_exits(c) ==
  /\ c \in Existing /\ docker[c].state = "running"
  /\ docker' = [docker EXCEPT ![c] = [@ EXCEPT !.state = "exited"]]
  /\ \/ UNCHANGED reqs
     \/ Busy(c) /\ reqs' = [reqs EXCEPT ![docker[c].queue] = Tail(@)]
  /\ UNCHANGED <<queueVars, CONNS, call, lists, ndiff>>

Next ==
  \/ \E a \in Apis : post(a) \/ terminate_one(a) \/ launch_one(a)
  \/ \E k \in Calls : on_recv(k) \/ on_timeout(k)
  \/ \E unresponsive \in SUBSET Existing : maintain(unresponsive)
  \/ \E c \in Containers : serve(c) \/ container_exits(c)

Spec == Init /\ [][Next]_vars

\* Timers fire and housekeeping recurs; a container that runs serves the
\* requests it gets.
FairSpec ==
  /\ Spec
  /\ WF_vars(maintain({}))
  /\ \A a \in Apis : WF_vars(terminate_one(a)) /\ WF_vars(launch_one(a))
  /\ \A k \in Calls : WF_vars(on_recv(k)) /\ WF_vars(on_timeout(k))
  /\ \A c \in Containers : WF_vars(serve(c))

-----------------------------------------------------------------------------
(* Properties.                                                             *)

\* A caller gets the answer of a container of another API only through a
\* connector that is older than the last release of its queue: a queue that is
\* used again may still carry requests of its former API, and a connector that
\* was busy meanwhile ends up in the pool of that API with the queue of another.
OwnAnswer ==
  \A k \in Calls : call[k].state = "answered" /\ ~call[k].conn.stale => call[k].of = call[k].api

\* A queue is that of one API or waits in the cache, never both: release_queue
\* and get_queue move it from one table to the other.
QueueExclusive ==
  \A a \in Apis : QUEUES[a] # None =>
     QUEUES[a] \notin QUEUE_CACHE /\ \A b \in Apis \ {a} : QUEUES[b] # QUEUES[a]

\* The other connectors of a pool lead to the queue of their API.
PoolFollowsQueue ==
  \A a \in Apis : CONNS[a] # None =>
     QUEUES[a] # None /\ \A i \in DOMAIN CONNS[a] : CONNS[a][i].stale \/ CONNS[a][i].queue = QUEUES[a]

\* num_outstanding is the number of calls under way, less those that were under
\* way when the queue was handed to its present API and that will count down.
OutstandingCounted ==
  \A q \in Queues : (q \in QUEUE_CACHE \/ \E a \in Apis : QUEUES[a] = q) =>
     outstanding[q].num = Cardinality(UnderWay(q)) - outstanding[q].lost

\* A container that this server has started listens to the queue of its API as
\* long as it runs, and is listed: no queue is released under a container.
ListensToOwnQueue ==
  \A a \in Apis : \A c \in Running(a) :
     /\ API_CONTAINERS[a] # None /\ c \in API_CONTAINERS[a]
     /\ docker[c].queue \in {QUEUES[a], None}

\* What the server believes, over any sequence of calls, answers, timeouts and
\* rounds of maintenance: its tables, pools, counts and lists agree.
Bookkeeping == QueueExclusive /\ PoolFollowsQueue /\ OutstandingCounted /\ ListensToOwnQueue

\* Maintenance and calls together run no more containers of an API than
\* api.numapilocalmax, except that those of a former server still count.
CapacityBound == \A a \in Apis : Cardinality(Running(a)) <= MAX_PER_API_CONTAINERS

\* When no client calls any more, and the five minutes between two rounds of
\* housekeeping are enough for the calls under way to end, the containers end
\* and housekeeping removes them.  (Messages to terminate count as load: a round
\* that comes too early starts the containers again that the last one ended.)
\* Containers of a former server do not hear of it.
Quiet == \A k \in Calls : call[k] = Free \/ call[k].cmd = Terminate
Patient == (\E unresponsive \in SUBSET Existing : maintain(unresponsive)) => FreeCalls = Calls
IdleApiStops ==
  <>[]Quiet /\ <>[][Patient]_vars => []<>(Existing = {} \/ \E c \in Existing : docker[c].queue = None)
=============================================================================
