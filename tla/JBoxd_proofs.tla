---------------------------- MODULE JBoxd_proofs ----------------------------
(***************************************************************************)
(* Proofs about JBoxd, for every set of jobs, plugins and clients: type    *)
(* correctness, one thread per signature, the discipline of the REP        *)
(* socket, and the refinement of SingleFlight.                             *)
(***************************************************************************)
EXTENDS JBoxd, TLAPS

\* What the main thread knows about the responder at each of its steps: it
\* polls the REP socket only when no responder is scheduled, and when it has
\* found a request the request stays there, and no responder is scheduled,
\* until it schedules one itself.
MainKnows ==
  /\ registered => main = "poll" /\ ReqResp \notin ACTIVE
  /\ rrreq => ReqResp \notin ACTIVE /\ rep # <<>>
  /\ main = "reply" => rrreq
  /\ main = "offline" => inbox # <<>>

\* The inductive invariant.
IInv ==
  /\ TypeOK
  /\ OneThreadPerSign
  /\ MainKnows
  /\ ResponderNeverBlocks

Args == Plugins \cup Clients \cup {None}

-----------------------------------------------------------------------------
(* Lemmas about the operators.                                             *)

\* The tasks of one maintenance command are a sequence of tasks
\* (schedule_housekeeping).
LEMMA PeriodicTasksType ==
  ASSUME NEW is_leader \in BOOLEAN
  PROVE  PeriodicTasks(is_leader) \in Seq(Tasks)
<1> DEFINE of(feature, plugins) ==
             [i \in DOMAIN plugins |-> [plugin |-> plugins[i], feature |-> feature]]
<1>1. ASSUME NEW f \in Features, NEW s \in Seq(Plugins)
      PROVE  of(f, s) \in Seq(Tasks)
  <2>1. \A i \in DOMAIN s : s[i] \in Plugins
    BY <1>1
  <2>2. of(f, s) \in [DOMAIN s -> Tasks]
    BY <2>1, <1>1 DEF Tasks
  <2> QED BY <2>2, <1>1
<1>2. of(Node, NodeTasks) \in Seq(Tasks) /\ of(Cluster, ClusterTasks) \in Seq(Tasks)
  BY <1>1, PluginsAssumption DEF Features
<1>3. PeriodicTasks(is_leader)
        = of(Node, NodeTasks) \o (IF is_leader THEN of(Cluster, ClusterTasks) ELSE <<>>)
  BY DEF PeriodicTasks
<1> HIDE DEF of
<1> QED BY <1>2, <1>3

\* Scheduling either changes nothing, because the signature is in ACTIVE, or
\* starts one idle thread of that name (schedule_thread).
LEMMA ScheduleEffect ==
  ASSUME NEW s, NEW a, schedule_thread(s, a)
  PROVE  \/ s \in ACTIVE /\ UNCHANGED threadVars
         \/ /\ s \notin ACTIVE
            /\ \E t \in Threads :
                 /\ Name(t) = s /\ tpc[t] = "none"
                 /\ ACTIVE' = ACTIVE \cup {s}
                 /\ tpc' = [tpc EXCEPT ![t] = "running"]
                 /\ arg' = [arg EXCEPT ![t] = a]
<1>1. CASE is_duplicate(s) /\ UNCHANGED threadVars
  BY <1>1 DEF is_duplicate
<1>2. CASE ~is_duplicate(s) /\ Launch(s, a)
  <2> DEFINE idle == {t \in Threads : Name(t) = s /\ tpc[t] = "none"}
             t == CHOOSE u \in idle : TRUE
  <2>1. idle # {} /\ ACTIVE' = ACTIVE \cup {s}
        /\ tpc' = [tpc EXCEPT ![t] = "running"] /\ arg' = [arg EXCEPT ![t] = a]
    BY <1>2 DEF Launch
  <2>2. t \in idle
    BY <2>1
  <2> HIDE DEF t
  <2> QED BY <1>2, <2>1, <2>2 DEF is_duplicate
<1> QED BY <1>1, <1>2 DEF schedule_thread

\* Scheduling keeps the types of the thread table and keeps ACTIVE in step
\* with the live threads; only a thread of that name starts.
LEMMA ScheduleInvariant ==
  ASSUME TypeOK, OneThreadPerSign, NEW s \in Signs, NEW a \in Args,
         schedule_thread(s, a)
  PROVE  /\ ACTIVE' \subseteq Signs
         /\ tpc' \in [Threads -> {"none", "running", "serving", "done"}]
         /\ arg' \in [Threads -> Args]
         /\ OneThreadPerSign'
         /\ ACTIVE' = ACTIVE \cup {s}
         /\ \A t \in Threads : Name(t) # s => tpc'[t] = tpc[t]
<1>1. CASE s \in ACTIVE /\ UNCHANGED threadVars
  BY <1>1 DEF TypeOK, OneThreadPerSign, threadVars, Live, Args
<1>2. CASE /\ s \notin ACTIVE
           /\ \E t \in Threads :
                 /\ Name(t) = s /\ tpc[t] = "none"
                 /\ ACTIVE' = ACTIVE \cup {s}
                 /\ tpc' = [tpc EXCEPT ![t] = "running"]
                 /\ arg' = [arg EXCEPT ![t] = a]
  <2>1. PICK t \in Threads : /\ Name(t) = s /\ tpc[t] = "none"
                             /\ ACTIVE' = ACTIVE \cup {s}
                             /\ tpc' = [tpc EXCEPT ![t] = "running"]
                             /\ arg' = [arg EXCEPT ![t] = a]
    BY <1>2
  <2>2. /\ tpc' \in [Threads -> {"none", "running", "serving", "done"}]
        /\ arg' \in [Threads -> Args]
    BY <2>1 DEF TypeOK, Args
  <2>3. tpc'[t] = "running" /\ \A u \in Threads : u # t => tpc'[u] = tpc[u]
    BY <2>1 DEF TypeOK
  <2>4. OneThreadPerSign'
    <3>1. \A u \in Threads : Name(u) = s => tpc[u] = "none"
      BY <1>2 DEF OneThreadPerSign, Live
    <3>2. \A x \in ACTIVE' : \E u \in Threads : tpc'[u] # "none" /\ Name(u) = x
      BY <2>1, <2>3 DEF OneThreadPerSign, Live
    <3>3. \A u \in Threads : tpc'[u] # "none" => Name(u) \in ACTIVE'
      BY <2>1, <2>3 DEF OneThreadPerSign, Live
    <3>4. \A u, v \in Threads :
             tpc'[u] # "none" /\ tpc'[v] # "none" /\ Name(u) = Name(v) => u = v
      BY <2>1, <2>3, <3>1 DEF OneThreadPerSign, Live
    <3> QED BY <3>2, <3>3, <3>4 DEF OneThreadPerSign, Live
  <2> QED BY <2>1, <2>2, <2>3, <2>4 DEF TypeOK
<1> QED BY <1>1, <1>2, ScheduleEffect

-----------------------------------------------------------------------------
(* The steps of the engines and of the threads.                            *)

\* An engine's step touches the sockets only (send, sendrecv).
LEMMA ClientStep ==
  ASSUME IInv,
         \/ \E cmd \in Commands : send(cmd)
         \/ \E c \in Clients : sendrecv(c) \/ sendrecv_timeout(c)
  PROVE  IInv'
<1>1. ASSUME NEW cmd \in Commands, send(cmd)
      PROVE  IInv'
  BY <1>1 DEF IInv, TypeOK, OneThreadPerSign, MainKnows, ResponderNeverBlocks, Live,
              send, mainVars, threadVars
<1>2. ASSUME NEW c \in Clients, sendrecv(c)
      PROVE  IInv'
  BY <1>2, SMTT(20) DEF IInv, TypeOK, OneThreadPerSign, MainKnows, ResponderNeverBlocks, Live,
              sendrecv, mainVars, threadVars
<1>3. ASSUME NEW c \in Clients, sendrecv_timeout(c)
      PROVE  IInv'
  <2>1. rep' \in Seq(Clients \cup {None}) /\ (rep # <<>> => rep' # <<>>)
    BY <1>3 DEF IInv, TypeOK, sendrecv_timeout
  <2>2. arg' \in [Threads -> Plugins \cup Clients \cup {None}]
    BY <1>3 DEF IInv, TypeOK, sendrecv_timeout
  <2>3. waiting' \subseteq Clients
        /\ UNCHANGED <<main, registered, rrreq, todo, inbox, ACTIVE, tpc>>
    BY <1>3 DEF IInv, TypeOK, sendrecv_timeout, mainVars
  <2> QED BY <2>1, <2>2, <2>3 DEF IInv, TypeOK, OneThreadPerSign, MainKnows,
                                  ResponderNeverBlocks, Live
<1> QED BY <1>1, <1>2, <1>3

\* A thread's step concerns its own signature, and only the responder's
\* touches the REP socket (complete, respond_recv, respond_send,
\* finish_thread).
LEMMA ThreadStep ==
  ASSUME IInv, NEW t \in Threads, thread(t)
  PROVE  IInv'
<1> USE DEF IInv, TypeOK, mainVars, clientVars
<1>1. CASE complete(t)
  <2>1. Live(t) /\ \A u \in Threads : Live(u)' = Live(u)
    BY <1>1 DEF complete, Live
  <2>2. TypeOK'
    BY <1>1 DEF complete
  <2>3. OneThreadPerSign' /\ MainKnows'
    BY <1>1, <2>1 DEF complete, OneThreadPerSign, MainKnows
  <2>4. ResponderNeverBlocks'
    BY <1>1 DEF complete, ResponderNeverBlocks
  <2> QED BY <2>2, <2>3, <2>4
<1>2. CASE respond_recv(t)
  <2>1. Live(t) /\ \A u \in Threads : Live(u)' = Live(u)
    BY <1>2 DEF respond_recv, Live
  <2>2. ReqResp \in ACTIVE
    BY <1>2, <2>1 DEF OneThreadPerSign, respond_recv
  <2>3. TypeOK'
    <3>1. Head(rep) \in Clients \cup {None} /\ Tail(rep) \in Seq(Clients \cup {None})
      BY <1>2 DEF respond_recv
    <3> QED BY <1>2, <3>1 DEF respond_recv
  <2>4. OneThreadPerSign' /\ MainKnows'
    BY <1>2, <2>1, <2>2 DEF respond_recv, OneThreadPerSign, MainKnows
  <2>5. ResponderNeverBlocks'
    BY <1>2 DEF respond_recv, ResponderNeverBlocks, OneThreadPerSign, Live
  <2> QED BY <2>3, <2>4, <2>5
<1>3. CASE respond_send(t)
  <2>1. Live(t) /\ \A u \in Threads : Live(u)' = Live(u)
    BY <1>3 DEF respond_send, Live
  <2>2. TypeOK'
    BY <1>3 DEF respond_send
  <2>3. OneThreadPerSign' /\ MainKnows'
    BY <1>3, <2>1 DEF respond_send, OneThreadPerSign, MainKnows
  <2>4. ResponderNeverBlocks'
    BY <1>3 DEF respond_send, ResponderNeverBlocks
  <2> QED BY <2>2, <2>3, <2>4
<1>4. CASE finish_thread(t)
  <2>1. Live(t) /\ ~Live(t)' /\ \A u \in Threads : u # t => Live(u)' = Live(u)
    BY <1>4 DEF finish_thread, Live
  <2>2. TypeOK'
    BY <1>4 DEF finish_thread
  <2>3. OneThreadPerSign' /\ MainKnows'
    BY <1>4, <2>1 DEF finish_thread, OneThreadPerSign, MainKnows
  <2>4. ResponderNeverBlocks'
    BY <1>4 DEF finish_thread, ResponderNeverBlocks
  <2> QED BY <2>2, <2>3, <2>4
<1> QED BY <1>1, <1>2, <1>3, <1>4 DEF thread

-----------------------------------------------------------------------------
(* The steps of the main thread.                                           *)

\* When the main thread schedules anything but the responder, what it knows
\* of the REP socket stays true (process_offline, schedule_housekeeping).
LEMMA MainStep ==
  ASSUME IInv, run
  PROVE  IInv'
<1> USE DEF IInv, TypeOK, threadVars, clientVars
<1>0. ReqResp \in Signs /\ None \in Args
      /\ \A s \in Jobs \cup Features : s \in Signs /\ s # ReqResp
  BY SignsAssumption DEF Signs, Args, Features, ReqResp, Node, Cluster
<1>1. CASE poll
  BY <1>1 DEF poll, is_duplicate, OneThreadPerSign, MainKnows, ResponderNeverBlocks, Live
<1>2. CASE poll_return
  BY <1>2 DEF poll_return, OneThreadPerSign, MainKnows, ResponderNeverBlocks, Live
<1>3. CASE process_offline
  <2>0. /\ main = "offline" /\ ~registered
        /\ inbox' = Tail(inbox) /\ inbox' \in Seq(Commands)
        /\ UNCHANGED <<registered, rrreq, rep, waiting>>
    BY <1>3 DEF process_offline, MainKnows
  <2>1. CASE /\ Head(inbox) \in Jobs
             /\ schedule_thread(Head(inbox), None)
             /\ main' = after_offline
             /\ UNCHANGED todo
    <3> DEFINE s == Head(inbox)
    <3>1. s \in Signs /\ s # ReqResp
      BY <2>1, <1>0
    <3> HIDE DEF s
    <3>2. /\ ACTIVE' \subseteq Signs
          /\ tpc' \in [Threads -> {"none", "running", "serving", "done"}]
          /\ arg' \in [Threads -> Args]
          /\ OneThreadPerSign'
          /\ ACTIVE' = ACTIVE \cup {s}
          /\ \A t \in Threads : Name(t) # s => tpc'[t] = tpc[t]
      BY <2>1, <3>1, <1>0, ScheduleInvariant DEF s
    <3>3. main' \in {"reply", "check"} /\ (main' = "reply" => rrreq)
      BY <2>1 DEF after_offline
    <3>4. TypeOK'
      BY <2>0, <2>1, <3>2, <3>3 DEF Args
    <3>5. MainKnows' /\ ResponderNeverBlocks'
      BY <2>0, <3>1, <3>2, <3>3 DEF MainKnows, ResponderNeverBlocks
    <3> QED BY <3>2, <3>4, <3>5
  <2>2. CASE /\ Head(inbox) \in Maintenance
             /\ \/ todo' = PeriodicTasks(Head(inbox) = "maintain_leader")
                \/ todo' = <<>>
             /\ main' = "house"
             /\ UNCHANGED threadVars
    <3>1. todo' \in Seq(Tasks)
      <4> DEFINE is_leader == Head(inbox) = "maintain_leader"
      <4>1. is_leader \in BOOLEAN
        OBVIOUS
      <4> HIDE DEF is_leader
      <4>2. PeriodicTasks(is_leader) \in Seq(Tasks)
        BY <4>1, PeriodicTasksType
      <4>3. <<>> \in Seq(Tasks)
        OBVIOUS
      <4>4. todo' = PeriodicTasks(is_leader) \/ todo' = <<>>
        BY <2>2 DEF is_leader
      <4> QED BY <4>2, <4>3, <4>4
    <3> QED BY <2>0, <2>2, <3>1 DEF OneThreadPerSign, MainKnows, ResponderNeverBlocks, Live
  <2> QED BY <1>3, <2>1, <2>2 DEF process_offline
<1>4. CASE schedule_housekeeping
  <2>0. /\ main = "house" /\ ~registered
        /\ UNCHANGED <<registered, rrreq, inbox, rep, waiting>>
    BY <1>4 DEF schedule_housekeeping, MainKnows
  <2>1. CASE /\ todo = <<>>
             /\ main' = after_offline
             /\ UNCHANGED <<todo, threadVars>>
    BY <2>0, <2>1 DEF after_offline, OneThreadPerSign, MainKnows, ResponderNeverBlocks, Live
  <2>2. CASE /\ todo # <<>>
             /\ schedule_thread(Head(todo).feature, Head(todo).plugin)
             /\ todo' = Tail(todo)
             /\ UNCHANGED main
    <3> DEFINE s == Head(todo).feature
               a == Head(todo).plugin
    <3>1. s \in Features /\ a \in Args /\ todo' \in Seq(Tasks)
      <4>1. Head(todo) \in Tasks /\ Tail(todo) \in Seq(Tasks)
        BY <2>2
      <4>2. \A x \in Tasks : x.feature \in Features /\ x.plugin \in Plugins
        BY DEF Tasks
      <4> QED BY <2>2, <4>1, <4>2 DEF Args
    <3>2. s \in Signs /\ s # ReqResp
      BY <3>1, <1>0
    <3> HIDE DEF s, a
    <3>3. /\ ACTIVE' \subseteq Signs
          /\ tpc' \in [Threads -> {"none", "running", "serving", "done"}]
          /\ arg' \in [Threads -> Args]
          /\ OneThreadPerSign'
          /\ ACTIVE' = ACTIVE \cup {s}
          /\ \A t \in Threads : Name(t) # s => tpc'[t] = tpc[t]
      BY <2>2, <3>1, <3>2, ScheduleInvariant DEF s, a
    <3>4. TypeOK'
      BY <2>0, <2>2, <3>1, <3>3 DEF Args
    <3>5. MainKnows' /\ ResponderNeverBlocks'
      BY <2>0, <2>2, <3>2, <3>3 DEF MainKnows, ResponderNeverBlocks
    <3> QED BY <3>3, <3>4, <3>5
  <2> QED BY <1>4, <2>1, <2>2 DEF schedule_housekeeping
<1>5. CASE reply
  <2>1. /\ ACTIVE' \subseteq Signs
        /\ tpc' \in [Threads -> {"none", "running", "serving", "done"}]
        /\ arg' \in [Threads -> Args]
        /\ OneThreadPerSign'
    BY <1>5, <1>0, ScheduleInvariant DEF reply
  <2>2. rep # <<>> /\ ~registered
        /\ main' = "check" /\ rrreq' = FALSE
        /\ UNCHANGED <<registered, todo, inbox, rep, waiting>>
    BY <1>5 DEF reply, MainKnows
  <2> QED BY <2>1, <2>2 DEF Args, MainKnows, ResponderNeverBlocks
<1> QED BY <1>1, <1>2, <1>3, <1>4, <1>5 DEF run

-----------------------------------------------------------------------------
(* The theorems.                                                           *)

LEMMA InitInvariant == Init => IInv
<1> SUFFICES ASSUME Init
             PROVE  IInv
  OBVIOUS
<1>1. TypeOK
  <2>1. tpc \in [Threads -> {"none", "running", "serving", "done"}]
        /\ arg \in [Threads -> Plugins \cup Clients \cup {None}]
    BY DEF Init
  <2>2. inbox \in Seq(Commands) /\ rep \in Seq(Clients \cup {None}) /\ todo \in Seq(Tasks)
    BY DEF Init
  <2>3. waiting \subseteq Clients /\ ACTIVE \subseteq Signs
    BY DEF Init
  <2>4. /\ main \in {"check", "poll", "offline", "house", "reply"}
        /\ registered \in BOOLEAN /\ rrreq \in BOOLEAN
    BY DEF Init
  <2> QED BY <2>1, <2>2, <2>3, <2>4 DEF TypeOK
<1>2. OneThreadPerSign /\ MainKnows /\ ResponderNeverBlocks
  BY DEF Init, OneThreadPerSign, MainKnows, ResponderNeverBlocks, Live
<1> QED BY <1>1, <1>2 DEF IInv

LEMMA NextInvariant == IInv /\ [Next]_vars => IInv'
<1> SUFFICES ASSUME IInv, [Next]_vars
             PROVE  IInv'
  OBVIOUS
<1>1. CASE UNCHANGED vars
  BY <1>1 DEF IInv, TypeOK, OneThreadPerSign, MainKnows, ResponderNeverBlocks, Live,
              vars, mainVars, threadVars, clientVars
<1>2. CASE Next
  BY <1>2, ClientStep, ThreadStep, MainStep DEF Next
<1> QED BY <1>1, <1>2

THEOREM Invariance == Spec => []IInv
<1> QED BY InitInvariant, NextInvariant, PTL DEF Spec

\* Every variable of the container manager keeps its type.
THEOREM TypeCorrect == Spec => []TypeOK
<1>1. IInv => TypeOK
  BY DEF IInv
<1> QED BY <1>1, Invariance, PTL

\* ACTIVE holds exactly the signatures of the live threads, and no two live
\* threads have the same (schedule_thread, finish_thread).
THEOREM OneThread == Spec => []OneThreadPerSign
<1>1. IInv => OneThreadPerSign
  BY DEF IInv
<1> QED BY <1>1, Invariance, PTL

\* The main thread never polls the REP socket while a responder uses it
\* (poll, respond).
THEOREM SocketDiscipline == Spec => []SocketNotShared
<1>1. IInv => SocketNotShared
  BY DEF IInv, MainKnows, OneThreadPerSign, SocketNotShared
<1> QED BY <1>1, Invariance, PTL

\* A responder always finds a request to receive (poll, respond).
THEOREM ResponderProgress == Spec => []ResponderNeverBlocks
<1>1. IInv => ResponderNeverBlocks
  BY DEF IInv
<1> QED BY <1>1, Invariance, PTL

-----------------------------------------------------------------------------
(* The refinement of SingleFlight.                                         *)

\* Which threads of a signature are alive depends on who is alive only.
LEMMA SameLiveSameBusy ==
  ASSUME \A u \in Threads : Live(u)' = Live(u)
  PROVE  Busy' = Busy
BY DEF Busy

\* When only thread t is born or dies, only the entry of its name changes.
LEMMA OneChangeOneEntry ==
  ASSUME NEW t \in Threads, NEW S,
         \A u \in Threads : u # t => Live(u)' = Live(u),
         {u \in Threads : Live(u) /\ Name(u) = Name(t)}' = S
  PROVE  Busy' = [Busy EXCEPT ![Name(t)] = S]
<1>1. \A x \in Signs : x # Name(t) =>
         {u \in Threads : Live(u) /\ Name(u) = x}'
           = {u \in Threads : Live(u) /\ Name(u) = x}
  OBVIOUS
<1>2. \A x \in Signs : Busy'[x] = IF x = Name(t) THEN S ELSE Busy[x]
  BY <1>1 DEF Busy
<1>3. Busy = [x \in Signs |-> Busy[x]] /\ Busy' = [x \in Signs |-> Busy'[x]]
  BY DEF Busy
<1> HIDE DEF Busy
<1> QED BY <1>2, <1>3

\* Scheduling starts the work of its signature, or absorbs the request
\* (schedule_thread).
LEMMA ScheduleRefines ==
  ASSUME TypeOK, OneThreadPerSign, NEW s \in Signs, NEW a, schedule_thread(s, a)
  PROVE  (\E w \in Signs, k \in Threads : SF!Start(w, k)) \/ Busy' = Busy
<1>1. CASE s \in ACTIVE /\ UNCHANGED threadVars
  BY <1>1, SameLiveSameBusy DEF threadVars, Live
<1>2. CASE /\ s \notin ACTIVE
           /\ \E t \in Threads :
                 /\ Name(t) = s /\ tpc[t] = "none"
                 /\ ACTIVE' = ACTIVE \cup {s}
                 /\ tpc' = [tpc EXCEPT ![t] = "running"]
                 /\ arg' = [arg EXCEPT ![t] = a]
  <2>1. PICK t \in Threads : Name(t) = s /\ tpc' = [tpc EXCEPT ![t] = "running"]
    BY <1>2
  <2>2. Busy[s] = {}
    BY <1>2 DEF Busy, OneThreadPerSign
  <2>3. Live(t)' /\ \A u \in Threads : u # t => Live(u)' = Live(u)
    BY <2>1 DEF Live, TypeOK
  <2>4. Busy' = [Busy EXCEPT ![s] = {t}]
    <3>1. {u \in Threads : Live(u) /\ Name(u) = Name(t)}' = {t}
      BY <2>1, <2>2, <2>3 DEF Busy
    <3> QED BY <2>1, <2>3, <3>1, OneChangeOneEntry
  <2>5. SF!Start(s, t)
    BY <2>2, <2>4 DEF SF!Start
  <2> QED BY <2>5
<1> QED BY <1>1, <1>2, ScheduleEffect

\* A thread that ends finishes the work of its name; its other steps are
\* invisible (complete, respond_recv, respond_send, finish_thread).
LEMMA ThreadRefines ==
  ASSUME TypeOK, OneThreadPerSign, NEW t \in Threads, thread(t)
  PROVE  (\E w \in Signs, k \in Threads : SF!Finish(w, k)) \/ Busy' = Busy
<1>1. CASE complete(t) \/ respond_recv(t) \/ respond_send(t)
  <2>1. \A u \in Threads : Live(u)' = Live(u)
    BY <1>1 DEF complete, respond_recv, respond_send, Live, TypeOK
  <2> QED BY <2>1, SameLiveSameBusy
<1>2. CASE finish_thread(t)
  <2>1. Live(t) /\ ~Live(t)' /\ \A u \in Threads : u # t => Live(u)' = Live(u)
    BY <1>2 DEF finish_thread, Live, TypeOK
  <2>2. Name(t) \in Signs
    BY DEF Threads, Name
  <2>3. Busy[Name(t)] = {t}
    BY <2>1, <2>2 DEF Busy, OneThreadPerSign
  <2>4. Busy' = [Busy EXCEPT ![Name(t)] = {}]
    <3>1. {u \in Threads : Live(u) /\ Name(u) = Name(t)}' = {}
      BY <2>1, <2>2, <2>3 DEF Busy
    <3> QED BY <2>1, <3>1, OneChangeOneEntry
  <2>5. SF!Finish(Name(t), t)
    BY <2>3, <2>4 DEF SF!Finish
  <2> QED BY <2>2, <2>5
<1> QED BY <1>1, <1>2 DEF thread

\* The main thread starts work only by scheduling it.
LEMMA MainRefines ==
  ASSUME IInv, run
  PROVE  (\E w \in Signs, k \in Threads : SF!Start(w, k)) \/ Busy' = Busy
<1>0. TypeOK /\ OneThreadPerSign
  BY DEF IInv
<1>1. CASE UNCHANGED threadVars
  BY <1>1, SameLiveSameBusy DEF threadVars, Live
<1>2. CASE \E s \in Signs, a \in Args : schedule_thread(s, a)
  BY <1>0, <1>2, ScheduleRefines
<1>3. \A x \in Tasks : x.feature \in Signs /\ x.plugin \in Args
  BY DEF Tasks, Signs, Args
<1>4. todo # <<>> => Head(todo) \in Tasks
  BY <1>0 DEF TypeOK
<1>5. ReqResp \in Signs /\ None \in Args /\ Jobs \subseteq Signs
  BY DEF Signs, Args
<1>6. UNCHANGED threadVars \/ \E s \in Signs, a \in Args : schedule_thread(s, a)
  BY <1>3, <1>4, <1>5 DEF run, poll, poll_return, process_offline,
                           schedule_housekeeping, reply
<1> QED BY <1>1, <1>2, <1>6

LEMMA InitRefines == Init => SF!Init
BY DEF Init, SF!Init, Busy, Live

LEMMA NextRefines == IInv /\ [Next]_vars => [SF!Next]_Busy
<1> SUFFICES ASSUME IInv, [Next]_vars
             PROVE  SF!Next \/ Busy' = Busy
  OBVIOUS
<1>1. CASE UNCHANGED vars
  BY <1>1, SameLiveSameBusy DEF vars, threadVars, Live
<1>2. CASE run
  BY <1>2, MainRefines DEF SF!Next
<1>3. ASSUME NEW t \in Threads, thread(t)
      PROVE  SF!Next \/ Busy' = Busy
  BY <1>3, ThreadRefines DEF SF!Next, IInv
<1>4. CASE \/ \E cmd \in Commands : send(cmd)
           \/ \E c \in Clients : sendrecv(c) \/ sendrecv_timeout(c)
  <2>1. tpc' = tpc
    BY <1>4 DEF send, sendrecv, sendrecv_timeout, threadVars
  <2> QED BY <2>1, SameLiveSameBusy DEF Live
<1> QED BY <1>1, <1>2, <1>3, <1>4 DEF Next

\* The container manager implements SingleFlight: at any moment at most one
\* thread executes a signature, and a request for one that is being executed
\* starts nothing (schedule_thread, finish_thread).
THEOREM Refinement == Spec => ImplementsSingleFlight
<1>1. Spec => SF!Spec
  BY InitRefines, NextRefines, Invariance, PTL DEF Spec, SF!Spec
<1> QED BY <1>1 DEF ImplementsSingleFlight
=============================================================================
