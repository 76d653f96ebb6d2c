------------------------------- MODULE JBoxd -------------------------------
(***************************************************************************)
(* The container manager (srvr_jboxd.py) and its end of the command        *)
(* channel (jbox_tasks.py).                                                *)
(*                                                                         *)
(* The main thread waits on two ZMQ sockets: a PULL socket on which the    *)
(* engines push commands, and a REP socket on which they send requests.    *)
(* Each command becomes a Python thread, unless a thread with the same     *)
(* signature (command and arguments) is still in the table ACTIVE.  One    *)
(* thread at a time, the responder, receives and answers a request; while  *)
(* it is in ACTIVE the main thread leaves the REP socket out of its poll.  *)
(*                                                                         *)
(* The bodies of the jobs are left out: a job runs for a while and ends,   *)
(* by returning or by an exception that jboxd_method swallows.             *)
(***************************************************************************)
EXTENDS Naturals, Sequences

CONSTANTS
  Jobs,            \* signatures of launches, cleanups and other plain commands
  NodeTasks,       \* the JBP_NODE plugins, in the order they are registered
  ClusterTasks,    \* the JBP_CLUSTER plugins, likewise
  Clients,         \* processes that send requests with sendrecv
  Copies,          \* tells apart threads that have the same name
  None,            \* no plugin, no client
  ClientTimeouts,  \* whether sendrecv may give up waiting
  MaxInbox,        \* bound: commands queued on the PULL socket
  MaxRep           \* bound: requests queued on the REP socket

ReqResp == "CMD_REQ_RESP"
Node    == "JBP_NODE"
Cluster == "JBP_CLUSTER"

\* CMD_PLUGIN_MAINTENANCE carries one boolean, is_leader.
Maintenance == {"maintain_follower", "maintain_leader"}

\* A signature is the JSON text of the command and its arguments.  For a
\* periodic task the arguments are (feature,): the plugin is not part of it.
Features == {Node, Cluster}
Signs    == Jobs \cup Features \cup {ReqResp}
Commands == Jobs \cup Maintenance
Plugins  == {NodeTasks[i] : i \in DOMAIN NodeTasks}
              \cup {ClusterTasks[i] : i \in DOMAIN ClusterTasks}
Tasks    == [plugin : Plugins, feature : Features]

\* A thread is named by its signature; nothing but ACTIVE prevents two
\* threads of one name.
Threads == Signs \X Copies
Name(t) == t[1]

ASSUME SignsAssumption ==
  Jobs \cap (Features \cup Maintenance \cup {ReqResp}) = {}

ASSUME PluginsAssumption ==
  /\ NodeTasks \in Seq(Plugins)
  /\ ClusterTasks \in Seq(Plugins)

ASSUME BoundsAssumption ==
  /\ ClientTimeouts \in BOOLEAN
  /\ MaxInbox \in Nat
  /\ MaxRep \in Nat

VARIABLES
  inbox,       \* commands pushed and not yet received, oldest first
  rep,         \* requests waiting on the REP socket; None: sender is gone
  waiting,     \* clients inside sendrecv
  ACTIVE,      \* signatures of the commands being executed
  tpc,         \* tpc[t]: how far thread t is
  arg,         \* arg[t]: the plugin t runs, or the client it serves
  main,        \* where the main thread is
  registered,  \* whether the poll in progress includes the REP socket
  rrreq,       \* the last poll found a request, not handed on yet
  todo         \* periodic tasks schedule_housekeeping has still to schedule

mainVars   == <<main, registered, rrreq, todo>>
threadVars == <<ACTIVE, tpc, arg>>
clientVars == <<inbox, rep, waiting>>
vars       == <<mainVars, threadVars, clientVars>>

TypeOK ==
  /\ inbox \in Seq(Commands)
  /\ rep \in Seq(Clients \cup {None})
  /\ waiting \subseteq Clients
  /\ ACTIVE \subseteq Signs
  /\ tpc \in [Threads -> {"none", "running", "serving", "done"}]
  /\ arg \in [Threads -> Plugins \cup Clients \cup {None}]
  /\ main \in {"check", "poll", "offline", "house", "reply"}
  /\ registered \in BOOLEAN
  /\ rrreq \in BOOLEAN
  /\ todo \in Seq(Tasks)

Init ==
  /\ inbox = <<>> /\ rep = <<>> /\ waiting = {}
  /\ ACTIVE = {}
  /\ tpc = [t \in Threads |-> "none"]
  /\ arg = [t \in Threads |-> None]
  /\ main = "check" /\ registered = FALSE /\ rrreq = FALSE /\ todo = <<>>

-----------------------------------------------------------------------------
(* The engines.                                                            *)

\* send: an engine pushes a command; it never waits for an answer.
send(cmd) ==
  /\ Len(inbox) < MaxInbox
  /\ inbox' = Append(inbox, cmd)
  /\ UNCHANGED <<mainVars, threadVars, rep, waiting>>

\* sendrecv: a client sends a request on a socket of its own and blocks.
sendrecv(c) ==
  /\ c \notin waiting
  /\ Len(rep) < MaxRep
  /\ waiting' = waiting \cup {c}
  /\ rep' = Append(rep, c)
  /\ UNCHANGED <<mainVars, threadVars, inbox>>

\* The poll of sendrecv expires after 10 seconds.  The client closes its
\* socket; the request stays queued, and a reply to it goes nowhere.
sendrecv_timeout(c) ==
  /\ ClientTimeouts
  /\ c \in waiting
  /\ waiting' = waiting \ {c}
  /\ rep' = [i \in DOMAIN rep |-> IF rep[i] = c THEN None ELSE rep[i]]
  /\ arg' = [t \in Threads |-> IF Name(t) = ReqResp /\ arg[t] = c
                               THEN None ELSE arg[t]]
  /\ UNCHANGED <<mainVars, inbox, ACTIVE, tpc>>

-----------------------------------------------------------------------------
(* The threads.                                                            *)

is_duplicate(s) == s \in ACTIVE

\* A new thread of name s enters ACTIVE and is started on argument a.
Launch(s, a) ==
  LET idle == {t \in Threads : Name(t) = s /\ tpc[t] = "none"}
      t    == CHOOSE u \in idle : TRUE  \* which copy it is does not matter
  IN /\ idle # {}
     /\ ACTIVE' = ACTIVE \cup {s}
     /\ tpc' = [tpc EXCEPT ![t] = "running"]
     /\ arg' = [arg EXCEPT ![t] = a]

\* Mutant: nothing is ever taken for a duplicate.
schedule_without_check(s, a) == Launch(s, a)

\* Mutant: the entry is made under the argument instead of the signature.
schedule_under_argument(s, a) ==
  \/ is_duplicate(s) /\ UNCHANGED threadVars
  \/ /\ ~is_duplicate(s)
     /\ \E t \in Threads :
          /\ Name(t) = s /\ tpc[t] = "none"
          /\ tpc' = [tpc EXCEPT ![t] = "running"]
          /\ arg' = [arg EXCEPT ![t] = a]
     /\ ACTIVE' = ACTIVE \cup {a}

\* schedule_thread: under LOCK, a signature already in ACTIVE is dropped;
\* otherwise a new thread enters ACTIVE and is started.
schedule_thread(s, a) ==
  \/ is_duplicate(s) /\ UNCHANGED threadVars
  \/ ~is_duplicate(s) /\ Launch(s, a)

\* The target of a thread other than the responder returns, or raises and
\* jboxd_method swallows the exception.
complete(t) ==
  /\ tpc[t] = "running"
  /\ Name(t) # ReqResp
  /\ tpc' = [tpc EXCEPT ![t] = "done"]
  /\ UNCHANGED <<mainVars, clientVars, ACTIVE, arg>>

\* respond, first half: recv_json blocks until there is a request.
respond_recv(t) ==
  /\ tpc[t] = "running"
  /\ Name(t) = ReqResp
  /\ rep # <<>>
  /\ rep' = Tail(rep)
  /\ arg' = [arg EXCEPT ![t] = Head(rep)]
  /\ tpc' = [tpc EXCEPT ![t] = "serving"]
  /\ UNCHANGED <<mainVars, inbox, waiting, ACTIVE>>

\* respond, second half: the callback has run and send_json replies.
respond_send(t) ==
  /\ tpc[t] = "serving"
  /\ waiting' = waiting \ {arg[t]}
  /\ arg' = [arg EXCEPT ![t] = None]
  /\ tpc' = [tpc EXCEPT ![t] = "done"]
  /\ UNCHANGED <<mainVars, inbox, rep, ACTIVE>>

\* Mutant: an exception in the target keeps the entry in ACTIVE.
finish_keeps_entry(t) ==
  /\ tpc[t] = "done"
  /\ tpc' = [tpc EXCEPT ![t] = "none"]
  /\ arg' = [arg EXCEPT ![t] = None]
  /\ UNCHANGED <<mainVars, clientVars, ACTIVE>>

\* Mutant: the entry leaves ACTIVE while the target is still running.
finish_early(t) ==
  \/ /\ tpc[t] = "running"
     /\ ACTIVE' = ACTIVE \ {Name(t)}
     /\ UNCHANGED <<mainVars, clientVars, tpc, arg>>
  \/ finish_keeps_entry(t)

\* finish_thread, called by the finally clause of jboxd_method.
finish_thread(t) ==
  /\ tpc[t] = "done"
  /\ ACTIVE' = ACTIVE \ {Name(t)}
  /\ tpc' = [tpc EXCEPT ![t] = "none"]
  /\ arg' = [arg EXCEPT ![t] = None]
  /\ UNCHANGED <<mainVars, clientVars>>

-----------------------------------------------------------------------------
(* The main thread.                                                        *)

\* Mutant: the REP socket is part of every poll.
poll_always ==
  /\ main = "check"
  /\ registered' = TRUE
  /\ main' = "poll"
  /\ UNCHANGED <<rrreq, todo, threadVars, clientVars>>

\* run evaluates _is_scheduled(CMD_REQ_RESP) and calls poll, which includes
\* the REP socket or leaves it out, and then blocks without a timeout.
poll ==
  /\ main = "check"
  /\ registered' = ~is_duplicate(ReqResp)
  /\ main' = "poll"
  /\ UNCHANGED <<rrreq, todo, threadVars, clientVars>>

\* The poll returns once a socket it includes has something to read.
poll_return ==
  LET ppreq == inbox # <<>>
      found == registered /\ rep # <<>>
  IN /\ main = "poll"
     /\ ppreq \/ found
     /\ rrreq' = found
     /\ main' = IF ppreq THEN "offline" ELSE "reply"
     /\ registered' = FALSE
     /\ UNCHANGED <<todo, threadVars, clientVars>>

after_offline == IF rrreq THEN "reply" ELSE "check"

PeriodicTasks(is_leader) ==
  LET of(feature, plugins) ==
        [i \in DOMAIN plugins |-> [plugin |-> plugins[i], feature |-> feature]]
  IN of(Node, NodeTasks) \o (IF is_leader THEN of(Cluster, ClusterTasks) ELSE <<>>)

\* Mutant: a command that arrives together with a request is lost.
process_request_first ==
  /\ main = "offline"
  /\ inbox' = Tail(inbox)
  /\ main' = after_offline
  /\ UNCHANGED <<registered, rrreq, todo, threadVars, rep, waiting>>

\* process_offline: receive one command and schedule the thread for it.
process_offline ==
  /\ main = "offline"
  /\ inbox' = Tail(inbox)
  /\ \/ /\ Head(inbox) \in Jobs
        /\ schedule_thread(Head(inbox), None)
        /\ main' = after_offline
        /\ UNCHANGED todo
     \/ /\ Head(inbox) \in Maintenance
        /\ \/ todo' = PeriodicTasks(Head(inbox) = "maintain_leader")
           \/ todo' = <<>>  \* publish_perf_counters raised
        /\ main' = "house"
        /\ UNCHANGED threadVars
  /\ UNCHANGED <<registered, rrreq, rep, waiting>>

\* schedule_housekeeping: the loop over features and plugins.
schedule_housekeeping ==
  /\ main = "house"
  /\ \/ /\ todo = <<>>
        /\ main' = after_offline
        /\ UNCHANGED <<todo, threadVars>>
     \/ /\ todo # <<>>
        /\ schedule_thread(Head(todo).feature, Head(todo).plugin)
        /\ todo' = Tail(todo)
        /\ UNCHANGED main
  /\ UNCHANGED <<registered, rrreq, clientVars>>

\* Mutant: a responder is scheduled whatever the poll found.
reply_unasked ==
  /\ main \in {"reply", "check"}
  /\ schedule_thread(ReqResp, None)
  /\ main' = "check"
  /\ rrreq' = FALSE
  /\ UNCHANGED <<registered, todo, clientVars>>

\* run: a request was found, hand it to a responder.
reply ==
  /\ main = "reply"
  /\ schedule_thread(ReqResp, None)
  /\ main' = "check"
  /\ rrreq' = FALSE
  /\ UNCHANGED <<registered, todo, clientVars>>

-----------------------------------------------------------------------------
run == \/ poll
       \/ poll_return
       \/ process_offline
       \/ schedule_housekeeping
       \/ reply

thread(t) == \/ complete(t)
             \/ respond_recv(t)
             \/ respond_send(t)
             \/ finish_thread(t)

Next ==
  \/ run
  \/ \E t \in Threads : thread(t)
  \/ \E cmd \in Commands : send(cmd)
  \/ \E c \in Clients : sendrecv(c) \/ sendrecv_timeout(c)

Spec == Init /\ [][Next]_vars

\* The operating system schedules every thread of the process, and the calls
\* a job makes return or raise.  Nobody is obliged to send anything.
Fairness == /\ WF_vars(run)
            /\ \A t \in Threads : WF_vars(thread(t))

FairSpec == Spec /\ Fairness

\* JBox.do_housekeeping pushes plugin maintenance every five minutes.
PeriodicSpec == FairSpec /\ WF_vars(send("maintain_follower"))

-----------------------------------------------------------------------------
(* Properties.                                                             *)

Live(t) == tpc[t] # "none"

\* A signature is in ACTIVE exactly while one thread of that name is alive:
\* the same session is never launched by two threads at once, the same
\* container never cleaned up by two, and no command is shut out by the entry
\* of a thread that is gone (schedule_thread, finish_thread).
OneThreadPerSign ==
  /\ \A s \in ACTIVE : \E t \in Threads : Live(t) /\ Name(t) = s
  /\ \A t \in Threads : Live(t) => Name(t) \in ACTIVE
  /\ \A t, u \in Threads : Live(t) /\ Live(u) /\ Name(t) = Name(u) => t = u

\* The REP socket, which ZMQ lets one thread use at a time, is never polled by
\* the main thread while a responder is alive (poll, respond).
SocketNotShared ==
  main = "poll" /\ registered => \A t \in Threads : Live(t) => Name(t) # ReqResp

\* A responder about to call recv_json finds a request: it never blocks there,
\* which would keep CMD_REQ_RESP in ACTIVE and silence JBoxd for good.
ResponderNeverBlocks ==
  \A t \in Threads : tpc[t] = "running" /\ Name(t) = ReqResp => rep # <<>>

\* A job that was pushed is executed: a thread of its signature is alive at
\* some moment after the push (its own, or the one it duplicates).
CommandsExecuted ==
  \A s \in Jobs :
    (\E i \in DOMAIN inbox : inbox[i] = s)
      ~> (\E t \in Threads : Live(t) /\ Name(t) = s)

\* The container manager performs request-response tasks (Architecture.md): a
\* request that waits on the REP socket is received.
RequestsReceived ==
  \A c \in Clients : (\E i \in DOMAIN rep : rep[i] = c)
                        ~> ~(\E i \in DOMAIN rep : rep[i] = c)

\* JBoxd implements SingleFlight: busy[s] is the set of live threads named s.
Busy == [s \in Signs |-> {t \in Threads : Live(t) /\ Name(t) = s}]
SF == INSTANCE SingleFlight WITH Work <- Signs, Workers <- Threads, busy <- Busy
ImplementsSingleFlight == SF!Spec
=============================================================================
