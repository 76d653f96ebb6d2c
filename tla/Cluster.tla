------------------------------ MODULE Cluster ------------------------------
(***************************************************************************)
(* A cluster of JuliaBox instances: election of a leader over one database *)
(* record (db/__init__.py), scaling up and down (impl_ec2.py, the          *)
(* housekeeping of JBox and JBoxAPI, is_terminating of JBoxd) and the way  *)
(* of a user's requests from instance to instance until a session is found *)
(* or started (router.lua, handler_base.py, main.py).                      *)
(*                                                                         *)
(* Instance ids are numbers, since the code sorts them.  What goes on in a *)
(* session, and how a container is backed up, is in SessionLifecycle.  The *)
(* load figures come from CloudWatch and are minutes old: every decision   *)
(* finds arbitrary ones.                                                   *)
(***************************************************************************)
EXTENDS Integers, FiniteSets, FiniteSetsExt

CONSTANTS
  N, Users,
  Servers,            \* the servers that do housekeeping: jbox and jbapi
  LatestVersion,      \* of the machine image
  Loads, NoStat,      \* load figures in percent, and none at all
  SCALE_UP_AT_LOAD, numhopmax,
  Prompt,             \* rounds of housekeeping are short: those of one instance do not
                      \* overlap, and no machine goes off during one
  Patient             \* a page gives up, and a user comes again, only after the launch

ASSUME NAssumption == N \in Nat \ {0}
ASSUME VersionsAssumption == LatestVersion \in Nat \ {0}
ASSUME LoadsAssumption == Loads \subseteq Int /\ NoStat = -1 /\ SCALE_UP_AT_LOAD \in Nat
ASSUME HopsAssumption == numhopmax \in Nat
ASSUME SwitchesAssumption == {Prompt, Patient} \subseteq BOOLEAN

Instances == 1 .. N
Versions  == 1 .. LatestVersion
None      == 0

VARIABLES
  state,        \* of the instances: off, up, leaving (terminated, still there), gone
  ami,          \* their image versions
  aged,         \* instances that are up for ninety minutes
  wanted,       \* a scale up was requested
  leader,       \* the cluster_leader record, None if there is none
  hk,           \* where the servers are in do_housekeeping
  container,    \* per user and instance: none, running, stopped
  tasks,        \* per user and instance: what is queued at JBoxd
  req           \* per user: what the browser waits for, from which instance

group    == <<state, ami, aged, wanted>>
sessions == <<container, tasks>>
vars     == <<group, leader, hk, sessions, req>>

Rounds == {"idle", "elect", "stepdown", "follow", "terminate"}
Pages  == {"none", "auth", "page", "try_auth", "try", "loading", "session", "failed"}

TypeOK ==
  /\ state \in [Instances -> {"off", "up", "leaving", "gone"}]
  /\ ami \in [Instances -> Versions] /\ aged \subseteq Instances /\ wanted \in BOOLEAN
  /\ leader \in Instances \cup {None}
  /\ hk \in [Instances -> [Servers -> Rounds]]
  /\ container \in [Users -> [Instances -> {"none", "running", "stopped"}]]
  /\ tasks \in [Users -> [Instances -> SUBSET {"launch", "cleanup"}]]
  /\ req \in [Users -> [pc : Pages, at : Instances \cup {None}, hops : 0 .. numhopmax + 1]]

\* Some instances run, with a leader record that may name any instance, also
\* one that is no more.
Init ==
  /\ state \in [Instances -> {"off", "up"}] /\ \E i \in Instances : state[i] = "up"
  /\ ami \in [Instances -> Versions] /\ aged = {} /\ wanted = FALSE
  /\ leader \in Instances \cup {None}
  /\ hk = [i \in Instances |-> [s \in Servers |-> "idle"]]
  /\ container = [u \in Users |-> [i \in Instances |-> "none"]]
  /\ tasks = [u \in Users |-> [i \in Instances |-> {}]]
  /\ req = [u \in Users |-> [pc |-> "none", at |-> None, hops |-> 0]]

\* The instances that Amazon lists: also one that is shutting down.
get_all_instances == {i \in Instances : state[i] \in {"up", "leaving"}}

get_image_recentness(i) ==
  CASE \E k \in get_all_instances : ami[k] > ami[i] -> -1
    [] \A k \in get_all_instances : ami[k] = ami[i] -> 0
    [] OTHER -> 1

-----------------------------------------------------------------------------
(* Election and scaling down.                                              *)

Undisturbed(i, s) == \A t \in Servers \ {s} : hk[i][t] = "idle"

\* Mutant: an instance with an older image stays the leader.
elected_anyhow(i) ==
  IF leader = None \/ leader \notin get_all_instances THEN "elect" ELSE IF leader = i THEN "idle" ELSE "follow"

\* What is_cluster_leader makes of what it reads.  "and" binds before "or":
\* an older image may elect itself if there is no record at all.
is_cluster_leader(i) ==
  IF leader = None \/ (leader \notin get_all_instances /\ get_image_recentness(i) >= 0) THEN "elect"
  ELSE IF leader # i THEN "follow"
  ELSE IF get_image_recentness(i) < 0 THEN "stepdown" ELSE "idle"

do_housekeeping(i, s) ==
  /\ i \in get_all_instances /\ hk[i][s] = "idle"
  /\ Prompt => Undisturbed(i, s)
  /\ hk' = [hk EXCEPT ![i][s] = is_cluster_leader(i)]
  /\ UNCHANGED <<group, leader, sessions, req>>

\* The record is written on what was read before, whatever it holds by now.
set_cluster_leader(i, s) ==
  /\ hk[i][s] = "elect"
  /\ leader' = i /\ hk' = [hk EXCEPT ![i][s] = "follow"]
  /\ UNCHANGED <<group, sessions, req>>

unset_cluster_leader(i, s) ==
  /\ hk[i][s] = "stepdown"
  /\ leader' = None /\ hk' = [hk EXCEPT ![i][s] = "follow"]
  /\ UNCHANGED <<group, sessions, req>>

\* Mutant: the number of machines is not looked at, nor who is the leader.
can_terminate_unled(i) == i \in aged /\ get_image_recentness(i) <= 0

can_terminate(i) ==
  /\ i \in aged /\ leader # i
  /\ get_image_recentness(i) <= 0
  /\ get_image_recentness(i) = 0 => Cardinality(get_all_instances) # 1

num_active(i) == Cardinality({u \in Users : container[u][i] # "none"})

\* JBoxd answers one is_terminating at a time, and decides before it acts.
is_terminating(i, s) ==
  /\ hk[i][s] = "follow"
  /\ \A t \in Servers : hk[i][t] # "terminate"
  /\ hk' = [hk EXCEPT ![i][s] = IF num_active(i) = 0 /\ can_terminate(i) THEN "terminate" ELSE "idle"]
  /\ UNCHANGED <<group, leader, sessions, req>>

terminate_instance(i, s) ==
  /\ hk[i][s] = "terminate"
  /\ state' = [state EXCEPT ![i] = "leaving"] /\ hk' = [hk EXCEPT ![i][s] = "idle"]
  /\ UNCHANGED <<ami, aged, wanted, leader, sessions, req>>

\* No server is in the middle of its housekeeping.
Calm == \A i \in Instances, s \in Servers : hk[i][s] = "idle"

\* The machine is switched off; requests at it are lost.
vanish(i) ==
  /\ state[i] = "leaving"
  /\ Prompt => Calm
  /\ state' = [state EXCEPT ![i] = "gone"]
  /\ hk' = [hk EXCEPT ![i] = [s \in Servers |-> "idle"]]
  /\ container' = [u \in Users |-> [container[u] EXCEPT ![i] = "none"]]
  /\ tasks' = [u \in Users |-> [tasks[u] EXCEPT ![i] = {}]]
  /\ req' = [u \in Users |-> IF req[u].at = i /\ req[u].pc \in {"try_auth", "try", "session"}
                             THEN [req[u] EXCEPT !.pc = "failed"] ELSE req[u]]
  /\ UNCHANGED <<ami, aged, wanted, leader>>

\* The autoscaling group starts a machine with its newest image.
boot(i) ==
  /\ wanted /\ state[i] = "off" /\ \A k \in get_all_instances : ami[k] <= ami[i]
  /\ state' = [state EXCEPT ![i] = "up"] /\ wanted' = FALSE
  /\ UNCHANGED <<ami, aged, leader, hk, sessions, req>>

ninety_minutes(i) ==
  /\ i \in get_all_instances \ aged /\ aged' = aged \cup {i}
  /\ UNCHANGED <<state, ami, wanted, leader, hk, sessions, req>>

-----------------------------------------------------------------------------
(* Load.                                                                   *)

Reporting(load) == {k \in get_all_instances : load[k] # NoStat /\ get_image_recentness(k) >= 0}
Total(load)     == MapThenSumSet(LAMBDA k : load[k], Reporting(load))
Num(load)       == Cardinality(Reporting(load))
AvgAtLeast(load, x) == Reporting(load) # {} /\ Total(load) >= x * Num(load)
Below(load)     == {k \in Reporting(load) : load[k] * Num(load) < Total(load)}
Above(load)     == {k \in Reporting(load) : load[k] * Num(load) > Total(load)}

\* The machines among which the first by name takes a session.
Candidates(load) == IF AvgAtLeast(load, 50) THEN Below(load) ELSE Reporting(load)

should_accept_session(i, load) ==
  /\ load[i] < 100
  /\ \/ get_image_recentness(i) > 0
     \/ /\ get_image_recentness(i) = 0
        /\ \/ leader = i
           \/ Reporting(load) = {}
           \/ (AvgAtLeast(load, 50) /\ load[i] * Num(load) >= Total(load))
           \/ (Candidates(load) # {} /\ Min(Candidates(load)) = i)

\* The instance to redirect to; without a figure the list is empty, which raises.
get_redirect_instance_id(load) ==
  LET preferred == IF AvgAtLeast(load, 50) THEN Below(load) ELSE Above(load)
  IN  IF Reporting(load) = {} THEN None
      ELSE Min(IF preferred = {} THEN Reporting(load) ELSE preferred)

-----------------------------------------------------------------------------
(* Requests.  The router sends a request to the instance its cookie names, *)
(* or keeps it where the load balancer brought it.                         *)

is_accessible(i) == i \in get_all_instances

Route(u) == IF is_accessible(req[u].at) THEN {req[u].at} ELSE get_all_instances

come(u, pc) ==
  /\ req[u].pc \in IF pc = "auth" THEN {"none", "failed", "session"} \cup (IF Patient THEN {} ELSE {"loading"})
                                  ELSE {"none", "session"}
  /\ Patient => \A i \in Instances : "launch" \notin tasks[u][i]
  /\ req' = [req EXCEPT ![u].pc = pc, ![u].hops = 0]
  /\ UNCHANGED <<group, leader, hk, sessions>>

leave(u) ==
  /\ req[u].pc \in {"session", "failed"}
  /\ req' = [req EXCEPT ![u].pc = "none", ![u].hops = 0]
  /\ UNCHANGED <<group, leader, hk, sessions>>

\* Mutant: nobody is asked for a session that exists.
find_nowhere(u) == {}

get_session_status(i) == {u \in Users : container[u][i] # "none"}

find_logged_in_instance(u) == {j \in get_all_instances : u \in get_session_status(j)}

\* A redirect to the session's instance starts over without the hops made so far.
redirect_to_logged_in_instance(u) ==
  /\ req[u].pc \in {"auth", "page"}
  /\ \E i \in Route(u) :
       LET found == find_logged_in_instance(u) IN
       \/ \E j \in found \ {i} : req' = [req EXCEPT ![u] = [pc |-> "page", at |-> j, hops |-> 0]]
       \/ /\ found \subseteq {i}
          /\ req' = [req EXCEPT ![u].pc = IF @ = "auth" THEN "try_auth" ELSE "try", ![u].at = i]
  /\ UNCHANGED <<group, leader, hk, sessions>>

\* The session is launched here, or not accepted; a stopped container that
\* is not wanted here is cleaned up.
try_launch_container(u, load, max_hop) ==
  LET i == req[u].at
      accept == \/ max_hop /\ load[i] < 100
                \/ container[u][i] = "running"
                \/ should_accept_session(i, load)
  IN  /\ wanted' = (wanted \/ (/\ ~(max_hop /\ load[i] < 100) /\ container[u][i] # "running"
                              /\ AvgAtLeast(load, SCALE_UP_AT_LOAD)))
      /\ tasks' = [tasks EXCEPT ![u][i] = @ \cup (IF accept THEN {"launch"}
                                                  ELSE IF container[u][i] = "stopped" THEN {"cleanup"} ELSE {})]
      /\ accept <=> req'[u].pc = "loading"

\* Mutant: the hops are not counted.
redirect_uncounted(u, load) ==
  req' = [req EXCEPT ![u] = [pc |-> "page", at |-> get_redirect_instance_id(load), hops |-> req[u].hops]]

redirect(u, load) ==
  req' = [req EXCEPT ![u] =
    IF get_redirect_instance_id(load) = None THEN [@ EXCEPT !.pc = "failed"]
    ELSE [pc |-> "page", at |-> get_redirect_instance_id(load),
          hops |-> IF @.pc = "try_auth" THEN 0 ELSE @.hops + 1]]

launched(u) == req' = [req EXCEPT ![u].pc = "loading", ![u].hops = 0]

post_auth_launch_container(u) ==
  /\ req[u].pc = "try_auth"
  /\ \E load \in [get_all_instances -> Loads \cup {NoStat}] :
       /\ launched(u) \/ redirect(u, load)
       /\ try_launch_container(u, load, FALSE)
  /\ UNCHANGED <<state, ami, aged, leader, hk, container>>

\* Mutant: the number of hops has no limit.
chk_unlimited(u) ==
  /\ req[u].pc = "try"
  /\ \E load \in [get_all_instances -> Loads \cup {NoStat}] :
       /\ launched(u) \/ redirect(u, load)
       /\ try_launch_container(u, load, FALSE)
  /\ UNCHANGED <<state, ami, aged, leader, hk, container>>

chk_and_launch_docker(u) ==
  /\ req[u].pc = "try"
  /\ LET max_hop == req[u].hops > numhopmax IN
     \E load \in [get_all_instances -> Loads \cup {NoStat}] :
       /\ \/ launched(u)
          \/ ~max_hop /\ redirect(u, load)
          \/ max_hop /\ req' = [req EXCEPT ![u].pc = "failed"]
       /\ try_launch_container(u, load, max_hop)
  /\ UNCHANGED <<state, ami, aged, leader, hk, container>>

\* The page asks until the container runs, and gives up after thirty steps.
do_monitor_loading(u) ==
  /\ req[u].pc = "loading"
  /\ \E i \in Route(u) :
       \/ container[u][i] = "running" /\ req' = [req EXCEPT ![u].pc = "session", ![u].at = i]
       \/ /\ container[u][i] # "running" /\ (Patient => "launch" \notin tasks[u][i])
          /\ req' = [req EXCEPT ![u].pc = "failed"]
  /\ UNCHANGED <<group, leader, hk, sessions>>

-----------------------------------------------------------------------------
(* Containers.                                                             *)

\* A launch waits for a cleanup of the session; it may fail.
launch_session(u, i) ==
  /\ "launch" \in tasks[u][i] /\ "cleanup" \notin tasks[u][i]
  /\ tasks' = [tasks EXCEPT ![u][i] = @ \ {"launch"}]
  /\ \E outcome \in {"running", "none"} :
       container' = [container EXCEPT ![u][i] = IF @ = "running" THEN @ ELSE outcome]
  /\ UNCHANGED <<group, leader, hk, req>>

\* Housekeeping or the user ends a session.
end_session(u, i) ==
  /\ container[u][i] = "running" /\ "cleanup" \notin tasks[u][i]
  /\ tasks' = [tasks EXCEPT ![u][i] = @ \cup {"cleanup"}]
  /\ UNCHANGED <<group, leader, hk, container, req>>

backup_and_cleanup(u, i) ==
  /\ "cleanup" \in tasks[u][i]
  /\ tasks' = [tasks EXCEPT ![u][i] = @ \ {"cleanup"}]
  /\ container' = [container EXCEPT ![u][i] = "none"]
  /\ UNCHANGED <<group, leader, hk, req>>

container_exits(u, i) ==
  /\ container[u][i] = "running"
  /\ container' = [container EXCEPT ![u][i] = "stopped"]
  /\ UNCHANGED <<group, leader, hk, tasks, req>>

-----------------------------------------------------------------------------
housekeeping(i, s) ==
  \/ do_housekeeping(i, s) \/ set_cluster_leader(i, s) \/ unset_cluster_leader(i, s)
  \/ is_terminating(i, s) \/ terminate_instance(i, s)

handle(u) ==
  \/ redirect_to_logged_in_instance(u) \/ post_auth_launch_container(u)
  \/ chk_and_launch_docker(u) \/ do_monitor_loading(u)

Next ==
  \/ \E i \in Instances : \/ vanish(i) \/ boot(i) \/ ninety_minutes(i)
                          \/ \E s \in Servers : housekeeping(i, s)
  \/ \E u \in Users : \/ come(u, "auth") \/ come(u, "page") \/ leave(u) \/ handle(u)
                      \/ \E i \in Instances : \/ launch_session(u, i) \/ end_session(u, i)
                                              \/ backup_and_cleanup(u, i) \/ container_exits(u, i)

Spec == Init /\ [][Next]_vars

\* Housekeeping recurs every five minutes in each server, time passes, JBoxd
\* works off its queue, and requests are handled.
FairSpec ==
  /\ Spec
  /\ \A i \in Instances : SF_vars(vanish(i)) /\ WF_vars(ninety_minutes(i))
  /\ \A i \in Instances, s \in Servers :
       SF_vars(do_housekeeping(i, s)) /\ SF_vars(is_terminating(i, s)) /\ WF_vars(housekeeping(i, s))
  /\ \A u \in Users : WF_vars(handle(u))
  /\ \A u \in Users, i \in Instances : WF_vars(launch_session(u, i)) /\ WF_vars(backup_and_cleanup(u, i))

-----------------------------------------------------------------------------
(* Properties.                                                             *)

\* can_terminate: "keep at least 1 machine running".  Instances decide to end
\* themselves one by one, on a leader record and a list that others change.
KeepsOne == \E i \in Instances : state[i] = "up"

\* A user's session is on one instance at a time, so that there is one volume
\* to back up: requests find it wherever it is (find_logged_in_instance).
OnePlacePerUser ==
  \A u \in Users : Cardinality({i \in get_all_instances : container[u][i] # "none" \/ "launch" \in tasks[u][i]}) <= 1

\* A request is answered with a session or a page that says why not, however
\* often it is redirected (numhopmax).
RequestEnds == \A u \in Users : req[u].pc \in {"auth", "page"} ~> req[u].pc \in {"session", "failed"}

\* A cluster that nobody uses shrinks to one instance, its leader, with the
\* newest image (older images "step down", others terminate), if now and then
\* no instance does housekeeping.
Unused == \A u \in Users : /\ req[u].pc \in {"none", "failed"}
                           /\ \A i \in Instances : container[u][i] = "none" /\ tasks[u][i] = {}
Shrunk == /\ get_all_instances = {leader} /\ state[leader] = "up"
ScalesDown == <>[]Unused /\ []<>Calm => <>[]Shrunk
=============================================================================
