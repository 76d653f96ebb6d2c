---------------------------- MODULE UserClusters ----------------------------
(***************************************************************************)
(* The clusters users start from their sessions (plugins/parallel): three  *)
(* Amazon resources of one name, made and deleted call by call, by the     *)
(* user's request and by the leader's housekeeping, which removes what has *)
(* no session.  A request is handled without a pause by the server of the  *)
(* session's instance: each user has one at a time.  An exception ends the *)
(* request, or the leader's round with all the clusters left in it.        *)
(***************************************************************************)
EXTENDS Integers

CONSTANTS
  Users,
  Returning,  \* bound: the users who log in; of the others there is what they left
  Leader,
  MaxInsts,   \* instances a user is allowed: max_cores / INSTANCE_CORES
  MaxFaults   \* bound: calls that fail, restarts, instances that do not answer

ASSUME UserClustersAssumption ==
  Leader \notin Users /\ Returning \subseteq Users /\ MaxInsts \in Nat /\ MaxFaults \in Nat

NoGroup == [max |-> 0, desired |-> 0, there |-> FALSE]
Groups  == [max : 0 .. MaxInsts, desired : 0 .. MaxInsts, there : BOOLEAN]
Actors  == Users \cup {Leader}

VARIABLES
  placement,  \* users whose cluster has a placement group
  config,     \* and a launch configuration
  group,      \* autoscale group of each user
  insts,      \* instances running in it
  sess,       \* users with a session
  at,         \* what each actor does: [pc, on, ninsts], the leader [todo] too
  faults

aws  == <<placement, config, group, insts>>
vars == <<aws, sess, at, faults>>

Idle   == [pc |-> "idle"]
Keep   == -1   \* for ninsts: the request is no create
States == {"decide", "terminate", "delete", "delete_config", "delete_placement",
           "create", "create_config", "create_group", "start"}
Asked  == [pc : States, on : Users, ninsts : {Keep} \cup 0 .. MaxInsts]
Round  == [pc : {"survey", "next"} \cup States, on : Users, ninsts : {Keep}, todo : SUBSET Users]

TypeOK ==
  /\ placement \subseteq Users /\ config \subseteq Users /\ sess \subseteq Users
  /\ group \in [Users -> Groups] /\ insts \in [Users -> 0 .. MaxInsts]
  /\ \A u \in Users : group[u].there \/ group[u] = NoGroup
  /\ DOMAIN at = Actors /\ (\A u \in Users : at[u] \in Asked \cup {Idle}) /\ at[Leader] \in Round \cup {Idle}
  /\ faults \in 0 .. MaxFaults

\* Requests of earlier days may have been cut short anywhere.
Init ==
  /\ placement \in SUBSET Users /\ config \in SUBSET placement
  /\ \E made \in SUBSET config : \E desired \in [made -> {0, MaxInsts}] :
       group = [u \in Users |-> IF u \in made THEN [max |-> MaxInsts, desired |-> desired[u], there |-> TRUE] ELSE NoGroup]
  /\ insts = [u \in Users |-> 0]
  /\ sess = {} /\ at = [a \in Actors |-> Idle] /\ faults = 0

\* Mutant: a cluster without an autoscale group is none.
exists_group(u) == group[u].there

exists(u)   == u \in placement \/ u \in config \/ group[u].there
isactive(u) == insts[u] > 0 \/ group[u].desired > 0

In(a, pc)   == at[a].pc = pc
goes(a, pc) == at' = [at EXCEPT ![a].pc = pc]
raise(a)    == at' = [at EXCEPT ![a] = Idle]
done(a)     == at' = [at EXCEPT ![a] = IF a = Leader THEN [@ EXCEPT !.pc = "next"] ELSE Idle]

deleted(a)  == IF at[a].ninsts = Keep THEN done(a) ELSE goes(a, "create")

-----------------------------------------------------------------------------
(* UserCluster: every step of actor a on the cluster of at[a].on is one or *)
(* more calls to Amazon of which the last one changes something.           *)

\* Mutant: a cluster that is active is not terminated first.
delete_always(a) ==
  /\ In(a, "decide") /\ goes(a, "delete")
  /\ UNCHANGED <<aws, sess, faults>>

terminate_or_delete(a) ==
  /\ In(a, "decide")
  /\ goes(a, IF isactive(at[a].on) THEN "terminate" ELSE "delete")
  /\ UNCHANGED <<aws, sess, faults>>

terminate(a) ==
  /\ In(a, "terminate")
  /\ LET u == at[a].on IN
     IF group[u].there THEN group' = [group EXCEPT ![u].desired = 0] /\ done(a)
                       ELSE raise(a) /\ UNCHANGED group
  /\ UNCHANGED <<placement, config, insts, sess, faults>>

\* Amazon deletes no group that has instances or is to have some.
delete_autoscale_group(a) ==
  /\ In(a, "delete")
  /\ LET u == at[a].on IN
     \/ ~exists(u) /\ deleted(a) /\ UNCHANGED group
     \/ isactive(u) /\ raise(a) /\ UNCHANGED group
     \/ exists(u) /\ ~isactive(u) /\ goes(a, "delete_config") /\ group' = [group EXCEPT ![u] = NoGroup]
  /\ UNCHANGED <<placement, config, insts, sess, faults>>

\* Nor a configuration that a group uses.
delete_launch_config(a) ==
  /\ In(a, "delete_config")
  /\ LET u == at[a].on IN
     IF u \in config /\ group[u].there THEN raise(a) /\ UNCHANGED config
     ELSE config' = config \ {u} /\ goes(a, "delete_placement")
  /\ UNCHANGED <<placement, group, insts, sess, faults>>

\* Nor a placement group with instances; one an empty autoscale group names it does.
delete_placement_group(a) ==
  /\ In(a, "delete_placement")
  /\ LET u == at[a].on IN
     IF insts[u] > 0 THEN raise(a) /\ UNCHANGED placement
                     ELSE placement' = placement \ {u} /\ deleted(a)
  /\ UNCHANGED <<config, group, insts, sess, faults>>

create_placement_group(a) ==
  /\ In(a, "create")
  /\ LET u == at[a].on IN
     IF exists(u) THEN raise(a) /\ UNCHANGED placement
                  ELSE placement' = placement \cup {u} /\ goes(a, "create_config")
  /\ UNCHANGED <<config, group, insts, sess, faults>>

create_launch_config(a) ==
  /\ In(a, "create_config")
  /\ LET u == at[a].on IN
     IF u \in config THEN raise(a) /\ UNCHANGED config ELSE config' = config \cup {u} /\ goes(a, "create_group")
  /\ UNCHANGED <<placement, group, insts, sess, faults>>

\* Amazon makes no group of a configuration or placement group that is not there.
create_autoscale_group(a) ==
  /\ In(a, "create_group")
  /\ LET u == at[a].on IN
     IF group[u].there \/ u \notin config \/ u \notin placement
     THEN raise(a) /\ UNCHANGED group
     ELSE group' = [group EXCEPT ![u] = [max |-> at[a].ninsts, desired |-> 0, there |-> TRUE]] /\ goes(a, "start")
  /\ UNCHANGED <<placement, config, insts, sess, faults>>

start(a) ==
  /\ In(a, "start")
  /\ LET u == at[a].on IN
     IF group[u].there THEN group' = [group EXCEPT ![u].desired = group[u].max] /\ done(a)
                       ELSE raise(a) /\ UNCHANGED group
  /\ UNCHANGED <<placement, config, insts, sess, faults>>

Step(a) ==
  \/ terminate_or_delete(a) \/ terminate(a)
  \/ delete_autoscale_group(a) \/ delete_launch_config(a) \/ delete_placement_group(a)
  \/ create_placement_group(a) \/ create_launch_config(a)
  \/ create_autoscale_group(a) \/ start(a)

-----------------------------------------------------------------------------
(* ParallelHandler: the requests of a user.                                *)

post_terminate(u) ==
  /\ u \in sess /\ In(u, "idle")
  /\ at' = [at EXCEPT ![u] = [pc |-> "decide", on |-> u, ninsts |-> Keep]]
  /\ UNCHANGED <<aws, sess, faults>>

\* What there is of an old cluster is deleted first.
post_create(u) ==
  /\ u \in sess /\ In(u, "idle")
  /\ \E ninsts \in 0 .. MaxInsts : at' = [at EXCEPT ![u] = [pc |-> "delete", on |-> u, ninsts |-> ninsts]]
  /\ UNCHANGED <<aws, sess, faults>>

-----------------------------------------------------------------------------
(* ParallelHousekeep: a round of the leader.                               *)

\* Without any placement group the list is None, and going through it raises.
list_all_groupids ==
  /\ In(Leader, "idle") /\ placement # {}
  /\ \E u \in placement :
       at' = [at EXCEPT ![Leader] = [pc |-> "survey", on |-> u, ninsts |-> Keep,
                                     todo |-> {v \in Users : exists(v)}]]
  /\ UNCHANGED <<aws, sess, faults>>

\* Mutant: the names of sessions and of clusters are never the same.
survey_unmatched ==
  /\ In(Leader, "survey") /\ goes(Leader, "next")
  /\ UNCHANGED <<aws, sess, faults>>

\* The sessions on an instance that does not answer are not counted.
get_active_sessions ==
  /\ In(Leader, "survey")
  /\ \E silent \in SUBSET sess :
       /\ silent # {} => faults < MaxFaults
       /\ faults' = IF silent = {} THEN faults ELSE faults + 1
       /\ at' = [at EXCEPT ![Leader].pc = "next", ![Leader].todo = @ \ (sess \ silent)]
  /\ UNCHANGED <<aws, sess>>

do_periodic_task ==
  /\ In(Leader, "next")
  /\ IF at[Leader].todo = {} THEN raise(Leader)
     ELSE \E u \in at[Leader].todo :
            at' = [at EXCEPT ![Leader].pc = "decide", ![Leader].on = u, ![Leader].todo = @ \ {u}]
  /\ UNCHANGED <<aws, sess, faults>>

-----------------------------------------------------------------------------
(* Sessions, Amazon, failures.                                             *)

session_starts(u) == u \in Returning /\ sess' = sess \cup {u} /\ UNCHANGED <<aws, at, faults>>
session_ends(u)   == sess' = sess \ {u} /\ UNCHANGED <<aws, at, faults>>

\* Amazon starts and stops instances until there are as many as desired.
scale(u) ==
  /\ group[u].there /\ insts[u] # group[u].desired /\ (insts[u] < group[u].desired => u \in placement)
  /\ insts' = [insts EXCEPT ![u] = group[u].desired]
  /\ UNCHANGED <<placement, config, group, sess, at, faults>>

fail(a) ==
  /\ ~In(a, "idle") /\ faults < MaxFaults
  /\ faults' = faults + 1 /\ raise(a)
  /\ UNCHANGED <<aws, sess>>

Next ==
  \/ \E a \in Actors : Step(a) \/ fail(a)
  \/ \E u \in Users : post_terminate(u) \/ post_create(u) \/ session_starts(u) \/ session_ends(u) \/ scale(u)
  \/ list_all_groupids \/ get_active_sessions \/ do_periodic_task

Spec == Init /\ [][Next]_vars

\* Requests and rounds go on, rounds are periodic, Amazon does what it was told.
Fairness ==
  /\ \A a \in Actors : WF_vars(Step(a))
  /\ WF_vars(get_active_sessions \/ do_periodic_task) /\ SF_vars(list_all_groupids)
  /\ \A u \in Users : WF_vars(scale(u))
FairSpec == Spec /\ Fairness

-----------------------------------------------------------------------------
(* Properties.                                                             *)

\* Housekeeping goes by placement groups: it is blind to a cluster without one, and
\* blind altogether when there is none.  A delete of the leader and a create of the
\* user that overlap can leave such a cluster.
Visible == \A u \in Users : isactive(u) => u \in placement

\* Users who are gone cost nothing in the end: whatever they left half made or
\* half deleted has no instances, as long as housekeeping sees it.
Stopped ==
  []Visible /\ (\A u \in Users : <>[](u \notin sess)) => \A u \in Users : <>[]~isactive(u)

\* No half made or half deleted cluster is a dead end: a user who keeps on
\* terminating and creating, in a session that stays, gets a cluster again.
Insists(u)  == SF_vars(post_terminate(u)) /\ SF_vars(post_create(u))
Recoverable == \A u \in Users : <>[](u \in sess) /\ Insists(u) => []<>group[u].there

\* The leader keeps its hands off the cluster of a session that stays, once what it
\* saw before the session began, or while its instance did not answer, is dealt with.
Spared == \A u \in Users :
  <>[](u \in sess) => <>[](at[Leader].pc \in States => at[Leader].on # u)

=============================================================================
