---------------------------- MODULE Plugins_proofs ---------------------------
(***************************************************************************)
(* Facts about the plugins: the clusters users start (UserClusters), the   *)
(* tables of a single node (Tables), of APIs (ApiSpecs) and of homework    *)
(* (Reports), and how months are counted (Statistics).                     *)
(***************************************************************************)
EXTENDS UserClusters, ApiSpecs, TLAPS

CONSTANTS ANSWER_KEY, Flags, yyyymm(_), yyyymmdd(_), AnyColumns, AnyKey

INSTANCE Reports
INSTANCE Statistics
G == INSTANCE Tables WITH Columns <- AnyColumns, Key <- AnyKey

Deleting == {"decide", "terminate", "delete", "delete_config", "delete_placement"}
Creating == {"create", "create_config", "create_group", "start"}

Requests(u) == [pc : Deleting, on : {u}, ninsts : {Keep} \cup 0 .. MaxInsts]
               \cup [pc : Creating, on : {u}, ninsts : 0 .. MaxInsts]
Rounds      == [pc : {"survey", "next"} \cup Deleting, on : Users, ninsts : {Keep}, todo : SUBSET Users]
Jobs(a)     == {Idle} \cup (IF a = Leader THEN Rounds ELSE Requests(a))

Resources ==
  /\ placement \subseteq Users /\ config \subseteq Users /\ sess \subseteq Users
  /\ group \in [Users -> Groups] /\ insts \in [Users -> 0 .. MaxInsts]
  /\ \A u \in Users : group[u].there \/ group[u] = NoGroup

Working == at \in [Actors -> UNION {Jobs(a) : a \in Actors}] /\ \A a \in Actors : at[a] \in Jobs(a)

\* A request keeps to the cluster of its user, a round deletes and makes nothing,
\* and only a request that says how many instances it wants comes to make any.
IInv == Resources /\ Working /\ faults \in 0 .. MaxFaults

\* A cluster is made, and instances are started, by a request of its own user and by
\* nothing else: not by another user, and not by the leader that clears it away with
\* the very same calls.
OwnRequests ==
  [][\A u \in Users :
       /\ ~group[u].there /\ group'[u].there => at[u].pc = "create_group"
       /\ group'[u].desired > group[u].desired => at[u].pc = "start"]_vars

-----------------------------------------------------------------------------
(* Jobs.                                                                   *)

LEMMA Kinds ==
  ASSUME NEW a \in Actors, NEW j \in Jobs(a), j.pc # "idle"
  PROVE  /\ a = Leader => j \in Rounds
         /\ a # Leader => a \in Users /\ j \in Requests(a)
         /\ j.on \in Users
         /\ j.pc \in Creating => a # Leader /\ j.on = a /\ j.ninsts \in 0 .. MaxInsts
<1>1. a = Leader => j \in Rounds
  BY DEF Jobs, Idle
<1>2. a # Leader => a \in Users /\ j \in Requests(a)
  BY DEF Jobs, Idle, Actors
<1> QED
  BY <1>1, <1>2 DEF Rounds, Requests, Creating, Deleting

\* A job goes on to another call.
LEMMA GoesOn ==
  ASSUME NEW a \in Actors, NEW j \in Jobs(a), j.pc # "idle", NEW pc \in States \cup {"next"},
         a = Leader => pc \in {"next"} \cup Deleting,
         a # Leader => pc \in States,
         a # Leader /\ pc \in Creating => j.ninsts \in 0 .. MaxInsts
  PROVE  [j EXCEPT !.pc = pc] \in Jobs(a)
<1>1. CASE a = Leader
  BY <1>1, Kinds DEF Rounds, Jobs
<1>2. CASE a # Leader
  <2>1. j \in Requests(a)
    BY <1>2, Kinds
  <2>2. pc \in Deleting \/ pc \in Creating
    BY <1>2 DEF States, Deleting, Creating
  <2> QED
    BY <1>2, <2>1, <2>2 DEF Requests, Jobs
<1> QED
  BY <1>1, <1>2

LEMMA Works ==
  ASSUME IInv, NEW a \in Actors, NEW j \in Jobs(a), at' = [at EXCEPT ![a] = j]
  PROVE  Working'
<1>1. j \in UNION {Jobs(b) : b \in Actors}
  OBVIOUS
<1> QED
  BY <1>1 DEF IInv, Working

\* The ways on: an exception, the end of a request or of a cluster, the next call.
LEMMA Ways ==
  ASSUME IInv, NEW a \in Actors
  PROVE  /\ raise(a) => Working'
         /\ ~In(a, "idle") /\ done(a) => Working'
         /\ ~In(a, "idle") /\ deleted(a) => Working'
         /\ \A pc \in Deleting : ~In(a, "idle") /\ goes(a, pc) => Working'
         /\ \A pc \in Creating : at[a].pc \in Creating /\ goes(a, pc) => Working'
<1> DEFINE next(pc) == [at[a] EXCEPT !.pc = pc]
<1>0. at[a] \in Jobs(a) /\ Idle \in Jobs(a)
  BY DEF IInv, Working, Jobs
<1>1. raise(a) => Working'
  BY <1>0, Works DEF raise
<1>2. \A pc \in States \cup {"next"} :
        /\ ~In(a, "idle")
        /\ a = Leader => pc \in {"next"} \cup Deleting
        /\ a # Leader => pc \in States
        /\ a # Leader /\ pc \in Creating => at[a].ninsts \in 0 .. MaxInsts
        => next(pc) \in Jobs(a)
  BY <1>0, GoesOn DEF In
<1>3. \A pc : goes(a, pc) => at' = [at EXCEPT ![a] = next(pc)]
  BY DEF goes
<1>4. ~In(a, "idle") /\ done(a) => Working'
  <2> SUFFICES ASSUME ~In(a, "idle"), done(a) PROVE Working'
    OBVIOUS
  <2>1. CASE a = Leader
    <3>1. at' = [at EXCEPT ![a] = next("next")]
      BY <2>1 DEF done
    <3>2. next("next") \in Jobs(a)
      BY <1>2, <2>1
    <3> HIDE DEF next
    <3> QED
      BY <3>1, <3>2, Works
  <2>2. CASE a # Leader
    <3>1. at' = [at EXCEPT ![a] = Idle]
      BY <2>2 DEF done
    <3> QED
      BY <1>0, <3>1, Works
  <2> QED
    BY <2>1, <2>2
<1>5. \A pc \in Deleting : ~In(a, "idle") /\ goes(a, pc) => Working'
  <2>1. \A pc \in Deleting : pc \in States /\ pc \notin Creating
    BY DEF Deleting, Creating, States
  <2> HIDE DEF next
  <2> QED
    BY <1>2, <1>3, <2>1, Works
<1>6. \A pc \in Creating : at[a].pc \in Creating /\ goes(a, pc) => Working'
  <2>1. at[a].pc \in Creating => ~In(a, "idle") /\ a # Leader /\ at[a].ninsts \in 0 .. MaxInsts
    BY <1>0, Kinds DEF In, Creating
  <2>2. Creating \subseteq States
    BY DEF Creating, States
  <2> HIDE DEF next
  <2> QED
    BY <1>2, <1>3, <2>1, <2>2, Works
<1>7. ~In(a, "idle") /\ deleted(a) => Working'
  <2> SUFFICES ASSUME ~In(a, "idle"), deleted(a), at[a].ninsts # Keep PROVE Working'
    BY <1>4 DEF deleted
  <2>1. a # Leader /\ at[a].ninsts \in 0 .. MaxInsts
    <3>1. a = Leader => at[a].ninsts = Keep
      BY <1>0, Kinds DEF In, Rounds
    <3>2. a # Leader => at[a].ninsts \in {Keep} \cup 0 .. MaxInsts
      BY <1>0, Kinds DEF In, Requests
    <3> QED
      BY <3>1, <3>2
  <2>2. next("create") \in Jobs(a)
    BY <1>2, <2>1 DEF States
  <2>3. goes(a, "create")
    BY DEF deleted
  <2> HIDE DEF next
  <2> QED
    BY <1>3, <2>2, <2>3, Works
<1> QED
  BY <1>1, <1>4, <1>5, <1>6, <1>7

\* A group that is changed, made or deleted.
LEMMA Grouped ==
  ASSUME NEW g \in Groups, NEW n \in 0 .. MaxInsts
  PROVE  LET h == [g EXCEPT !.desired = n] IN
         /\ h \in Groups /\ h.there = g.there /\ h.desired = n /\ g.max \in 0 .. MaxInsts
         /\ [max |-> n, desired |-> 0, there |-> TRUE] \in Groups
         /\ NoGroup \in Groups
BY UserClustersAssumption DEF Groups, NoGroup

LEMMA Regroups ==
  ASSUME IInv, NEW u \in Users, NEW g \in Groups, g.there \/ g = NoGroup,
         group' = [group EXCEPT ![u] = g],
         placement' = placement, config' = config, insts' = insts, sess' = sess
  PROVE  Resources'
BY DEF IInv, Resources

-----------------------------------------------------------------------------
(* Steps.                                                                  *)

LEMMA Steps ==
  ASSUME IInv, NEW a \in Actors, Step(a)
  PROVE  IInv'
<1> USE DEF In
<1>0. ~In(a, "idle") /\ at[a].on \in Users /\ at[a].pc # "idle"
  <2>1. at[a].pc # "idle"
    BY DEF Step, terminate_or_delete, terminate, delete_autoscale_group, delete_launch_config,
           delete_placement_group, create_placement_group, create_launch_config, create_autoscale_group, start
  <2>2. at[a] \in Jobs(a)
    BY DEF IInv, Working
  <2> QED
    BY <2>1, <2>2, Kinds
<1> DEFINE u == at[a].on
           wanted(g, n) == [g EXCEPT !.desired = n]
<1>00. /\ group[u] \in Groups
       /\ \A g \in Groups, n \in 0 .. MaxInsts : wanted(g, n) \in Groups /\ wanted(g, n).there = g.there
  BY <1>0, Grouped DEF IInv, Resources
<1> HIDE DEF wanted
<1>1. CASE terminate_or_delete(a)
  <2>1. Working'
    BY <1>0, <1>1, Ways DEF terminate_or_delete, Deleting
  <2> QED
    BY <1>1, <2>1 DEF terminate_or_delete, aws, IInv, Resources
<1>2. CASE terminate(a)
  <2>1. Working'
    BY <1>0, <1>2, Ways DEF terminate
  <2>2. \/ group' = group
        \/ group[u].there /\ group' = [group EXCEPT ![u] = wanted(group[u], 0)]
    BY <1>2 DEF terminate, wanted
  <2>3. 0 \in 0 .. MaxInsts
    BY UserClustersAssumption
  <2>4. CASE group' = group
    BY <1>2, <2>1, <2>4 DEF terminate, IInv, Resources
  <2>5. CASE group' # group
    BY <1>0, <1>00, <1>2, <2>1, <2>2, <2>3, <2>5, Regroups DEF terminate, IInv
  <2> QED
    BY <2>4, <2>5
<1>3. CASE delete_autoscale_group(a)
  <2>1. Working'
    BY <1>0, <1>3, Ways DEF delete_autoscale_group, Deleting
  <2>2. group' = group \/ group' = [group EXCEPT ![u] = NoGroup]
    BY <1>3 DEF delete_autoscale_group
  <2>3. NoGroup \in Groups
    BY UserClustersAssumption DEF Groups, NoGroup
  <2>4. CASE group' = group
    BY <1>3, <2>1, <2>4 DEF delete_autoscale_group, IInv, Resources
  <2>5. CASE group' # group
    BY <1>0, <1>3, <2>1, <2>2, <2>3, <2>5, Regroups DEF delete_autoscale_group, IInv
  <2> QED
    BY <2>4, <2>5
<1>4. CASE delete_launch_config(a)
  <2>1. Working'
    BY <1>0, <1>4, Ways DEF delete_launch_config, Deleting
  <2> QED
    BY <1>4, <2>1 DEF delete_launch_config, IInv, Resources
<1>5. CASE delete_placement_group(a)
  <2>1. Working'
    BY <1>0, <1>5, Ways DEF delete_placement_group
  <2> QED
    BY <1>5, <2>1 DEF delete_placement_group, IInv, Resources
<1>6. CASE create_placement_group(a)
  <2>1. Working'
    BY <1>0, <1>6, Ways DEF create_placement_group, Creating
  <2> QED
    BY <1>0, <1>6, <2>1 DEF create_placement_group, IInv, Resources
<1>7. CASE create_launch_config(a)
  <2>1. Working'
    BY <1>0, <1>7, Ways DEF create_launch_config, Creating
  <2> QED
    BY <1>0, <1>7, <2>1 DEF create_launch_config, IInv, Resources
<1>8. CASE create_autoscale_group(a)
  <2>1. Working'
    BY <1>0, <1>8, Ways DEF create_autoscale_group, Creating
  <2>2. at[a].ninsts \in 0 .. MaxInsts
    BY <1>8, Kinds DEF create_autoscale_group, IInv, Working, Creating
  <2>3. \/ group' = group
        \/ group' = [group EXCEPT ![u] = [max |-> at[a].ninsts, desired |-> 0, there |-> TRUE]]
    BY <1>8 DEF create_autoscale_group
  <2>4. CASE group' = group
    BY <1>8, <2>1, <2>4 DEF create_autoscale_group, IInv, Resources
  <2>5. CASE group' # group
    <3> DEFINE g == [max |-> at[a].ninsts, desired |-> 0, there |-> TRUE]
    <3>1. g \in Groups /\ g.there /\ group' = [group EXCEPT ![u] = g]
      BY <2>2, <2>3, <2>5, UserClustersAssumption DEF Groups
    <3> HIDE DEF g
    <3> QED
      BY <1>0, <1>8, <2>1, <3>1, Regroups DEF create_autoscale_group, IInv
  <2> QED
    BY <2>4, <2>5
<1>9. CASE start(a)
  <2>1. Working'
    BY <1>0, <1>9, Ways DEF start
  <2>2. \/ group' = group
        \/ group[u].there /\ group' = [group EXCEPT ![u] = wanted(group[u], group[u].max)]
    BY <1>9 DEF start, wanted
  <2>3. group[u].max \in 0 .. MaxInsts
    BY <1>00 DEF Groups
  <2>4. CASE group' = group
    BY <1>9, <2>1, <2>4 DEF start, IInv, Resources
  <2>5. CASE group' # group
    <3> DEFINE g == wanted(group[u], group[u].max)
    <3>1. g \in Groups /\ g.there /\ group' = [group EXCEPT ![u] = g]
      BY <1>00, <2>2, <2>3, <2>5
    <3> HIDE DEF g
    <3> QED
      BY <1>0, <1>9, <2>1, <3>1, Regroups DEF start, IInv
  <2> QED
    BY <2>4, <2>5
<1> QED
  BY <1>1, <1>2, <1>3, <1>4, <1>5, <1>6, <1>7, <1>8, <1>9 DEF Step

\* What a handler or the leader begins.
LEMMA Begins ==
  ASSUME IInv, \/ \E u \in Users : post_terminate(u) \/ post_create(u)
               \/ list_all_groupids \/ get_active_sessions \/ do_periodic_task
  PROVE  IInv'
<1> USE DEF In
<1>1. ASSUME NEW u \in Users, post_terminate(u) \/ post_create(u) PROVE Working'
  <2>1. u \in Actors /\ u # Leader
    BY UserClustersAssumption DEF Actors
  <2>2. PICK j : j \in Requests(u) /\ at' = [at EXCEPT ![u] = j]
    BY <1>1 DEF post_terminate, post_create, Requests, Deleting
  <2> QED
    BY <2>1, <2>2, Works DEF Jobs
<1>2. Leader \in Actors /\ Leader \notin Users /\ at[Leader] \in Jobs(Leader)
  BY UserClustersAssumption DEF Actors, IInv, Working
<1>3. ASSUME list_all_groupids PROVE Working'
  <2>1. PICK j : j \in Rounds /\ at' = [at EXCEPT ![Leader] = j]
    BY <1>3 DEF list_all_groupids, Rounds, IInv, Resources
  <2> QED
    BY <1>2, <2>1, Works DEF Jobs
<1> DEFINE counted(j, left)   == [j EXCEPT !.pc = "next", !.todo = left]
           chosen(j, u, left) == [j EXCEPT !.pc = "decide", !.on = u, !.todo = left]
<1>4. \A j \in Rounds, left \in SUBSET Users :
        counted(j, left) \in Rounds /\ \A u \in Users : chosen(j, u, left) \in Rounds
  BY DEF Rounds, Deleting
<1>4a. \A j \in Rounds : j.todo \subseteq Users
  BY DEF Rounds
<1>5. at[Leader].pc # "idle" => at[Leader] \in Rounds
  BY <1>2, Kinds
<1>6. ASSUME get_active_sessions PROVE Working'
  <2>1. PICK silent \in SUBSET sess :
          at' = [at EXCEPT ![Leader] = counted(at[Leader], at[Leader].todo \ (sess \ silent))]
    BY <1>6 DEF get_active_sessions
  <2> HIDE DEF counted, chosen
  <2>2. at[Leader] \in Rounds
    BY <1>5, <1>6 DEF get_active_sessions
  <2>3. counted(at[Leader], at[Leader].todo \ (sess \ silent)) \in Rounds
    BY <1>4, <1>4a, <2>2
  <2> QED
    BY <1>2, <2>1, <2>3, Works DEF Jobs
<1>7. ASSUME do_periodic_task PROVE Working'
  <2>1. CASE raise(Leader)
    BY <1>2, <2>1, Ways
  <2>2. CASE ~raise(Leader)
    <3>1. PICK u \in at[Leader].todo :
            at' = [at EXCEPT ![Leader] = chosen(at[Leader], u, at[Leader].todo \ {u})]
      BY <1>7, <2>2 DEF do_periodic_task
    <3> HIDE DEF chosen, counted
    <3>3. at[Leader] \in Rounds
      BY <1>5, <1>7 DEF do_periodic_task
    <3>2. chosen(at[Leader], u, at[Leader].todo \ {u}) \in Rounds
      BY <1>4, <1>4a, <3>1, <3>3
    <3> QED
      BY <1>2, <3>1, <3>2, Works DEF Jobs
  <2> QED
    BY <2>1, <2>2
<1>8. Working' /\ UNCHANGED <<aws, sess>>
  BY <1>1, <1>3, <1>6, <1>7 DEF post_terminate, post_create, list_all_groupids, get_active_sessions, do_periodic_task
<1>9. faults' = faults \/ (faults < MaxFaults /\ faults' = faults + 1)
  BY DEF post_terminate, post_create, list_all_groupids, get_active_sessions, do_periodic_task
<1>10. faults' \in 0 .. MaxFaults
  BY <1>9, UserClustersAssumption DEF IInv
<1> QED
  BY <1>8, <1>10 DEF IInv, Resources, aws

LEMMA Invariant == Spec => []IInv
<1>1. Init => IInv
  <2> SUFFICES ASSUME Init PROVE IInv
    OBVIOUS
  <2>1. Working
    BY DEF Init, Working, Jobs
  <2>2. Resources /\ faults \in 0 .. MaxFaults
    BY UserClustersAssumption DEF Init, Resources, Groups, NoGroup
  <2> QED
    BY <2>1, <2>2 DEF IInv
<1>2. IInv /\ [Next]_vars => IInv'
  <2> SUFFICES ASSUME IInv, [Next]_vars PROVE IInv'
    OBVIOUS
  <2>1. ASSUME NEW a \in Actors, Step(a) PROVE IInv'
    BY <2>1, Steps
  <2>2. ASSUME NEW a \in Actors, fail(a) PROVE IInv'
    <3>1. Working'
      BY <2>2, Ways DEF fail
    <3> QED
      BY <2>2, <3>1, UserClustersAssumption DEF fail, aws, IInv, Resources
  <2>3. ASSUME NEW u \in Users, session_starts(u) \/ session_ends(u) PROVE IInv'
    BY <2>3 DEF session_starts, session_ends, aws, IInv, Resources, Working
  <2>4. ASSUME NEW u \in Users, scale(u) PROVE IInv'
    <3>1. Resources'
      BY <2>4 DEF scale, IInv, Resources, Groups
    <3> QED
      BY <2>4, <3>1 DEF scale, IInv, Working
  <2>5. ASSUME UNCHANGED vars PROVE IInv'
    BY <2>5 DEF vars, aws, IInv, Resources, Working
  <2> QED
    BY <2>1, <2>2, <2>3, <2>4, <2>5, Begins DEF Next
<1> QED
  BY <1>1, <1>2, PTL DEF Spec

\* The types of all variables, and that what is no group is empty.
THEOREM TypeCorrect == Spec => []TypeOK
<1>1. IInv => TypeOK
  <2> SUFFICES ASSUME IInv PROVE TypeOK
    OBVIOUS
  <2>1. DOMAIN at = Actors /\ Leader \in Actors /\ \A u \in Users : u \in Actors /\ u # Leader
    BY UserClustersAssumption DEF IInv, Working, Actors
  <2>2. \A u \in Users : at[u] \in Asked \cup {Idle}
    BY <2>1 DEF IInv, Working, Jobs, Requests, Asked, States, Deleting, Creating
  <2>3. at[Leader] \in Round \cup {Idle}
    BY <2>1 DEF IInv, Working, Jobs, Rounds, Round, States, Deleting
  <2> QED
    BY <2>1, <2>2, <2>3 DEF IInv, Resources, TypeOK
<1> QED
  BY <1>1, Invariant, PTL

-----------------------------------------------------------------------------
(* A cluster is the work of its own user (OwnRequests above): every step   *)
(* that makes a group or asks for more instances is one of Creating, where *)
(* the actor is the user.                                                  *)

THEOREM OwnRequest == Spec => OwnRequests
<1> DEFINE Own == \A u \in Users :
             /\ ~group[u].there /\ group'[u].there => at[u].pc = "create_group"
             /\ group'[u].desired > group[u].desired => at[u].pc = "start"
<1>1. ASSUME IInv, NEW a \in Actors, Step(a) PROVE Own
  <2>1. CASE create_autoscale_group(a)
    <3>1. at[a].on = a /\ a \in Users /\ at[a].pc = "create_group"
      BY <1>1, <2>1, Kinds DEF create_autoscale_group, In, IInv, Working, Creating
    <3>2. \A u \in Users : group'[u].desired = 0 \/ group'[u] = group[u]
      BY <1>1, <2>1 DEF create_autoscale_group, IInv, Resources
    <3>3. \A u \in Users : u # a => group'[u] = group[u]
      BY <1>1, <2>1, <3>1 DEF create_autoscale_group, IInv, Resources
    <3>4. \A u \in Users : group[u].desired \in 0 .. MaxInsts
      BY <1>1 DEF IInv, Resources, Groups
    <3> QED
      BY <3>1, <3>2, <3>3, <3>4, UserClustersAssumption
  <2>2. CASE start(a)
    <3>1. at[a].on = a /\ a \in Users /\ at[a].pc = "start"
      BY <1>1, <2>2, Kinds DEF start, In, IInv, Working, Creating
    <3>2. \A u \in Users : group'[u].there = group[u].there /\ (u # a => group'[u] = group[u])
      BY <1>1, <2>2, <3>1 DEF start, IInv, Resources, Groups
    <3>3. \A u \in Users : group[u].desired \in 0 .. MaxInsts
      BY <1>1 DEF IInv, Resources, Groups
    <3> QED
      BY <3>1, <3>2, <3>3, UserClustersAssumption
  <2>3. CASE terminate(a)
    <3>1. \A u \in Users : group'[u].there = group[u].there /\ (group'[u].desired = 0 \/ group'[u] = group[u])
      BY <1>1, <2>3 DEF terminate, IInv, Resources, Groups
    <3>2. \A u \in Users : group[u].desired \in 0 .. MaxInsts
      BY <1>1 DEF IInv, Resources, Groups
    <3> QED
      BY <3>1, <3>2, UserClustersAssumption
  <2>4. CASE delete_autoscale_group(a)
    <3>1. \A u \in Users : group'[u] = NoGroup \/ group'[u] = group[u]
      BY <1>1, <2>4 DEF delete_autoscale_group, IInv, Resources
    <3>2. \A u \in Users : group[u].desired \in 0 .. MaxInsts
      BY <1>1 DEF IInv, Resources, Groups
    <3> QED
      BY <3>1, <3>2, UserClustersAssumption DEF NoGroup
  <2>5. CASE group' = group
    BY <1>1, <2>5 DEF IInv, Resources, Groups
  <2> QED
    BY <1>1, <2>1, <2>2, <2>3, <2>4, <2>5
       DEF Step, terminate_or_delete, delete_launch_config, delete_placement_group,
           create_placement_group, create_launch_config, aws
<1>2. ASSUME IInv, group' = group PROVE Own
  BY <1>2 DEF IInv, Resources, Groups
<1>3. IInv /\ [Next]_vars => [Own]_vars
  <2> SUFFICES ASSUME IInv, [Next]_vars PROVE Own
    OBVIOUS
  <2>1. (\E a \in Actors : Step(a)) \/ group' = group
    BY DEF Next, fail, post_terminate, post_create, session_starts, session_ends, scale, list_all_groupids,
           get_active_sessions, do_periodic_task, vars, aws
  <2> HIDE DEF Own
  <2> QED
    BY <1>1, <1>2, <2>1
<1> QED
  BY <1>3, Invariant, PTL DEF Spec, OwnRequests

-----------------------------------------------------------------------------
(* Rows.                                                                   *)

\* The stored form of a record has the record's key.
LEMMA StoredKey ==
  ASSUME AnyKey \subseteq AnyColumns, NEW record, G!HasKey(record)
  PROVE  G!SameKey(G!Stored(record), record) /\ \A r : G!SameKey(r, G!Stored(record)) <=> G!SameKey(r, record)
BY DEF G!HasKey, G!SameKey, G!Stored

\* insert, update and delete (impl_sqlite3) leave at most one row for a key.
THEOREM UniqueKeys ==
  ASSUME AnyKey \subseteq AnyColumns, NEW rows, NEW record, G!KeysUnique(rows), G!HasKey(record)
  PROVE  G!KeepsKeysUnique(rows, record)
<1>1. G!KeysUnique(G!insert(rows, record))
  <2>1. CASE G!refused(rows, record)
    BY <2>1 DEF G!insert
  <2>2. CASE ~G!refused(rows, record)
    <3>1. \A r \in rows : ~G!SameKey(r, G!Stored(record)) /\ ~G!SameKey(G!Stored(record), r)
      <4>1. \A r \in rows : ~G!SameKey(r, record)
        BY <2>2 DEF G!refused
      <4>2. \A r : G!SameKey(G!Stored(record), r) => G!SameKey(r, G!Stored(record))
        BY DEF G!SameKey
      <4> QED
        BY <4>1, <4>2, StoredKey
    <3> QED
      BY <2>2, <3>1 DEF G!insert, G!KeysUnique
  <2> QED
    BY <2>1, <2>2
<1>2. G!KeysUnique(G!update(rows, record))
  <2> DEFINE new(r) == IF G!SameKey(r, record) THEN G!Stored(record) ELSE r
  <2> SUFFICES ASSUME NEW r \in rows, NEW s \in rows, G!SameKey(new(r), new(s))
               PROVE  new(r) = new(s)
    BY DEF G!KeysUnique, G!update
  <2>1. CASE G!SameKey(r, record) /\ G!SameKey(s, record)
    BY <2>1
  <2>2. CASE G!SameKey(r, record) /\ ~G!SameKey(s, record)
    <3>1. G!SameKey(G!Stored(record), s)
      BY <2>2
    <3>2. G!SameKey(s, G!Stored(record))
      BY <3>1 DEF G!SameKey
    <3> QED
      BY <3>2, <2>2, StoredKey
  <2>3. CASE ~G!SameKey(r, record) /\ G!SameKey(s, record)
    BY <2>3, StoredKey
  <2>4. CASE ~G!SameKey(r, record) /\ ~G!SameKey(s, record)
    BY <2>4 DEF G!KeysUnique
  <2> QED
    BY <2>1, <2>2, <2>3, <2>4
<1>3. G!KeysUnique(G!delete(rows, record))
  BY DEF G!KeysUnique, G!delete
<1> QED
  BY <1>1, <1>2, <1>3 DEF G!KeepsKeysUnique

\* JBoxDB.save of a record that nobody changed.
THEOREM SaveUnchanged ==
  ASSUME NEW rows, G!Rows(rows), G!KeysUnique(rows)
  PROVE  G!SavesWhatItRead(rows)
<1> SUFFICES ASSUME NEW r \in rows PROVE G!update(rows, r) = rows
  BY DEF G!SavesWhatItRead
<1>1. G!HasKey(r) /\ G!Stored(r) = r
  BY DEF G!Rows
<1>2. \A s \in rows : G!SameKey(s, r) => s = r
  BY DEF G!KeysUnique
<1> QED
  BY <1>1, <1>2 DEF G!update

\* JBoxDB.save of a record whose row has been deleted meanwhile.
THEOREM NoRevival ==
  ASSUME NEW rows, NEW record, G!HasKey(record)
  PROVE  G!StaysDeleted(rows, record)
<1>1. \A r \in G!delete(rows, record) : ~G!SameKey(r, record)
  BY DEF G!delete
<1> QED
  BY <1>1 DEF G!StaysDeleted, G!update

\* Two saves of one row: JBoxSQLiteTable.update writes every column.
THEOREM LostUpdate ==
  ASSUME AnyKey \subseteq AnyColumns, NEW rows, NEW a, NEW b
  PROVE  G!LastSaveWins(rows, a, b)
<1> SUFFICES ASSUME G!HasKey(a), G!HasKey(b), G!SameKey(a, b)
             PROVE  G!update(G!update(rows, a), b) = G!update(rows, b)
  BY DEF G!LastSaveWins
<1>1. \A r : G!SameKey(r, a) <=> G!SameKey(r, b)
  BY DEF G!SameKey
<1>2. G!SameKey(G!Stored(a), b)
  BY <1>1, StoredKey
<1> DEFINE one(r) == IF G!SameKey(r, a) THEN G!Stored(a) ELSE r
           two(r) == IF G!SameKey(r, b) THEN G!Stored(b) ELSE r
<1>3. \A r : two(one(r)) = two(r)
  BY <1>1, <1>2
<1>4. G!update(rows, a) = {one(r) : r \in rows} /\ G!update(rows, b) = {two(r) : r \in rows}
  BY DEF G!update
<1>5. G!update(G!update(rows, a), b) = {two(r) : r \in G!update(rows, a)}
  BY DEF G!update
<1> HIDE DEF one, two
<1> QED
  BY <1>3, <1>4, <1>5

-----------------------------------------------------------------------------
\* The stored form of an API has the name and the publisher that it was given.
LEMMA StoredSpec ==
  ASSUME NEW spec, "publisher" \in DOMAIN spec
  PROVE  T!Stored(spec).publisher = spec.publisher
BY DEF T!Stored, Columns

\* handle_create_api: the only change is a new API of the publisher.
LEMMA CreateOwn ==
  ASSUME NEW seen, NEW user, NEW req, NEW now, NEW r,
         r \in handle_create_api(seen, user, req, now).rows
  PROVE  r \in seen[3] \/ r.publisher = Publisher(user, req)
<1> DEFINE spec == [api_name |-> req.api_name, cmd |-> req.cmd, description |-> req.description,
                    publisher |-> Publisher(user, req), create_time |-> now]
<1>1. \/ handle_create_api(seen, user, req, now).rows = seen[3]
      \/ handle_create_api(seen, user, req, now).rows = T!insert(seen[3], spec)
  BY Zenon DEF handle_create_api, Response
<1>2. r \in seen[3] \/ r = T!Stored(spec)
  BY <1>1 DEF T!insert
<1>3. T!Stored(spec).publisher = Publisher(user, req)
  BY StoredSpec
<1> HIDE DEF spec
<1> QED
  BY <1>2, <1>3

\* ... and it takes nothing away.
LEMMA CreateKeeps ==
  ASSUME NEW seen, NEW user, NEW req, NEW now
  PROVE  seen[3] \subseteq handle_create_api(seen, user, req, now).rows
<1> DEFINE spec == [api_name |-> req.api_name, cmd |-> req.cmd, description |-> req.description,
                    publisher |-> Publisher(user, req), create_time |-> now]
<1>1. \/ handle_create_api(seen, user, req, now).rows = seen[3]
      \/ handle_create_api(seen, user, req, now).rows = T!insert(seen[3], spec)
  BY Zenon DEF handle_create_api, Response
<1> HIDE DEF spec
<1> QED
  BY <1>1 DEF T!insert

\* handle_delete_api: what goes has the key of an API that was the publisher's
\* when it was read.
LEMMA DeleteOwn ==
  ASSUME NEW rows, NEW then, NEW user, NEW req, Table(rows),
         NEW r \in then, r \notin handle_delete_api(rows, then, user, req).rows
  PROVE  \E api \in rows : T!SameKey(api, r) /\ api.publisher = Publisher(user, req)
<1> DEFINE found == named(rows, req.api_name)
           api == CHOOSE x \in found : TRUE
<1>1. /\ found # {} /\ get_publisher(api) = Publisher(user, req)
      /\ handle_delete_api(rows, then, user, req).rows = T!delete(then, api)
  <2> DEFINE answer == handle_delete_api(rows, then, user, req)
  <2>1. \/ answer.rows = then
        \/ found # {} /\ get_publisher(api) = Publisher(user, req) /\ answer.rows = T!delete(then, api)
    BY Zenon DEF handle_delete_api, Response
  <2> QED
    BY <2>1
<1>2. api \in rows
  <2>1. found \subseteq rows
    BY DEF named, T!select, T!matching
  <2>2. api \in found
    BY <1>1
  <2> QED
    BY <2>1, <2>2
<1> HIDE DEF found, api
<1>3. T!SameKey(r, api)
  BY <1>1 DEF T!delete
<1>4. T!SameKey(api, r)
  BY <1>3 DEF T!SameKey
<1>5. api.publisher = Publisher(user, req)
  BY <1>1, <1>2 DEF get_publisher, T!get_attrib, Table, T!Rows, Columns
<1> QED
  BY <1>2, <1>4, <1>5

\* A deletion adds nothing.
LEMMA DeleteAdds ==
  ASSUME NEW rows, NEW then, NEW user, NEW req
  PROVE  handle_delete_api(rows, then, user, req).rows \subseteq then
<1> DEFINE api == CHOOSE x \in named(rows, req.api_name) : TRUE
<1>1. \/ handle_delete_api(rows, then, user, req).rows = then
      \/ handle_delete_api(rows, then, user, req).rows = T!delete(then, api)
  BY Zenon DEF handle_delete_api, Response
<1> HIDE DEF api
<1> QED
  BY <1>1 DEF T!delete

\* APIAdminHandler.post on behalf of a user without the rights of an
\* administrator, whatever others do to the table between its calls.
THEOREM OthersSafe ==
  ASSUME NEW seen, NEW user, NEW req, NEW now, Table(seen[2])
  PROVE  OthersUntouched(seen, user, req, now)
<1> DEFINE rows == post(seen, user, req, now).rows
<1> SUFFICES ASSUME ~user.admin,
                    \A r \in seen[2], s \in seen[3] : T!SameKey(r, s) => r.publisher = s.publisher
             PROVE  /\ \A r \in seen[3] : r.publisher # user.id => r \in rows
                    /\ \A r \in rows \ seen[3] : r.publisher = user.id
  BY DEF OthersUntouched
<1>1. Publisher(user, req) = user.id
  BY DEF Publisher
<1>2. \/ rows = seen[3]
      \/ rows = handle_create_api(seen, user, req, now).rows
      \/ rows = handle_delete_api(seen[2], seen[3], user, req).rows
  BY Zenon DEF post, Response, handle_get_api_info
<1> HIDE DEF rows
<1>3. CASE rows = seen[3]
  BY <1>3
<1>4. CASE rows = handle_create_api(seen, user, req, now).rows
  BY <1>1, <1>4, CreateOwn, CreateKeeps
<1>5. CASE rows = handle_delete_api(seen[2], seen[3], user, req).rows
  <2>1. rows \subseteq seen[3]
    BY <1>5, DeleteAdds
  <2>2. \A r \in seen[3] : r \notin rows => r.publisher = user.id
    <3> TAKE r \in seen[3]
    <3> HAVE r \notin rows
    <3>1. PICK api \in seen[2] : T!SameKey(api, r) /\ api.publisher = Publisher(user, req)
      BY <1>5, DeleteOwn
    <3> QED
      BY <1>1, <3>1
  <2> QED
    BY <2>1, <2>2
<1> QED
  BY <1>2, <1>3, <1>4, <1>5

-----------------------------------------------------------------------------
\* An entry of a report tells of a record of the student asked for, and never
\* of the answer key (JBoxCourseHomework.get_report).
LEMMA EntryOf ==
  ASSUME NEW recs, NEW gid, NEW student, NEW s \in of_question(recs, gid, student).students
  PROVE  /\ s.id # ANSWER_KEY
         /\ student # NULL => s.id = student
         /\ \E r \in recs : r.student_id = s.id /\ s = entry(r)
<1>1. PICK r \in records(recs, gid, student) : r.student_id # ANSWER_KEY /\ s = entry(r)
  BY DEF of_question
<1>2. s.id = r.student_id
  BY <1>1 DEF entry
<1>3. r \in recs /\ (student = NULL \/ r.student_id \in {student, ANSWER_KEY})
  BY DEF records
<1> QED
  BY <1>1, <1>2, <1>3

\* The questions of a report are those of get_report for the student that
\* handle_if_report settles on.
LEMMA ReportOf ==
  ASSUME NEW recs, NEW course, NEW user, NEW req,
         handle_if_report(recs, course, user, req).code = 0
  PROVE  /\ Outsider(user, req.course) => student_id(user, req) = user.id
         /\ \A q \in question_ids(course, req) :
              handle_if_report(recs, course, user, req).data.questions[q]
                = of_question(recs, question_gid(req.course, req.problemset, q), student_id(user, req))
<1> DEFINE ids == question_ids(course, req)
           report == get_report(recs, req.course, req.problemset, ids, student_id(user, req))
<1>1. /\ Outsider(user, req.course) => student_id(user, req) = user.id
      /\ handle_if_report(recs, course, user, req) = [code |-> 0, data |-> report]
  <2>1. Refusal.code # 0
    BY DEF Refusal
  <2> QED
    BY <2>1 DEF handle_if_report
<1>2. report.questions = [q \in ids |-> of_question(recs, question_gid(req.course, req.problemset, q), student_id(user, req))]
  BY DEF get_report
<1> HIDE DEF report, ids
<1>3. handle_if_report(recs, course, user, req).data.questions = report.questions
  BY <1>1
<1> QED
  BY <1>1, <1>2, <1>3 DEF ids

\* Reports keep students from each other's records (handle_if_report).
THEOREM ReportsOwn ==
  ASSUME NEW recs, NEW course, NEW user, NEW req, user.id # NULL
  PROVE  OwnRecordsOnly(recs, course, user, req)
<1> DEFINE answer == handle_if_report(recs, course, user, req)
<1> SUFFICES ASSUME Outsider(user, req.course), answer.code = 0,
                    NEW q \in question_ids(course, req), NEW s \in answer.data.questions[q].students
             PROVE  s.id = user.id /\ \E r \in recs : r.student_id = user.id /\ s = entry(r)
  BY DEF OwnRecordsOnly
<1>1. answer.data.questions[q] = of_question(recs, question_gid(req.course, req.problemset, q), user.id)
  BY ReportOf
<1> HIDE DEF answer
<1> QED
  BY <1>1, EntryOf

\* Neither reports nor metadata tell the answers to those who do not offer the
\* course (get_report, get_problemset_metadata).
THEOREM KeySecret ==
  ASSUME NEW recs, NEW course, NEW user, NEW req
  PROVE  KeyHidden(recs, course, user, req)
<1> DEFINE report == handle_if_report(recs, course, user, req)
           metadata == handle_get_metadata(recs, course, user, req)
<1>1. ASSUME report.code = 0, NEW q \in question_ids(course, req), NEW s \in report.data.questions[q].students
      PROVE  s.id # ANSWER_KEY
  <2>1. report.data.questions[q] = of_question(recs, question_gid(req.course, req.problemset, q), student_id(user, req))
    BY <1>1, ReportOf
  <2> HIDE DEF report
  <2> QED
    BY <1>1, <2>1, EntryOf
<1>2. ASSUME Outsider(user, req.course), metadata.code = 0, NEW k \in metadata.data.questions
      PROVE  k.answer = NULL
  <2> DEFINE data == get_problemset_metadata(recs, req.course, req.problemset, question_ids(course, req), ~Outsider(user, req.course))
  <2>1. metadata = [code |-> 0, data |-> data]
    <3>1. metadata = Refusal \/ metadata = [code |-> 0, data |-> data]
      BY Zenon DEF handle_get_metadata
    <3> HIDE DEF metadata, data
    <3> QED
      BY <1>2, <3>1 DEF Refusal
  <2>2. \A x \in data.questions : x.answer = NULL
    BY <1>2 DEF get_problemset_metadata
  <2> HIDE DEF metadata, data
  <2> QED
    BY <1>2, <2>1, <2>2
<1> QED
  BY <1>1, <1>2 DEF KeyHidden

-----------------------------------------------------------------------------
\* count_created goes from a month to the very next one.
THEOREM MonthAfterMonth ==
  ASSUME NEW m \in Nat, IsMonth(m)
  PROVE  NextMonth(m)
<1>1. m % 100 \in 1..12 /\ m = 100 * (m \div 100) + (m % 100) /\ m \div 100 \in Nat
  BY DEF IsMonth
<1>2. CASE m % 100 = 12
  <2>1. next_month(m) = (m \div 100 + 1) * 100 + 1
    BY <1>2 DEF next_month
  <2> QED
    BY <1>1, <1>2, <2>1 DEF NextMonth, IsMonth
<1>3. CASE m % 100 # 12
  BY <1>1, <1>3 DEF NextMonth, IsMonth, next_month
<1> QED
  BY <1>2, <1>3
=============================================================================
