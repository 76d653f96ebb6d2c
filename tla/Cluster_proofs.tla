--------------------------- MODULE Cluster_proofs ---------------------------
(***************************************************************************)
(* Why a cluster never shrinks to nothing, although every instance decides *)
(* for itself, on a leader record that has no lock and on a list in which  *)
(* those that end still show.  And why a session is in one place, although *)
(* requests are sent from instance to instance and launches are queued.    *)
(***************************************************************************)
EXTENDS Cluster, TLAPS, FiniteSetTheorems, WellFoundedInduction

A      == get_all_instances
Types  ==
  /\ state \in [Instances -> {"off", "up", "leaving", "gone"}]
  /\ ami \in [Instances -> Versions]
  /\ leader \in Instances \cup {None}
  /\ hk \in [Instances -> [Servers -> Rounds]]

\* An instance that ends, or is about to.
Doomed(i) == state[i] = "leaving" \/ \E s \in Servers : hk[i][s] = "terminate"
Newest(i) == i \in A /\ \A k \in A : ami[k] <= ami[i]
Mixed     == \E k, l \in A : ami[k] < ami[l]

\* The rounds of one instance do not overlap; only listed instances have any.
Alone ==
  /\ \A i \in Instances, s, t \in Servers : s # t => hk[i][s] = "idle" \/ hk[i][t] = "idle"
  /\ \A i \in Instances, s \in Servers : hk[i][s] # "idle" => i \in A

\* While there are images of several versions, the instances with the newest stay.
NewestStays == Mixed => \A i \in A : Newest(i) => ~Doomed(i)

\* While all images are equal, the leader stays: whoever decides to end has found
\* one, and whoever writes the record does not end.
Safe == leader \in A /\ ~Doomed(leader)
LeaderStays == ~Mixed =>
  /\ \A i \in Instances, s \in Servers : hk[i][s] # "stepdown"
  /\ (\E i \in Instances, s \in Servers : hk[i][s] = "follow") => Safe
  /\ (\E i \in A : Doomed(i)) => Safe
  /\ \A i \in Instances, s \in Servers : state[i] = "leaving" => hk[i][s] # "elect"

IInv == Types /\ Alone /\ A # {} /\ NewestStays /\ LeaderStays

-----------------------------------------------------------------------------
(* Images.                                                                 *)

LEMMA Listed ==
  ASSUME Types
  PROVE  /\ A \subseteq Instances
         /\ \A i \in Instances : i \in A <=> state[i] \in {"up", "leaving"}
         /\ \A i \in Instances : ami[i] \in Nat /\ ami[i] <= LatestVersion
BY VersionsAssumption DEF A, get_all_instances, Types, Versions

LEMMA NewestExists ==
  ASSUME Types, A # {}
  PROVE  \E i \in A : Newest(i)
<1> DEFINE T == {LatestVersion - ami[i] : i \in A}
           R == OpToRel(<, Nat)
<1>1. T \subseteq Nat /\ T # {}
  BY Listed, VersionsAssumption
<1>2. IsWellFoundedOn(R, Nat)
  BY NatLessThanWellFounded
<1>3. PICK x \in T : \A y \in T : ~(<<y, x>> \in R)
  <2> HIDE DEF T, R
  <2> QED
    BY <1>1, <1>2, WFMin
<1>4. \A y \in T : ~(y < x)
  BY <1>1, <1>3 DEF OpToRel
<1>5. PICK i \in A : x = LatestVersion - ami[i]
  BY <1>3
<1>6. ASSUME NEW k \in A PROVE ami[k] <= ami[i]
  <2>1. ~(LatestVersion - ami[k] < LatestVersion - ami[i])
    BY <1>4, <1>5
  <2>2. ami[k] \in Nat /\ ami[i] \in Nat
    BY Listed
  <2> QED
    BY <2>1, <2>2, VersionsAssumption
<1> QED
  BY <1>6 DEF Newest

LEMMA Recentness ==
  ASSUME Types, NEW i \in A
  PROVE  /\ Mixed /\ Newest(i) => get_image_recentness(i) = 1
         /\ ~Mixed => get_image_recentness(i) = 0 /\ Newest(i)
<1> USE DEF A
<1>1. \A k \in A : ami[k] \in Nat
  BY Listed
<1>2. ASSUME Mixed, Newest(i) PROVE get_image_recentness(i) = 1
  <2>1. ~(\E k \in get_all_instances : ami[k] > ami[i])
    BY <1>1, <1>2 DEF Newest
  <2>2. ~(\A k \in get_all_instances : ami[k] = ami[i])
    BY <1>1, <1>2 DEF Mixed
  <2> QED
    BY <2>1, <2>2 DEF get_image_recentness
<1>3. ASSUME ~Mixed PROVE get_image_recentness(i) = 0 /\ Newest(i)
  <2>1. \A k \in get_all_instances : ami[k] = ami[i]
    BY <1>1, <1>3 DEF Mixed
  <2>2. ~(\E k \in get_all_instances : ami[k] > ami[i])
    BY <1>1, <2>1
  <2>3. Newest(i)
    BY <1>1, <2>1 DEF Newest
  <2> QED
    BY <2>1, <2>2, <2>3 DEF get_image_recentness
<1> QED
  BY <1>2, <1>3

-----------------------------------------------------------------------------
(* Rounds of housekeeping.                                                 *)

\* A step of one server that changes neither machines nor images.
LEMMA RoundTypes ==
  ASSUME IInv, NEW i \in Instances, NEW s \in Servers, NEW pc \in Rounds,
         hk' = [hk EXCEPT ![i][s] = pc], leader' \in Instances \cup {None},
         state' = state, ami' = ami, i \in A,
         hk[i][s] # "idle" \/ (\A t \in Servers \ {s} : hk[i][t] = "idle")
  PROVE  /\ Types' /\ Alone' /\ A' = A /\ (Mixed' <=> Mixed)
         /\ \A k \in Instances, t \in Servers : <<k, t>> # <<i, s>> => hk'[k][t] = hk[k][t]
         /\ hk'[i][s] = pc
         /\ \A t \in Servers \ {s} : hk[i][t] = "idle"
<1>1. Types'
  BY DEF IInv, Types
<1>2. A' = A
  BY DEF A, get_all_instances
<1>3. hk'[i][s] = pc /\ \A k \in Instances, t \in Servers : <<k, t>> # <<i, s>> => hk'[k][t] = hk[k][t]
  BY DEF IInv, Types
<1>4. \A t \in Servers \ {s} : hk[i][t] = "idle"
  BY DEF IInv, Alone
<1>5. Alone'
  BY <1>2, <1>3, <1>4 DEF IInv, Alone
<1>6. Mixed' <=> Mixed
  BY <1>2 DEF Mixed
<1> QED
  BY <1>1, <1>2, <1>3, <1>4, <1>5, <1>6

LEMMA Elections ==
  ASSUME IInv, Prompt, NEW i \in Instances, NEW s \in Servers, do_housekeeping(i, s)
  PROVE  IInv'
<1> DEFINE pc == is_cluster_leader(i)
<1>1. i \in A /\ hk[i][s] = "idle" /\ (\A t \in Servers \ {s} : hk[i][t] = "idle")
  BY DEF do_housekeeping, Undisturbed, A
<1>2. /\ pc \in {"elect", "follow", "stepdown", "idle"}
      /\ pc = "elect" => leader = None \/ leader \notin A
      /\ pc = "follow" => leader # None /\ leader # i /\ (leader \in A \/ ~(get_image_recentness(i) >= 0))
      /\ pc = "stepdown" => get_image_recentness(i) < 0
  BY Zenon DEF is_cluster_leader, A
<1> HIDE DEF pc
<1>3. /\ hk' = [hk EXCEPT ![i][s] = pc] /\ leader' = leader /\ state' = state /\ ami' = ami
  BY DEF do_housekeeping, group, pc
<1>4. /\ Types' /\ Alone' /\ A' = A /\ (Mixed' <=> Mixed)
      /\ \A k \in Instances, t \in Servers : <<k, t>> # <<i, s>> => hk'[k][t] = hk[k][t]
      /\ hk'[i][s] = pc
  BY <1>1, <1>2, <1>3, RoundTypes DEF Rounds, IInv, Types
<1>5. \A k \in Instances : Doomed(k)' <=> Doomed(k)
  BY <1>1, <1>2, <1>3, <1>4 DEF Doomed
<1>6. leader \in A => leader \in Instances
  BY Listed DEF IInv
<1>7. Safe' <=> Safe
  BY <1>3, <1>4, <1>5, <1>6 DEF Safe
<1>8. NewestStays'
  BY <1>3, <1>4, <1>5, Listed DEF IInv, NewestStays, Newest
<1>9. ASSUME ~Mixed PROVE /\ pc # "stepdown"
                          /\ pc = "follow" => Safe
                          /\ pc = "elect" => \A k \in A : ~Doomed(k)
  <2>1. get_image_recentness(i) = 0
    BY <1>1, <1>9, Recentness DEF IInv
  <2>2. (\E k \in A : Doomed(k)) => Safe
    BY <1>9 DEF IInv, LeaderStays
  <2>3. None \notin A
    BY Listed DEF IInv, Instances, None
  <2> QED
    BY <1>2, <2>1, <2>2, <2>3 DEF Safe
<1>10. LeaderStays'
  <2> SUFFICES ASSUME ~Mixed
               PROVE  /\ \A k \in Instances, t \in Servers : hk'[k][t] # "stepdown"
                      /\ (\E k \in Instances, t \in Servers : hk'[k][t] = "follow") => Safe
                      /\ (\E k \in A : Doomed(k)) => Safe
                      /\ \A k \in Instances, t \in Servers : state[k] = "leaving" => hk'[k][t] # "elect"
    BY <1>3, <1>4, <1>5, <1>7, Listed DEF IInv, LeaderStays
  <2>1. pc = "elect" => state[i] # "leaving"
    BY <1>1, <1>9 DEF Doomed
  <2> QED
    BY <1>4, <1>9, <2>1 DEF IInv, LeaderStays
<1> QED
  BY <1>1, <1>4, <1>8, <1>10 DEF IInv

LEMMA Records ==
  ASSUME IInv, NEW i \in Instances, NEW s \in Servers, set_cluster_leader(i, s) \/ unset_cluster_leader(i, s)
  PROVE  IInv'
<1>1. /\ hk' = [hk EXCEPT ![i][s] = "follow"] /\ state' = state /\ ami' = ami
      /\ hk[i][s] \in {"elect", "stepdown"}
      /\ hk[i][s] = "elect" => leader' = i
      /\ leader' \in Instances \cup {None}
  BY DEF set_cluster_leader, unset_cluster_leader, group
<1>2. i \in A
  BY <1>1 DEF IInv, Alone
<1>3. /\ Types' /\ Alone' /\ A' = A /\ (Mixed' <=> Mixed)
      /\ \A k \in Instances, t \in Servers : <<k, t>> # <<i, s>> => hk'[k][t] = hk[k][t]
      /\ hk'[i][s] = "follow"
      /\ \A t \in Servers \ {s} : hk[i][t] = "idle"
  BY <1>1, <1>2, RoundTypes DEF Rounds
<1>4. \A k \in Instances : Doomed(k)' <=> Doomed(k)
  BY <1>1, <1>3 DEF Doomed
<1>5. NewestStays'
  BY <1>1, <1>3, <1>4, Listed DEF IInv, NewestStays, Newest
<1>6. ASSUME ~Mixed PROVE Safe'
  <2>1. hk[i][s] = "elect" /\ leader' = i
    BY <1>1, <1>6 DEF IInv, LeaderStays
  <2>2. state[i] # "leaving"
    BY <1>6, <2>1 DEF IInv, LeaderStays
  <2>3. ~Doomed(i)
    BY <1>3, <2>1, <2>2 DEF Doomed
  <2>4. ~Doomed(i)'
    BY <1>4, <2>3
  <2> QED
    BY <1>2, <1>3, <2>1, <2>4 DEF Safe, Doomed
<1>7. LeaderStays'
  BY <1>1, <1>3, <1>6 DEF IInv, LeaderStays
<1> QED
  BY <1>2, <1>3, <1>5, <1>7 DEF IInv

LEMMA Decisions ==
  ASSUME IInv, NEW i \in Instances, NEW s \in Servers, is_terminating(i, s)
  PROVE  IInv'
<1> DEFINE pc == IF num_active(i) = 0 /\ can_terminate(i) THEN "terminate" ELSE "idle"
<1>1. /\ pc \in {"terminate", "idle"}
      /\ pc = "terminate" => leader # i /\ get_image_recentness(i) <= 0
  BY DEF can_terminate
<1>2. hk[i][s] = "follow" /\ hk' = [hk EXCEPT ![i][s] = pc] /\ leader' = leader /\ state' = state /\ ami' = ami
  BY DEF is_terminating, group
<1> HIDE DEF pc
<1>3. i \in A
  BY <1>2 DEF IInv, Alone
<1>4. /\ Types' /\ Alone' /\ A' = A /\ (Mixed' <=> Mixed)
      /\ \A k \in Instances, t \in Servers : <<k, t>> # <<i, s>> => hk'[k][t] = hk[k][t]
      /\ hk'[i][s] = pc
  BY <1>1, <1>2, <1>3, RoundTypes DEF Rounds, IInv, Types
<1>5. \A k \in Instances : Doomed(k)' => Doomed(k) \/ (k = i /\ pc = "terminate")
  BY <1>1, <1>2, <1>4 DEF Doomed
<1>6. NewestStays'
  <2>1. \A k \in A : Newest(k)' <=> Newest(k)
    BY <1>2, <1>4 DEF Newest
  <2>2. Mixed /\ Newest(i) => pc # "terminate"
    <3>1. ~(1 <= 0)
      OBVIOUS
    <3> QED
      BY <1>1, <1>3, <3>1, Recentness DEF IInv
  <2> QED
    BY <1>4, <1>5, <2>1, <2>2, Listed DEF IInv, NewestStays
<1>7. ASSUME ~Mixed PROVE Safe'
  <2>1. Safe
    BY <1>2, <1>7 DEF IInv, LeaderStays
  <2>2. leader \in Instances /\ (leader = i => pc # "terminate")
    BY <1>1, <2>1, Listed DEF IInv, Safe
  <2>3. ~Doomed(leader)'
    BY <1>2, <1>5, <2>1, <2>2 DEF Safe, Doomed
  <2> QED
    BY <1>2, <1>4, <2>1, <2>3 DEF Safe, Doomed
<1>8. LeaderStays'
  BY <1>1, <1>2, <1>4, <1>7 DEF IInv, LeaderStays
<1> QED
  BY <1>3, <1>4, <1>6, <1>8 DEF IInv

LEMMA Endings ==
  ASSUME IInv, NEW i \in Instances, NEW s \in Servers, terminate_instance(i, s)
  PROVE  IInv'
<1>1. /\ hk[i][s] = "terminate" /\ hk' = [hk EXCEPT ![i][s] = "idle"] /\ leader' = leader /\ ami' = ami
      /\ state' = [state EXCEPT ![i] = "leaving"]
  BY DEF terminate_instance
<1>2. i \in A /\ state[i] \in {"up", "leaving"} /\ \A t \in Servers \ {s} : hk[i][t] = "idle"
  BY <1>1, Listed DEF IInv, Alone
<1>3. /\ Types'
      /\ \A k \in Instances, t \in Servers : <<k, t>> # <<i, s>> => hk'[k][t] = hk[k][t]
      /\ hk'[i][s] = "idle"
      /\ \A k \in Instances \ {i} : state'[k] = state[k]
      /\ state'[i] = "leaving"
  BY <1>1 DEF IInv, Types, Rounds
<1>4. A' = A
  <2>1. \A k \in Instances : state'[k] \in {"up", "leaving"} <=> state[k] \in {"up", "leaving"}
    BY <1>2, <1>3
  <2> QED
    BY <2>1 DEF A, get_all_instances
<1>5. Alone' /\ (Mixed' <=> Mixed)
  BY <1>1, <1>2, <1>3, <1>4 DEF IInv, Alone, Mixed
<1>6. \A k \in Instances : Doomed(k)' <=> Doomed(k)
  BY <1>1, <1>3 DEF Doomed
<1>7. NewestStays'
  BY <1>1, <1>4, <1>5, <1>6, Listed DEF IInv, NewestStays, Newest
<1>8. Safe' <=> Safe
  BY <1>1, <1>4, <1>6, Listed DEF IInv, Safe
<1>9. LeaderStays'
  <2>1. \A t \in Servers : hk'[i][t] = "idle"
    BY <1>2, <1>3
  <2> SUFFICES ASSUME ~Mixed
               PROVE  /\ \A k \in Instances, t \in Servers : hk'[k][t] # "stepdown"
                      /\ (\E k \in Instances, t \in Servers : hk'[k][t] = "follow") => Safe
                      /\ (\E k \in A : Doomed(k)) => Safe
                      /\ \A k \in Instances, t \in Servers : state'[k] = "leaving" => hk'[k][t] # "elect"
    BY <1>4, <1>5, <1>6, <1>8, Listed DEF IInv, LeaderStays
  <2>2. \A k \in Instances \ {i} : state'[k] = state[k] /\ \A t \in Servers : hk'[k][t] = hk[k][t]
    BY <1>3
  <2> QED
    BY <2>1, <2>2 DEF IInv, LeaderStays
<1> QED
  BY <1>3, <1>4, <1>5, <1>7, <1>9 DEF IInv

-----------------------------------------------------------------------------
(* Machines.                                                               *)

LEMMA Vanishing ==
  ASSUME IInv, Prompt, NEW i \in Instances, vanish(i)
  PROVE  IInv'
<1>1. /\ state[i] = "leaving" /\ state' = [state EXCEPT ![i] = "gone"] /\ leader' = leader /\ ami' = ami
      /\ hk' = [hk EXCEPT ![i] = [s \in Servers |-> "idle"]]
      /\ \A k \in Instances, s \in Servers : hk[k][s] = "idle"
  BY DEF vanish, Calm
<1>2. Types' /\ (\A k \in Instances, s \in Servers : hk'[k][s] = "idle")
      /\ (\A k \in Instances \ {i} : state'[k] = state[k]) /\ state'[i] = "gone"
  BY <1>1 DEF IInv, Types, Rounds
<1>3. A' = A \ {i}
  BY <1>1, <1>2 DEF A, get_all_instances
<1>4. \A k \in Instances \ {i} : Doomed(k)' <=> Doomed(k)
  BY <1>1, <1>2 DEF Doomed
<1>5. i \in A /\ Doomed(i)
  BY <1>1, Listed DEF IInv, Doomed
<1>6. Alone'
  BY <1>2 DEF Alone
<1>7. CASE ~Mixed
  <2>1. Safe /\ leader # i
    BY <1>5, <1>7 DEF IInv, LeaderStays, Safe
  <2>2. leader \in A' /\ leader \in Instances \ {i}
    BY <1>3, <2>1, Listed DEF IInv, Safe
  <2>3. Safe'
    BY <1>1, <1>4, <2>1, <2>2 DEF Safe, Doomed
  <2>4. ~Mixed'
    BY <1>1, <1>3, <1>7 DEF Mixed
  <2>5. NewestStays' /\ LeaderStays'
    BY <1>2, <2>3, <2>4 DEF NewestStays, LeaderStays
  <2> QED
    BY <1>2, <1>6, <2>2, <2>5 DEF IInv
<1>8. CASE Mixed
  <2>1. PICK m \in A : Newest(m)
    BY NewestExists DEF IInv
  <2>2. m # i /\ m \in A'
    BY <1>3, <1>5, <1>8, <2>1 DEF IInv, NewestStays
  <2>3. \A k \in A' : ami'[k] = ami[k] /\ ami[k] \in Nat /\ k \in A
    BY <1>1, <1>3, Listed DEF IInv
  <2>4. \A k \in A' : Newest(k)' => Newest(k)
    <3>1. \A k \in A' : Newest(k)' => ami[m] <= ami[k]
      BY <1>1, <2>2 DEF Newest
    <3>2. \A l \in A : ami[l] <= ami[m] /\ ami[l] \in Nat
      BY <2>1, Listed DEF Newest, IInv
    <3> QED
      BY <2>3, <3>1, <3>2 DEF Newest
  <2>5. \A k \in A' : Newest(k)' => ~Doomed(k)'
    BY <1>3, <1>4, <1>8, <2>4, Listed DEF IInv, NewestStays
  <2>6. ~Mixed' => \A k \in A' : Newest(k)'
    BY <2>3 DEF Mixed, Newest
  <2>7. NewestStays' /\ LeaderStays'
    BY <1>2, <2>5, <2>6 DEF NewestStays, LeaderStays
  <2> QED
    BY <1>2, <1>6, <2>2, <2>7 DEF IInv
<1> QED
  BY <1>7, <1>8

LEMMA Booting ==
  ASSUME IInv, NEW i \in Instances, boot(i)
  PROVE  IInv'
<1>1. /\ state[i] = "off" /\ state' = [state EXCEPT ![i] = "up"] /\ leader' = leader /\ ami' = ami /\ hk' = hk
      /\ \A k \in A : ami[k] <= ami[i]
  BY DEF boot, A
<1>2. i \notin A /\ \A s \in Servers : hk[i][s] = "idle"
  BY <1>1, Listed DEF IInv, Alone
<1>3. Types' /\ (\A k \in Instances \ {i} : state'[k] = state[k]) /\ state'[i] = "up"
  BY <1>1 DEF IInv, Types
<1>4. A' = A \cup {i}
  BY <1>3 DEF A, get_all_instances
<1>5. Alone'
  BY <1>1, <1>4 DEF IInv, Alone
<1>6. (\A k \in Instances \ {i} : Doomed(k)' <=> Doomed(k)) /\ ~Doomed(i)'
  BY <1>1, <1>2, <1>3 DEF Doomed
<1>7. Safe => Safe'
  BY <1>1, <1>2, <1>4, <1>6, Listed DEF IInv, Safe, Doomed
<1>8. \A k \in A' : ami'[k] = ami[k] /\ ami[k] \in Nat /\ k \in Instances
  BY <1>1, <1>4, Listed DEF IInv
<1>9. NewestStays'
  <2>1. \A k \in A : Newest(k)' => Newest(k) /\ ami[i] <= ami[k]
    BY <1>1, <1>4 DEF Newest
  <2>2. ASSUME Mixed', NEW k \in A, Newest(k)' PROVE Mixed
    <3>1. \A l \in A' : ami[l] <= ami[k]
      BY <1>1, <2>2 DEF Newest
    <3>2. PICK x \in A', y \in A' : ami[x] < ami[y]
      BY <1>1, <2>2 DEF Mixed
    <3>3. ami[x] < ami[k] /\ ami[i] = ami[k]
      BY <1>1, <1>4, <1>8, <3>1, <3>2
    <3> QED
      BY <1>4, <1>8, <3>3 DEF Mixed
  <2>3. \A k \in A : Mixed' /\ Newest(k)' => ~Doomed(k)
    BY <2>1, <2>2 DEF IInv, NewestStays
  <2> QED
    BY <1>2, <1>4, <1>6, <1>8, <2>3 DEF NewestStays
<1>10. LeaderStays'
  <2>1. ~Mixed' => ~Mixed
    BY <1>1, <1>4 DEF Mixed
  <2>2. \A k \in A' : Doomed(k)' => k \in A /\ Doomed(k)
    BY <1>4, <1>6, <1>8
  <2>3. \A k \in Instances : state'[k] = "leaving" => state[k] = "leaving"
    BY <1>3
  <2> QED
    BY <1>1, <1>7, <2>1, <2>2, <2>3 DEF IInv, LeaderStays
<1> QED
  BY <1>3, <1>4, <1>5, <1>9, <1>10 DEF IInv

\* What users, sessions and time do is not about the machines.
LEMMA Others ==
  ASSUME IInv, UNCHANGED <<state, ami, leader, hk>>
  PROVE  IInv'
<1>1. A' = A
  BY DEF A, get_all_instances
<1>2. Types' /\ Alone' /\ (Mixed' <=> Mixed)
  BY <1>1 DEF IInv, Types, Alone, Mixed
<1>3. \A i \in Instances : (Doomed(i)' <=> Doomed(i)) /\ (Newest(i)' <=> Newest(i))
  BY <1>1 DEF Doomed, Newest
<1>4. Safe' <=> Safe
  BY <1>1 DEF Safe, Doomed
<1>5. NewestStays'
  BY <1>1, <1>2, <1>3, Listed DEF IInv, NewestStays
<1>6. LeaderStays'
  BY <1>1, <1>2, <1>3, <1>4, Listed DEF IInv, LeaderStays
<1> QED
  BY <1>1, <1>2, <1>5, <1>6 DEF IInv

-----------------------------------------------------------------------------
LEMMA Initially == Init => IInv
<1> SUFFICES ASSUME Init PROVE IInv
  OBVIOUS
<1>1. Types
  BY DEF Init, Types, Rounds
<1>2. /\ \A i \in Instances, s \in Servers : hk[i][s] = "idle"
      /\ \A i \in Instances : state[i] # "leaving"
  BY DEF Init
<1>3. A # {} /\ \A i \in Instances : ~Doomed(i)
  BY <1>2 DEF Init, A, get_all_instances, Doomed
<1>4. NewestStays /\ LeaderStays /\ Alone
  BY <1>1, <1>2, <1>3, Listed DEF NewestStays, LeaderStays, Alone
<1> QED
  BY <1>1, <1>3, <1>4 DEF IInv

LEMMA Step == Prompt /\ IInv /\ [Next]_vars => IInv'
<1> SUFFICES ASSUME Prompt, IInv, [Next]_vars PROVE IInv'
  OBVIOUS
<1>1. ASSUME NEW i \in Instances, NEW s \in Servers, housekeeping(i, s) PROVE IInv'
  BY <1>1, Elections, Records, Decisions, Endings DEF housekeeping
<1>2. ASSUME NEW i \in Instances, vanish(i) \/ boot(i) \/ ninety_minutes(i) PROVE IInv'
  <2>1. ninety_minutes(i) => UNCHANGED <<state, ami, leader, hk>>
    BY DEF ninety_minutes
  <2> QED
    BY <1>2, <2>1, Vanishing, Booting, Others
<1>3. ASSUME NEW u \in Users, come(u, "auth") \/ come(u, "page") \/ leave(u) \/ handle(u) PROVE IInv'
  BY <1>3, Others DEF come, leave, handle, redirect_to_logged_in_instance, post_auth_launch_container,
                      chk_and_launch_docker, do_monitor_loading, group
<1>4. ASSUME NEW u \in Users, NEW i \in Instances,
             \/ launch_session(u, i) \/ end_session(u, i)
             \/ backup_and_cleanup(u, i) \/ container_exits(u, i)
      PROVE  IInv'
  BY <1>4, Others DEF launch_session, end_session, backup_and_cleanup, container_exits, group
<1>5. CASE UNCHANGED vars
  BY <1>5, Others DEF vars, group
<1> QED
  BY <1>1, <1>2, <1>3, <1>4, <1>5 DEF Next

LEMMA OneIsUp == IInv => KeepsOne
<1> SUFFICES ASSUME IInv PROVE KeepsOne
  OBVIOUS
<1>1. ASSUME NEW i \in A, ~Doomed(i) PROVE KeepsOne
  BY <1>1, Listed DEF IInv, Doomed, KeepsOne
<1>2. CASE Mixed
  BY <1>1, <1>2, NewestExists DEF IInv, NewestStays
<1>3. CASE ~Mixed
  <2>1. CASE \E i \in A : Doomed(i)
    BY <1>1, <1>3, <2>1 DEF IInv, LeaderStays, Safe
  <2>2. CASE \A i \in A : ~Doomed(i)
    BY <1>1, <2>2 DEF IInv
  <2> QED
    BY <2>1, <2>2
<1> QED
  BY <1>2, <1>3

\* If the rounds of housekeeping of one instance do not overlap and no machine
\* goes off during one, an instance stays up for ever, however the elections
\* of different instances overlap on the leader record and whatever images
\* they have: can_terminate keeps "at least 1 machine running" (impl_ec2.py),
\* for any number of instances, servers and versions.
THEOREM KeepsOneAlways == Prompt /\ Spec => []KeepsOne
<1>1. Prompt /\ Spec => []IInv
  <2>1. ASSUME Prompt PROVE IInv /\ [Next]_vars => IInv'
    BY <2>1, Step
  <2>2. ASSUME Prompt PROVE Spec => []IInv
    BY <2>1, <2>2, Initially, PTL DEF Spec
  <2> QED
    BY <2>2
<1> QED
  BY <1>1, OneIsUp, PTL
-----------------------------------------------------------------------------
(* Types.                                                                  *)

LEMMA MinListed ==
  ASSUME NEW S \in SUBSET Instances, S # {}
  PROVE  Min(S) \in Instances
<1> DEFINE R == OpToRel(<, Nat)
<1>1. S \subseteq Nat
  BY DEF Instances
<1>2. PICK x \in S : \A y \in S : ~(<<y, x>> \in R)
  <2>1. IsWellFoundedOn(R, Nat)
    BY NatLessThanWellFounded
  <2> HIDE DEF R
  <2> QED
    BY <1>1, <2>1, WFMin
<1>3. \A y \in S : ~(y < x)
  BY <1>1, <1>2 DEF OpToRel
<1>4. \A y \in S : x <= y
  BY <1>1, <1>3
<1>5. Min(S) \in S
  BY <1>4 DEF Min
<1> QED
  BY <1>5

LEMMA RedirectListed ==
  ASSUME TypeOK, NEW load
  PROVE  get_redirect_instance_id(load) \in Instances \cup {None}
<1> DEFINE preferred == IF AvgAtLeast(load, 50) THEN Below(load) ELSE Above(load)
           S == IF preferred = {} THEN Reporting(load) ELSE preferred
<1>1. Reporting(load) \subseteq Instances
  BY DEF Reporting, get_all_instances
<1>2. Below(load) \subseteq Reporting(load) /\ Above(load) \subseteq Reporting(load)
  BY DEF Below, Above
<1>3. preferred \subseteq Instances
  BY <1>1, <1>2, Zenon
<1>4. Reporting(load) # {} => S \subseteq Instances /\ S # {}
  BY <1>1, <1>3, Zenon
<1>5. Reporting(load) # {} => Min(S) \in Instances
  <2> HIDE DEF S
  <2> QED
    BY <1>4, MinListed
<1>6. get_redirect_instance_id(load) = IF Reporting(load) = {} THEN None ELSE Min(S)
  BY Zenon DEF get_redirect_instance_id
<1> HIDE DEF S
<1> QED
  BY <1>5, <1>6

Request == [pc : Pages, at : Instances \cup {None}, hops : 0 .. numhopmax + 1]

\* A redirect counts at most one hop more than it finds.
LEMMA RedirectTyped ==
  ASSUME TypeOK, NEW u \in Users, NEW load, redirect(u, load), req[u].pc = "try_auth" \/ req[u].hops <= numhopmax
  PROVE  req' \in [Users -> Request]
<1> DEFINE to == get_redirect_instance_id(load)
           r  == IF to = None THEN [req[u] EXCEPT !.pc = "failed"]
                 ELSE [pc |-> "page", at |-> to, hops |-> IF req[u].pc = "try_auth" THEN 0 ELSE req[u].hops + 1]
<1>1. to \in Instances \cup {None}
  BY RedirectListed
<1>2. req[u] \in Request /\ req \in [Users -> Request]
  BY DEF TypeOK, Request
<1>3. req' = [req EXCEPT ![u] = r]
  BY Zenon DEF redirect
<1> HIDE DEF to
<1>4. r \in Request
  BY <1>1, <1>2, HopsAssumption DEF Request, Pages
<1> HIDE DEF r
<1> QED
  BY <1>2, <1>3, <1>4

LEMMA LaunchTyped ==
  ASSUME TypeOK, NEW u \in Users, NEW load, NEW max_hop, try_launch_container(u, load, max_hop)
  PROVE  wanted' \in BOOLEAN /\ tasks' \in [Users -> [Instances -> SUBSET {"launch", "cleanup"}]]
<1> DEFINE i == req[u].at
           accept == \/ max_hop /\ load[i] < 100
                     \/ container[u][i] = "running"
                     \/ should_accept_session(i, load)
           more == IF accept THEN {"launch"} ELSE IF container[u][i] = "stopped" THEN {"cleanup"} ELSE {}
<1>1. wanted' \in BOOLEAN
  BY Zenon DEF try_launch_container
<1>2. tasks' = [tasks EXCEPT ![u][i] = @ \cup more]
  BY Zenon DEF try_launch_container
<1>3. more \subseteq {"launch", "cleanup"}
  BY Zenon
<1> HIDE DEF more, i
<1> DEFINE T == SUBSET {"launch", "cleanup"}
           g == [tasks[u] EXCEPT ![i] = @ \cup more]
<1>4. tasks \in [Users -> [Instances -> T]]
  BY DEF TypeOK
<1>5. tasks' = [tasks EXCEPT ![u] = g]
  BY <1>2
<1>6. \A k \in Instances : tasks[u][k] \in T /\ (tasks[u][k] \cup more) \in T
  BY <1>3, <1>4
<1> HIDE DEF T
<1>7. g \in [Instances -> T]
  BY <1>4, <1>6
<1> HIDE DEF g
<1>8. tasks' \in [Users -> [Instances -> T]]
  BY <1>4, <1>5, <1>7
<1> QED
  BY <1>1, <1>8 DEF T
LEMMA RoundsTyped ==
  ASSUME TypeOK, NEW i \in Instances, NEW s \in Servers, housekeeping(i, s)
  PROVE  TypeOK'
<1> USE DEF TypeOK, Rounds
<1>1. CASE do_housekeeping(i, s)
  <2>1. is_cluster_leader(i) \in Rounds
    BY Zenon DEF is_cluster_leader, Rounds
  <2> QED
    BY <1>1, <2>1 DEF do_housekeeping, group, sessions
<1>2. CASE set_cluster_leader(i, s)
  BY <1>2 DEF set_cluster_leader, group, sessions
<1>3. CASE unset_cluster_leader(i, s)
  BY <1>3 DEF unset_cluster_leader, group, sessions
<1>4. CASE is_terminating(i, s)
  BY <1>4 DEF is_terminating, group, sessions
<1>5. CASE terminate_instance(i, s)
  BY <1>5 DEF terminate_instance, sessions
<1> QED
  BY <1>1, <1>2, <1>3, <1>4, <1>5 DEF housekeeping

LEMMA MachinesTyped ==
  ASSUME TypeOK, NEW i \in Instances, vanish(i) \/ boot(i) \/ ninety_minutes(i)
  PROVE  TypeOK'
<1>1. CASE vanish(i)
  <2>1. /\ state' \in [Instances -> {"off", "up", "leaving", "gone"}]
        /\ hk' \in [Instances -> [Servers -> Rounds]]
    BY <1>1 DEF vanish, TypeOK, Rounds
  <2>2. container' \in [Users -> [Instances -> {"none", "running", "stopped"}]]
    BY <1>1 DEF vanish, TypeOK
  <2>3. tasks' \in [Users -> [Instances -> SUBSET {"launch", "cleanup"}]]
    BY <1>1 DEF vanish, TypeOK
  <2>4. req' \in [Users -> Request]
    <3>1. \A u \in Users : req[u] \in Request
      BY DEF TypeOK, Request
    <3>2. \A u \in Users : [req[u] EXCEPT !.pc = "failed"] \in Request
      BY <3>1 DEF Request, Pages
    <3> QED
      BY <1>1, <3>1, <3>2 DEF vanish
  <2> QED
    BY <1>1, <2>1, <2>2, <2>3, <2>4 DEF vanish, TypeOK, Request
<1>2. CASE boot(i)
  BY <1>2 DEF boot, TypeOK, sessions
<1>3. CASE ninety_minutes(i)
  BY <1>3 DEF ninety_minutes, get_all_instances, TypeOK, sessions
<1> QED
  BY <1>1, <1>2, <1>3

\* A page or a place that a request gets.
LEMMA RequestTyped ==
  ASSUME TypeOK, NEW u \in Users, NEW r \in Request, req' = [req EXCEPT ![u] = r]
  PROVE  req' \in [Users -> Request]
BY DEF TypeOK, Request

LEMMA RequestsTyped ==
  ASSUME TypeOK, NEW u \in Users, come(u, "auth") \/ come(u, "page") \/ leave(u) \/ handle(u)
  PROVE  TypeOK'
<1>1. req[u] \in Request /\ 0 \in 0 .. numhopmax + 1
  BY HopsAssumption DEF TypeOK, Request
<1>2. Route(u) \subseteq Instances
  BY DEF Route, is_accessible, get_all_instances
<1>3. \A pc \in Pages, at \in Instances \cup {None}, hops \in 0 .. numhopmax + 1 :
        [pc |-> pc, at |-> at, hops |-> hops] \in Request
  BY DEF Request
<1>4. ASSUME NEW pc \in Pages, req' = [req EXCEPT ![u].pc = pc, ![u].hops = 0]
      PROVE  req' \in [Users -> Request]
  <2> DEFINE r == [req[u] EXCEPT !.pc = pc, !.hops = 0]
  <2>1. r \in Request
    BY <1>1 DEF Request
  <2>2. req' = [req EXCEPT ![u] = r]
    BY <1>4
  <2> HIDE DEF r
  <2> QED
    BY <2>1, <2>2, RequestTyped
<1>5. ASSUME NEW pc \in Pages, req' = [req EXCEPT ![u].pc = pc]
      PROVE  req' \in [Users -> Request]
  <2> DEFINE r == [req[u] EXCEPT !.pc = pc]
  <2>1. r \in Request
    BY <1>1 DEF Request
  <2>2. req' = [req EXCEPT ![u] = r]
    BY <1>5
  <2> HIDE DEF r
  <2> QED
    BY <2>1, <2>2, RequestTyped
<1>6. ASSUME NEW pc \in Pages, NEW at \in Instances, req' = [req EXCEPT ![u].pc = pc, ![u].at = at]
      PROVE  req' \in [Users -> Request]
  <2> DEFINE r == [req[u] EXCEPT !.pc = pc, !.at = at]
  <2>1. r \in Request
    BY <1>1 DEF Request
  <2>2. req' = [req EXCEPT ![u] = r]
    BY <1>6
  <2> HIDE DEF r
  <2> QED
    BY <2>1, <2>2, RequestTyped
<1>7. CASE come(u, "auth") \/ come(u, "page") \/ leave(u)
  BY <1>4, <1>7 DEF come, leave, group, sessions, TypeOK, Request, Pages
<1>8. CASE redirect_to_logged_in_instance(u)
  <2>1. PICK i \in Route(u) :
          LET found == find_logged_in_instance(u) IN
          \/ \E j \in found \ {i} : req' = [req EXCEPT ![u] = [pc |-> "page", at |-> j, hops |-> 0]]
          \/ /\ found \subseteq {i}
             /\ req' = [req EXCEPT ![u].pc = IF @ = "auth" THEN "try_auth" ELSE "try", ![u].at = i]
    BY <1>8 DEF redirect_to_logged_in_instance
  <2>2. find_logged_in_instance(u) \subseteq Instances
    BY DEF find_logged_in_instance, get_all_instances
  <2>3. req' \in [Users -> Request]
    <3>1. ASSUME NEW j \in Instances, req' = [req EXCEPT ![u] = [pc |-> "page", at |-> j, hops |-> 0]]
          PROVE  req' \in [Users -> Request]
      BY <1>1, <1>3, <3>1, RequestTyped DEF Pages
    <3>2. ASSUME req' = [req EXCEPT ![u].pc = IF @ = "auth" THEN "try_auth" ELSE "try", ![u].at = i]
          PROVE  req' \in [Users -> Request]
      BY <1>2, <1>6, <3>2 DEF Pages
    <3> QED
      BY <2>1, <2>2, <3>1, <3>2
  <2> QED
    BY <1>8, <2>3 DEF redirect_to_logged_in_instance, group, sessions, TypeOK, Request
<1>9. launched(u) => req' \in [Users -> Request]
  BY <1>4 DEF launched, Pages
<1>10. CASE post_auth_launch_container(u)
  <2>1. PICK load : (launched(u) \/ redirect(u, load)) /\ try_launch_container(u, load, FALSE)
    BY <1>10 DEF post_auth_launch_container
  <2>2. req' \in [Users -> Request]
    BY <1>9, <1>10, <2>1, RedirectTyped DEF post_auth_launch_container
  <2> QED
    BY <1>10, <2>1, <2>2, LaunchTyped DEF post_auth_launch_container, TypeOK, Request
<1>11. CASE chk_and_launch_docker(u)
  <2> DEFINE max_hop == req[u].hops > numhopmax
  <2>1. PICK load :
          /\ \/ launched(u)
             \/ ~max_hop /\ redirect(u, load)
             \/ max_hop /\ req' = [req EXCEPT ![u].pc = "failed"]
          /\ try_launch_container(u, load, max_hop)
    BY <1>11, Zenon DEF chk_and_launch_docker
  <2>2. ~max_hop => req[u].hops <= numhopmax
    BY <1>1, HopsAssumption DEF Request
  <2> HIDE DEF max_hop
  <2>3. req' \in [Users -> Request]
    BY <1>5, <1>9, <2>1, <2>2, RedirectTyped DEF Pages
  <2> QED
    BY <1>11, <2>1, <2>3, LaunchTyped DEF chk_and_launch_docker, TypeOK, Request
<1>12. CASE do_monitor_loading(u)
  BY <1>2, <1>5, <1>6, <1>12 DEF do_monitor_loading, group, sessions, TypeOK, Request, Pages
<1> QED
  BY <1>7, <1>8, <1>10, <1>11, <1>12 DEF handle

LEMMA ContainersTyped ==
  ASSUME TypeOK, NEW u \in Users, NEW i \in Instances,
         \/ launch_session(u, i) \/ end_session(u, i)
         \/ backup_and_cleanup(u, i) \/ container_exits(u, i)
  PROVE  TypeOK'
<1> USE DEF TypeOK, group
<1>1. CASE launch_session(u, i)
  BY <1>1 DEF launch_session
<1>2. CASE end_session(u, i)
  BY <1>2 DEF end_session
<1>3. CASE backup_and_cleanup(u, i)
  BY <1>3 DEF backup_and_cleanup
<1>4. CASE container_exits(u, i)
  BY <1>4 DEF container_exits
<1> QED
  BY <1>1, <1>2, <1>3, <1>4

\* Cluster is type correct; in particular the hops of a request stay within
\* the limit of main.py, although redirects on login are not counted.
THEOREM TypeCorrect == Spec => []TypeOK
<1>1. Init => TypeOK
  <2> SUFFICES ASSUME Init PROVE TypeOK
    OBVIOUS
  <2>1. [pc |-> "none", at |-> None, hops |-> 0] \in Request
    BY HopsAssumption DEF Request, Pages
  <2>2. req \in [Users -> Request]
    BY <2>1 DEF Init
  <2>3. /\ state \in [Instances -> {"off", "up", "leaving", "gone"}]
        /\ hk \in [Instances -> [Servers -> Rounds]]
    BY DEF Init, Rounds
  <2> QED
    BY <2>2, <2>3 DEF Init, TypeOK, Request
<1>2. TypeOK /\ [Next]_vars => TypeOK'
  <2> SUFFICES ASSUME TypeOK, [Next]_vars PROVE TypeOK'
    OBVIOUS
  <2>1. CASE Next
    BY <2>1, RoundsTyped, MachinesTyped, RequestsTyped, ContainersTyped DEF Next
  <2>2. CASE UNCHANGED vars
    BY <2>2 DEF vars, group, sessions, TypeOK
  <2> QED
    BY <2>1, <2>2
<1> QED
  BY <1>1, <1>2, PTL DEF Spec

-----------------------------------------------------------------------------
(* One place per user, if pages wait for their launch.                     *)

Place(u, i) == container[u][i] # "none" \/ "launch" \in tasks[u][i]

\* A user's session is on a listed instance, and only one.
Placed == \A u \in Users, i \in Instances : Place(u, i) => i \in A
OnePlace == \A u \in Users, i, j \in Instances : Place(u, i) /\ Place(u, j) => i = j

\* A launch is queued where the user's page waits for it, or has found a session.
Launching == \A u \in Users, i \in Instances :
  "launch" \in tasks[u][i] => req[u].at = i /\ req[u].pc \in {"loading", "session", "none"}

\* A request that was not sent on is where the user's session is, if there is one.
Trying == \A u \in Users : req[u].pc \in {"try_auth", "try"} =>
  req[u].at \in A /\ \A i \in Instances : Place(u, i) => i = req[u].at

PlaceInv == Placed /\ OnePlace /\ Launching /\ Trying

\* A step that changes nobody's request, and adds no place.
LEMMA NoNewPlace ==
  ASSUME PlaceInv, req' = req,
         \A u \in Users, i \in Instances :
           /\ Place(u, i)' => Place(u, i)
           /\ "launch" \in tasks'[u][i] => "launch" \in tasks[u][i]
           /\ Place(u, i)' => i \in A',
         \A i \in A : i \in A'
  PROVE  PlaceInv'
BY DEF PlaceInv, Placed, OnePlace, Launching, Trying

LEMMA MachinesPlace ==
  ASSUME TypeOK, PlaceInv, NEW i \in Instances, boot(i) \/ ninety_minutes(i) \/ \E s \in Servers : housekeeping(i, s)
  PROVE  PlaceInv'
<1>1. UNCHANGED <<container, tasks, req>>
  BY DEF boot, ninety_minutes, housekeeping, do_housekeeping, set_cluster_leader, unset_cluster_leader,
         is_terminating, terminate_instance, sessions
<1>2. state' = state \/ state' = [state EXCEPT ![i] = "up"] \/ state' = [state EXCEPT ![i] = "leaving"]
  BY DEF boot, ninety_minutes, housekeeping, do_housekeeping, set_cluster_leader, unset_cluster_leader,
         is_terminating, terminate_instance, group
<1>3. \A k \in A : k \in A'
  BY <1>2 DEF A, get_all_instances, TypeOK
<1>4. \A u \in Users, k \in Instances : Place(u, k)' <=> Place(u, k)
  BY <1>1 DEF Place
<1>5. \A u \in Users, k \in Instances : Place(u, k) => k \in A
  BY DEF PlaceInv, Placed
<1> QED
  BY <1>1, <1>3, <1>4, <1>5, NoNewPlace

\* With a machine that goes off its sessions and queues go, and the requests at it.
LEMMA VanishPlace ==
  ASSUME TypeOK, PlaceInv, NEW i \in Instances, vanish(i)
  PROVE  PlaceInv'
<1>1. \A k \in Instances : k # i => (k \in A' <=> k \in A)
  BY DEF vanish, A, get_all_instances, TypeOK
<1>2. \A u \in Users, k \in Instances :
        /\ container'[u][k] = IF k = i THEN "none" ELSE container[u][k]
        /\ tasks'[u][k] = IF k = i THEN {} ELSE tasks[u][k]
  BY DEF vanish, TypeOK
<1>3. \A u \in Users, k \in Instances : Place(u, k)' <=> k # i /\ Place(u, k)
  BY <1>2 DEF Place
<1>4. \A u \in Users : \/ req'[u] = req[u] /\ (req[u].at # i \/ req[u].pc \notin {"try_auth", "try", "session"})
                       \/ req[u].at = i /\ req'[u].at = i /\ req'[u].pc = "failed"
  <2> SUFFICES ASSUME NEW u \in Users
               PROVE  \/ req'[u] = req[u] /\ (req[u].at # i \/ req[u].pc \notin {"try_auth", "try", "session"})
                      \/ req[u].at = i /\ req'[u].at = i /\ req'[u].pc = "failed"
    OBVIOUS
  <2>1. req[u] \in Request
    BY DEF TypeOK, Request
  <2>2. \A r \in Request : [r EXCEPT !.pc = "failed"].at = r.at /\ [r EXCEPT !.pc = "failed"].pc = "failed"
    BY DEF Request
  <2>3. req'[u] = IF req[u].at = i /\ req[u].pc \in {"try_auth", "try", "session"}
                  THEN [req[u] EXCEPT !.pc = "failed"] ELSE req[u]
    BY DEF vanish
  <2> QED
    BY <2>1, <2>2, <2>3
<1>5. Placed' /\ OnePlace'
  BY <1>1, <1>3 DEF PlaceInv, Placed, OnePlace
<1>6. Launching'
  BY <1>2, <1>4 DEF PlaceInv, Launching
<1>7. Trying'
  <2> SUFFICES ASSUME NEW u \in Users, req'[u].pc \in {"try_auth", "try"}
               PROVE  req'[u].at \in A' /\ \A k \in Instances : Place(u, k)' => k = req'[u].at
    BY DEF Trying
  <2>1. req'[u] = req[u] /\ req[u].at # i
    BY <1>4
  <2>2. req[u].at \in A /\ \A k \in Instances : Place(u, k) => k = req[u].at
    BY <2>1 DEF PlaceInv, Trying
  <2>3. A \subseteq Instances
    BY DEF A, get_all_instances
  <2> QED
    BY <1>1, <1>3, <2>1, <2>2, <2>3
<1> QED
  BY <1>5, <1>6, <1>7 DEF PlaceInv

LEMMA ContainersPlace ==
  ASSUME TypeOK, PlaceInv, NEW u \in Users, NEW i \in Instances,
         \/ launch_session(u, i) \/ end_session(u, i)
         \/ backup_and_cleanup(u, i) \/ container_exits(u, i)
  PROVE  PlaceInv'
<1>1. UNCHANGED <<state, req>> /\ A' = A
  BY DEF launch_session, end_session, backup_and_cleanup, container_exits, group, A, get_all_instances
<1>2. \A v \in Users, k \in Instances :
        /\ "launch" \in tasks'[v][k] => "launch" \in tasks[v][k]
        /\ Place(v, k)' => Place(v, k)
  <2> USE DEF TypeOK, Place
  <2>1. CASE launch_session(u, i)
    BY <2>1 DEF launch_session
  <2>2. CASE end_session(u, i)
    BY <2>2 DEF end_session
  <2>3. CASE backup_and_cleanup(u, i)
    BY <2>3 DEF backup_and_cleanup
  <2>4. CASE container_exits(u, i)
    BY <2>4 DEF container_exits
  <2> QED
    BY <2>1, <2>2, <2>3, <2>4
<1>3. \A v \in Users, k \in Instances : Place(v, k)' => k \in A'
  BY <1>1, <1>2 DEF PlaceInv, Placed
<1> QED
  BY <1>1, <1>2, <1>3, NoNewPlace

\* A request of u goes on, without a launch.
LEMMA Continues ==
  ASSUME TypeOK, PlaceInv, NEW u \in Users, NEW r \in Request, req' = [req EXCEPT ![u] = r],
         UNCHANGED <<state, container>>,
         \A v \in Users, k \in Instances : "launch" \in tasks'[v][k] <=> "launch" \in tasks[v][k],
         \A k \in Instances : "launch" \in tasks[u][k] => r.at = k /\ r.pc \in {"loading", "session", "none"},
         r.pc \in {"try_auth", "try"} => r.at \in A /\ \A k \in Instances : Place(u, k) => k = r.at
  PROVE  PlaceInv'
<1>1. A' = A /\ \A v \in Users, k \in Instances : Place(v, k)' <=> Place(v, k)
  BY DEF A, get_all_instances, Place
<1>2. req'[u] = r /\ \A v \in Users \ {u} : req'[v] = req[v]
  BY DEF TypeOK
<1>3. Placed' /\ OnePlace'
  BY <1>1 DEF PlaceInv, Placed, OnePlace
<1>4. Launching'
  BY <1>2 DEF PlaceInv, Launching
<1>5. Trying'
  BY <1>1, <1>2 DEF PlaceInv, Trying
<1> QED
  BY <1>3, <1>4, <1>5 DEF PlaceInv

\* A launch is queued where the request is, and nowhere else has the user anything.
LEMMA Launches ==
  ASSUME TypeOK, PlaceInv, NEW u \in Users, req[u].pc \in {"try_auth", "try"}, launched(u),
         UNCHANGED <<state, container>>,
         \A v \in Users, k \in Instances :
           "launch" \in tasks'[v][k] => "launch" \in tasks[v][k] \/ (v = u /\ k = req[u].at)
  PROVE  PlaceInv'
<1> DEFINE r == [req[u] EXCEPT !.pc = "loading", !.hops = 0]
<1>1. req[u] \in Request
  BY DEF TypeOK, Request
<1>2. r.pc = "loading" /\ r.at = req[u].at
  BY <1>1 DEF Request
<1>3. req' = [req EXCEPT ![u] = r]
  BY DEF launched
<1> HIDE DEF r
<1>4. req'[u] = r /\ \A v \in Users \ {u} : req'[v] = req[v]
  BY <1>3 DEF TypeOK
<1>5. A' = A /\ \A v \in Users, k \in Instances : Place(v, k)' => Place(v, k) \/ (v = u /\ k = req[u].at)
  BY DEF A, get_all_instances, Place
<1>6. req[u].at \in A /\ \A k \in Instances : Place(u, k) => k = req[u].at
  BY DEF PlaceInv, Trying
<1>7. \A k \in Instances : "launch" \notin tasks[u][k]
  BY DEF PlaceInv, Launching
<1>8. Placed' /\ OnePlace'
  BY <1>5, <1>6 DEF PlaceInv, Placed, OnePlace
<1>9. Launching'
  BY <1>2, <1>4, <1>7 DEF PlaceInv, Launching
<1>10. Trying'
  BY <1>2, <1>4, <1>5 DEF PlaceInv, Trying
<1> QED
  BY <1>8, <1>9, <1>10 DEF PlaceInv

\* A launch is queued exactly if the page goes on to wait for it.
LEMMA TriesLaunch ==
  ASSUME TypeOK, NEW u \in Users, NEW load, NEW max_hop, try_launch_container(u, load, max_hop)
  PROVE  /\ \A v \in Users, k \in Instances :
              "launch" \in tasks'[v][k] => "launch" \in tasks[v][k] \/ (v = u /\ k = req[u].at)
         /\ req'[u].pc # "loading" => \A v \in Users, k \in Instances :
              "launch" \in tasks'[v][k] <=> "launch" \in tasks[v][k]
<1> DEFINE i == req[u].at
           accept == \/ max_hop /\ load[i] < 100
                     \/ container[u][i] = "running"
                     \/ should_accept_session(i, load)
           more == IF accept THEN {"launch"} ELSE IF container[u][i] = "stopped" THEN {"cleanup"} ELSE {}
<1>1. tasks' = [tasks EXCEPT ![u][i] = @ \cup more] /\ (accept <=> req'[u].pc = "loading")
  BY Zenon DEF try_launch_container
<1>2. ~accept => "launch" \notin more
  BY Zenon
<1> HIDE DEF more, accept, i
<1>3. \A v \in Users, k \in Instances :
        tasks'[v][k] = IF v = u /\ k = i THEN tasks[v][k] \cup more ELSE tasks[v][k]
  BY <1>1 DEF TypeOK
<1>4. \A v \in Users, k \in Instances : "launch" \in tasks'[v][k] => "launch" \in tasks[v][k] \/ (v = u /\ k = i)
  BY <1>3
<1>5. req'[u].pc # "loading" => \A v \in Users, k \in Instances : "launch" \in tasks'[v][k] <=> "launch" \in tasks[v][k]
  BY <1>1, <1>2, <1>3
<1> QED
  BY <1>4, <1>5 DEF i

\* The handlers.  A page that has found no session elsewhere stays where it is.
LEMMA RequestsPlace ==
  ASSUME Patient, TypeOK, PlaceInv, NEW u \in Users,
         come(u, "auth") \/ come(u, "page") \/ leave(u) \/ handle(u)
  PROVE  PlaceInv'
<1>0. req[u] \in Request
  BY DEF TypeOK, Request
<1> DEFINE sent(pc, hops) == [req[u] EXCEPT !.pc = pc, !.hops = hops]
           goes(pc) == [req[u] EXCEPT !.pc = pc]
           put(pc, at) == [req[u] EXCEPT !.pc = pc, !.at = at]
<1>1. \A pc \in Pages : /\ sent(pc, 0) \in Request /\ sent(pc, 0).pc = pc /\ sent(pc, 0).at = req[u].at
                       /\ goes(pc) \in Request /\ goes(pc).pc = pc /\ goes(pc).at = req[u].at
                       /\ \A at \in Instances : put(pc, at) \in Request /\ put(pc, at).pc = pc /\ put(pc, at).at = at
  <2>1. 0 \in 0 .. numhopmax + 1
    BY HopsAssumption
  <2>2. \A r \in Request, pc \in Pages :
          LET q == [r EXCEPT !.pc = pc, !.hops = 0] IN q \in Request /\ q.pc = pc /\ q.at = r.at
    BY <2>1 DEF Request
  <2>3. \A r \in Request, pc \in Pages :
          LET q == [r EXCEPT !.pc = pc] IN q \in Request /\ q.pc = pc /\ q.at = r.at
    BY DEF Request
  <2>4. \A r \in Request, pc \in Pages, at \in Instances :
          LET q == [r EXCEPT !.pc = pc, !.at = at] IN q \in Request /\ q.pc = pc /\ q.at = at
    BY DEF Request
  <2> TAKE pc \in Pages
  <2>5. sent(pc, 0) \in Request /\ sent(pc, 0).pc = pc /\ sent(pc, 0).at = req[u].at
    BY <1>0, <2>2
  <2>6. goes(pc) \in Request /\ goes(pc).pc = pc /\ goes(pc).at = req[u].at
    BY <1>0, <2>3
  <2>7. \A at \in Instances : put(pc, at) \in Request /\ put(pc, at).pc = pc /\ put(pc, at).at = at
    BY <1>0, <2>4
  <2> HIDE DEF sent, goes, put
  <2> QED
    BY <2>5, <2>6, <2>7
<1>2. {"auth", "page", "none", "failed", "session", "try_auth", "try", "loading"} \subseteq Pages
  BY DEF Pages
<1>3. \A k \in Instances : "launch" \in tasks[u][k] =>
         /\ req[u].at = k /\ k \in A
         /\ req[u].pc \in {"loading", "session", "none"}
  BY DEF PlaceInv, Launching, Placed, Place
<1>4. Route(u) \subseteq Instances /\ (req[u].at \in A => Route(u) = {req[u].at}) /\ Route(u) \subseteq A
  BY DEF Route, is_accessible, A, get_all_instances
<1> HIDE DEF sent, goes, put
<1>5. ASSUME NEW pc \in {"auth", "page"}, come(u, pc)
      PROVE  PlaceInv'
  <2>1. (\A k \in Instances : "launch" \notin tasks[u][k]) /\ req' = [req EXCEPT ![u] = sent(pc, 0)]
        /\ UNCHANGED <<state, container, tasks>>
    BY <1>5 DEF come, group, sessions, sent
  <2>2. sent(pc, 0) \in Request /\ sent(pc, 0).pc = pc
    BY <1>1, <1>2
  <2> QED
    BY <2>1, <2>2, Continues
<1>6. CASE leave(u)
  <2>1. req[u].pc \in {"session", "failed"} /\ req' = [req EXCEPT ![u] = sent("none", 0)]
        /\ UNCHANGED <<state, container, tasks>>
    BY <1>6 DEF leave, group, sessions, sent
  <2>2. sent("none", 0) \in Request /\ sent("none", 0).pc = "none" /\ sent("none", 0).at = req[u].at
    BY <1>1, <1>2
  <2> QED
    BY <1>3, <2>1, <2>2, Continues
<1>7. CASE redirect_to_logged_in_instance(u)
  <2> DEFINE found == find_logged_in_instance(u)
  <2>1. req[u].pc \in {"auth", "page"} /\ UNCHANGED <<state, container, tasks>>
    BY <1>7 DEF redirect_to_logged_in_instance, group, sessions
  <2>2. \A k \in Instances : "launch" \notin tasks[u][k]
    BY <1>3, <2>1
  <2>3. \A k \in Instances : Place(u, k) => k \in found
    <3> SUFFICES ASSUME NEW k \in Instances, Place(u, k) PROVE k \in found
      OBVIOUS
    <3>1. k \in A /\ container[u][k] # "none"
      BY <2>2 DEF PlaceInv, Placed, Place
    <3> QED
      BY <3>1 DEF find_logged_in_instance, get_session_status, A
  <2>4. found \subseteq Instances
    BY DEF find_logged_in_instance, get_all_instances
  <2>5. PICK i \in Route(u) :
          \/ \E j \in found \ {i} : req' = [req EXCEPT ![u] = [pc |-> "page", at |-> j, hops |-> 0]]
          \/ /\ found \subseteq {i}
             /\ req' = [req EXCEPT ![u] = put(IF req[u].pc = "auth" THEN "try_auth" ELSE "try", i)]
    BY <1>7 DEF redirect_to_logged_in_instance, put
  <2>6. CASE \E j \in found \ {i} : req' = [req EXCEPT ![u] = [pc |-> "page", at |-> j, hops |-> 0]]
    <3>1. PICK j \in Instances : req' = [req EXCEPT ![u] = [pc |-> "page", at |-> j, hops |-> 0]]
      BY <2>4, <2>6
    <3>2. [pc |-> "page", at |-> j, hops |-> 0] \in Request
      BY HopsAssumption DEF Request, Pages
    <3> QED
      BY <2>1, <2>2, <3>1, <3>2, Continues
  <2>7. CASE found \subseteq {i} /\ req' = [req EXCEPT ![u] = put(IF req[u].pc = "auth" THEN "try_auth" ELSE "try", i)]
    <3> DEFINE pc == IF req[u].pc = "auth" THEN "try_auth" ELSE "try"
    <3>1. i \in Instances /\ i \in A /\ pc \in Pages
      BY <1>2, <1>4
    <3>2. put(pc, i) \in Request /\ put(pc, i).at = i
      BY <1>1, <3>1
    <3>3. \A k \in Instances : Place(u, k) => k = i
      BY <2>3, <2>7
    <3> HIDE DEF found
    <3> QED
      BY <2>1, <2>2, <2>7, <3>1, <3>2, <3>3, Continues
  <2> HIDE DEF found
  <2> QED
    BY <2>5, <2>6, <2>7
\* A redirect, or a page that says why not, queues no launch.
<1>8. ASSUME NEW load, NEW max_hop, try_launch_container(u, load, max_hop),
             req[u].pc \in {"try_auth", "try"}, UNCHANGED <<state, container>>,
             launched(u) \/ redirect(u, load) \/ req' = [req EXCEPT ![u] = goes("failed")],
             req' \in [Users -> Request]
      PROVE  PlaceInv'
  <2>1. \A k \in Instances : "launch" \notin tasks[u][k]
    BY <1>3, <1>8
  <2>2. CASE launched(u)
    BY <1>8, <2>2, TriesLaunch, Launches
  <2>3. CASE ~launched(u)
    <3> DEFINE to == get_redirect_instance_id(load)
               r == IF to = None THEN goes("failed")
                    ELSE [pc |-> "page", at |-> to, hops |-> IF req[u].pc = "try_auth" THEN 0 ELSE req[u].hops + 1]
    <3>1. PICK q \in {goes("failed"), r} : req' = [req EXCEPT ![u] = q]
      <4>1. redirect(u, load) => req' = [req EXCEPT ![u] = r]
        BY Zenon DEF redirect, goes
      <4> HIDE DEF r
      <4> QED
        BY <1>8, <2>3, <4>1
    <3>2. q.pc \in {"failed", "page"}
      <4>1. goes("failed").pc = "failed"
        BY <1>1, <1>2
      <4> HIDE DEF to
      <4> QED
        BY <4>1
    <3> HIDE DEF r
    <3>3. q \in Request /\ req'[u] = q
      BY <1>8, <3>1 DEF TypeOK
    <3>4. req'[u].pc # "loading"
      BY <3>2, <3>3
    <3>5. \A v \in Users, k \in Instances : "launch" \in tasks'[v][k] <=> "launch" \in tasks[v][k]
      BY <1>8, <3>4, TriesLaunch
    <3> QED
      BY <1>8, <2>1, <3>1, <3>2, <3>3, <3>5, Continues
  <2> QED
    BY <2>2, <2>3
<1>9. TypeOK'
  BY RequestsTyped
<1>10. req' \in [Users -> Request]
  BY <1>9 DEF TypeOK, Request
<1>11. CASE post_auth_launch_container(u)
  <2>1. PICK load : (launched(u) \/ redirect(u, load)) /\ try_launch_container(u, load, FALSE)
    BY <1>11 DEF post_auth_launch_container
  <2>2. req[u].pc = "try_auth" /\ UNCHANGED <<state, container>>
    BY <1>11 DEF post_auth_launch_container
  <2> QED
    BY <1>8, <1>10, <2>1, <2>2
<1>12. CASE chk_and_launch_docker(u)
  <2> DEFINE max_hop == req[u].hops > numhopmax
  <2>1. PICK load :
          /\ \/ launched(u)
             \/ ~max_hop /\ redirect(u, load)
             \/ max_hop /\ req' = [req EXCEPT ![u].pc = "failed"]
          /\ try_launch_container(u, load, max_hop)
    BY <1>12, Zenon DEF chk_and_launch_docker
  <2>2. req[u].pc = "try" /\ UNCHANGED <<state, container>>
    BY <1>12 DEF chk_and_launch_docker
  <2>3. launched(u) \/ redirect(u, load) \/ req' = [req EXCEPT ![u] = goes("failed")]
    BY <2>1 DEF goes
  <2> HIDE DEF max_hop
  <2> QED
    BY <1>8, <1>10, <2>1, <2>2, <2>3
<1>13. CASE do_monitor_loading(u)
  <2>1. req[u].pc = "loading" /\ UNCHANGED <<state, container, tasks>>
    BY <1>13 DEF do_monitor_loading, group, sessions
  <2>2. PICK i \in Route(u) :
          \/ req' = [req EXCEPT ![u] = put("session", i)]
          \/ "launch" \notin tasks[u][i] /\ req' = [req EXCEPT ![u] = goes("failed")]
    BY <1>13 DEF do_monitor_loading, put, goes
  <2>3. i \in Instances /\ \A k \in Instances : "launch" \in tasks[u][k] => k = i
    BY <1>3, <1>4
  <2>4. CASE req' = [req EXCEPT ![u] = put("session", i)]
    <3>1. put("session", i) \in Request /\ put("session", i).pc = "session" /\ put("session", i).at = i
      BY <1>1, <1>2, <2>3
    <3> QED
      BY <2>1, <2>3, <2>4, <3>1, Continues
  <2>5. CASE "launch" \notin tasks[u][i] /\ req' = [req EXCEPT ![u] = goes("failed")]
    <3>1. goes("failed") \in Request /\ goes("failed").pc = "failed"
      BY <1>1, <1>2
    <3> QED
      BY <2>1, <2>3, <2>5, <3>1, Continues
  <2> QED
    BY <2>2, <2>4, <2>5
<1> QED
  BY <1>5, <1>6, <1>7, <1>11, <1>12, <1>13 DEF handle

\* A user's session, running, stopped or about to be launched, is on one instance:
\* the files are backed up from one place (find_logged_in_instance), however the
\* requests of the user are redirected, machines come and go, and launches fail.
THEOREM OnePlaceAlways == Patient /\ Spec => []OnePlacePerUser
<1>1. Init => PlaceInv
  BY DEF Init, PlaceInv, Placed, OnePlace, Launching, Trying, Place
<1>2. ASSUME Patient PROVE TypeOK /\ PlaceInv /\ [Next]_vars => PlaceInv'
  <2> SUFFICES ASSUME TypeOK, PlaceInv, [Next]_vars PROVE PlaceInv'
    OBVIOUS
  <2>1. ASSUME NEW i \in Instances, vanish(i) PROVE PlaceInv'
    BY <2>1, VanishPlace
  <2>2. ASSUME NEW i \in Instances, boot(i) \/ ninety_minutes(i) \/ \E s \in Servers : housekeeping(i, s)
        PROVE  PlaceInv'
    BY <2>2, MachinesPlace
  <2>3. ASSUME NEW u \in Users, come(u, "auth") \/ come(u, "page") \/ leave(u) \/ handle(u)
        PROVE  PlaceInv'
    BY <1>2, <2>3, RequestsPlace
  <2>4. ASSUME NEW u \in Users, NEW i \in Instances,
               \/ launch_session(u, i) \/ end_session(u, i)
               \/ backup_and_cleanup(u, i) \/ container_exits(u, i)
        PROVE  PlaceInv'
    BY <2>4, ContainersPlace
  <2>5. CASE UNCHANGED vars
    BY <2>5 DEF vars, group, sessions, PlaceInv, Placed, OnePlace, Launching, Trying, Place, A, get_all_instances
  <2> QED
    BY <2>1, <2>2, <2>3, <2>4, <2>5 DEF Next
<1>3. PlaceInv => OnePlacePerUser
  <2> SUFFICES ASSUME PlaceInv, NEW u \in Users
               PROVE  Cardinality({i \in A : Place(u, i)}) <= 1
    BY DEF OnePlacePerUser, Place, A
  <2> DEFINE S == {i \in A : Place(u, i)}
  <2>1. \A i, j \in S : i = j
    BY DEF PlaceInv, OnePlace, A, get_all_instances
  <2>2. S = {} \/ \E i \in S : S = {i}
    BY <2>1
  <2>3. Cardinality(S) = 0 \/ Cardinality(S) = 1
    <3> HIDE DEF S
    <3> QED
      BY <2>2, FS_EmptySet, FS_Singleton
  <2> QED
    BY <2>3
<1>4. Patient /\ Spec => []PlaceInv
  <2>1. ASSUME Patient PROVE Spec => []PlaceInv
    BY <1>1, <1>2, <2>1, TypeCorrect, PTL DEF Spec
  <2> QED
    BY <2>1
<1> QED
  BY <1>3, <1>4, PTL

-----------------------------------------------------------------------------
(* Cookies and ports: what JBox and the router promise each other, for any *)
(* jar of cookies.                                                         *)

CONSTANTS AUTH_VALID_SECS, sessmgr_port, Here

R == INSTANCE Routing

\* The router and JBox agree on the ports of a session (get_validated_port,
\* _get_container).
THEOREM Agreement ==
  ASSUME NEW jar, NEW now, R!WellFormed(jar)
  PROVE  R!PortsAgree(jar, now)
<1> SUFFICES ASSUME R!is_valid_auth(jar) # {},
                    NEW s \in R!get_container(jar, now), NEW k \in jar.ports
             PROVE  k \in R!get_ports(jar, now) <=> k.p \in R!get_validated_port(jar, s, k.name)
  BY DEF R!PortsAgree
<1>1. PICK a \in R!is_valid_auth(jar) : TRUE
  OBVIOUS
<1>2. a \in jar.auth /\ \A b \in jar.auth : b = a
  BY <1>1 DEF R!is_valid_auth, R!WellFormed
<1>3. R!get_authsig(jar) = {a.x}
  BY <1>1, <1>2 DEF R!get_authsig, R!is_valid_auth
<1>4. \A r \in R!get_container(jar, now) : r = s
  BY DEF R!get_container, R!WellFormed
<1>5. k \in R!get_ports(jar, now) <=> k.x = <<a.x, s.x, k.name, k.p>>
  BY <1>2, <1>4 DEF R!get_ports
<1>6. \A j \in jar.ports : j.name = k.name => j = k
  BY DEF R!WellFormed
<1>7. k.p \in R!get_validated_port(jar, s, k.name) <=> k.x = <<a.x, s.x, k.name, k.p>>
  BY <1>3, <1>6 DEF R!get_validated_port
<1> QED
  BY <1>5, <1>7

\* A session JBox accepts passes forbid_invalid_session.
THEOREM Acceptance ==
  ASSUME NEW jar, NEW now
  PROVE  R!RouterAccepts(jar, now)
BY DEF R!RouterAccepts, R!get_container, R!is_valid_session

\* The signature of a port covers that of the login (set_container_ports): a new
\* login makes it void.
THEOREM Revocation ==
  ASSUME NEW jar, NEW u, NEW t, R!WellFormed(jar)
  PROVE  R!OldPortsRefused(jar, u, t)
<1> DEFINE new == R!set_authenticated(jar, u, t)
<1> SUFFICES ASSUME \A a \in jar.auth : a.x # <<u, t>>,
                    NEW s \in jar.sess, NEW k \in jar.ports,
                    R!get_validated_port(jar, s, k.name) # {}
             PROVE  R!get_validated_port(new, s, k.name) = {}
  BY DEF R!OldPortsRefused
<1> HIDE DEF new
<1>1. \A j \in jar.ports : j.name = k.name => j = k
  BY DEF R!WellFormed
<1>2. PICK old \in R!get_authsig(jar) : k.x = <<old, s.x, k.name, k.p>>
  BY <1>1 DEF R!get_validated_port
<1>3. old # <<u, t>>
  <2>1. R!is_valid_auth(jar) \subseteq jar.auth
    BY DEF R!is_valid_auth
  <2>2. old = <<>> \/ \E a \in jar.auth : old = a.x
    BY <2>1 DEF R!get_authsig
  <2>3. <<>> # <<u, t>>
    OBVIOUS
  <2> QED
    BY <2>2, <2>3
<1>4. R!get_authsig(new) = {<<u, t>>} /\ new.ports = jar.ports
  <2>1. jar = [auth |-> jar.auth, sess |-> jar.sess, iid |-> jar.iid, loading |-> jar.loading, ports |-> jar.ports]
    BY DEF R!WellFormed
  <2>2. new = [auth |-> {R!AuthCookie(u, t)}, sess |-> jar.sess, iid |-> jar.iid, loading |-> jar.loading, ports |-> jar.ports]
    BY <2>1 DEF new, R!set_authenticated
  <2>3. R!is_valid_auth(new) = {R!AuthCookie(u, t)}
    BY <2>2 DEF R!is_valid_auth, R!AuthCookie
  <2>4. R!AuthCookie(u, t).x = <<u, t>>
    BY DEF R!AuthCookie
  <2>5. R!get_authsig(new) = {R!AuthCookie(u, t).x}
    BY <2>3 DEF R!get_authsig
  <2> QED
    BY <2>2, <2>4, <2>5
<1>5. \A j \in new.ports : j.name = k.name => \A sig \in R!get_authsig(new) : j.x # <<sig, s.x, k.name, j.p>>
  BY <1>1, <1>2, <1>3, <1>4
<1> QED
  BY <1>5 DEF R!get_validated_port

\* From any instance the router leads the page of a session to the container it
\* was made for, in one step or two (jbox_route, set_forward_addr).
THEOREM Reach ==
  ASSUME NEW jar, NEW u, NEW c, NEW i, NEW t, NEW number, NEW n \in DOMAIN number,
         NEW inst, NEW incoming, R!WellFormed(jar)
  PROVE  R!ReachesSession(jar, u, c, i, t, number, n, inst, incoming)
<1> DEFINE start == R!post_auth_launch_container(jar, u, c, i, t)
           page  == R!do_monitor_loading(start, number)
           auth  == R!AuthCookie(u, t)
           sess  == R!SessCookie(c, i, t)
           given == {R!PortCookie(auth, sess, m, number[m]) : m \in DOMAIN number}
<1>1. start = [auth |-> {auth}, sess |-> {sess}, iid |-> {i}, loading |-> {1}, ports |-> {}]
  <2>1. jar = [auth |-> jar.auth, sess |-> jar.sess, iid |-> jar.iid, loading |-> jar.loading, ports |-> jar.ports]
    BY DEF R!WellFormed
  <2>2. R!set_authenticated(jar, u, t)
          = [auth |-> {auth}, sess |-> jar.sess, iid |-> jar.iid, loading |-> jar.loading, ports |-> jar.ports]
    BY <2>1 DEF R!set_authenticated
  <2>3. R!set_authenticated(jar, u, t).auth = {auth}
    BY <2>2
  <2> QED
    BY <2>3 DEF R!post_auth_launch_container, R!set_container_initialized
<1> HIDE DEF start
<1>2. page = [auth |-> {auth}, sess |-> {sess}, iid |-> {i}, loading |-> {}, ports |-> given]
  <2>1. R!given_ports(start, number) = given
    <3>1. start.auth = {auth} /\ start.sess = {sess}
      BY <1>1
    <3> HIDE DEF auth, sess
    <3> QED
      BY <3>1 DEF R!given_ports
  <2>2. {k \in start.ports : k.name \notin DOMAIN number} \cup R!given_ports(start, number) = given
    BY <1>1, <2>1
  <2>3. R!set_container_ports(start, number) = [start EXCEPT !.ports = given]
    BY <1>1, <2>2 DEF R!set_container_ports
  <2>4. R!set_container_ports(start, number)
          = [auth |-> {auth}, sess |-> {sess}, iid |-> {i}, loading |-> {1}, ports |-> given]
    BY <1>1, <2>3
  <2> DEFINE set == R!set_container_ports(start, number)
  <2> HIDE DEF given, set
  <2>5. R!clear_loading(set) = [auth |-> {auth}, sess |-> {sess}, iid |-> {i}, loading |-> {}, ports |-> given]
    BY <2>4 DEF R!clear_loading, set
  <2> QED
    BY <2>5 DEF R!do_monitor_loading, set
<1> HIDE DEF page
<1>3. R!is_valid_session(page) = {sess}
  BY <1>2 DEF R!is_valid_session, R!SessCookie
<1>4. R!get_authsig(page) = {auth.x}
  BY <1>2 DEF R!get_authsig, R!is_valid_auth, R!AuthCookie
<1>5. R!get_validated_port(page, sess, n) = {number[n]}
  <2>1. \A k \in given : k.name = n => k.p = number[n]
    BY DEF R!PortCookie
  <2>2. R!PortCookie(auth, sess, n, number[n]) \in given
    OBVIOUS
  <2> QED
    BY <1>2, <1>4, <2>1, <2>2 DEF R!get_validated_port, R!PortCookie
<1>6. \A h : R!jbox_route(page, h, incoming, "port", n, {}) = R!set_forward_addr(page, h, incoming, number[n])
  BY <1>3, <1>5 DEF R!jbox_route
<1>7. \A h : R!set_forward_addr(page, h, incoming, number[n])
        = IF i \in {h, Here} THEN [host |-> Here, port |-> number[n], local |-> TRUE]
          ELSE [host |-> i, port |-> incoming, local |-> FALSE]
  BY <1>2 DEF R!set_forward_addr
<1> DEFINE there == [host |-> Here, port |-> number[n], local |-> TRUE]
<1>8. R!jbox_route(page, i, incoming, "port", n, {}) = there
  BY <1>6, <1>7
<1>9. R!jbox_route(page, inst, incoming, "port", n, {})
        = IF i \in {inst, Here} THEN there ELSE [host |-> i, port |-> incoming, local |-> FALSE]
  BY <1>6, <1>7
<1> QED
  BY <1>8, <1>9 DEF R!ReachesSession, start, page

\* Opened ports keep off the names of the session's own (handle_if_open_port).
THEOREM OwnPorts ==
  ASSUME NEW jar, NEW portname, NEW wellformed, NEW port, NEW hostport, NEW name, R!WellFormed(jar)
  PROVE  R!OwnPortsStay(jar, portname, wellformed, port, hostport, name)
<1> DEFINE number == [n \in {portname} |-> hostport]
           new    == R!handle_if_open_port(jar, portname, wellformed, port, hostport)
           given  == R!given_ports(jar, number)
<1> SUFFICES ASSUME name \in R!Reserved, NEW s \in jar.sess
             PROVE  R!get_validated_port(new, s, name) = R!get_validated_port(jar, s, name)
  BY DEF R!OwnPortsStay
<1>1. CASE new = jar
  BY <1>1
<1>2. CASE portname \notin R!Reserved /\ jar.auth # {} /\ jar.sess # {} /\ new = R!set_container_ports(jar, number)
  <2>1. new = [jar EXCEPT !.ports = {k \in jar.ports : k.name \notin DOMAIN number} \cup given]
    BY <1>2 DEF R!set_container_ports
  <2>2. \A k \in given : k.name = portname
    BY DEF R!given_ports, R!PortCookie
  <2> HIDE DEF given, new
  <2> DEFINE ports == {k \in jar.ports : k.name # portname} \cup given
  <2>3. \A k : k.name = name => (k \in ports <=> k \in jar.ports)
    BY <1>2, <2>2
  <2>4. new = [auth |-> jar.auth, sess |-> jar.sess, iid |-> jar.iid, loading |-> jar.loading, ports |-> ports]
    <3>1. DOMAIN number = {portname}
      OBVIOUS
    <3>2. {k \in jar.ports : k.name \notin DOMAIN number} \cup given = ports
      BY <3>1
    <3>3. jar = [auth |-> jar.auth, sess |-> jar.sess, iid |-> jar.iid, loading |-> jar.loading, ports |-> jar.ports]
      BY DEF R!WellFormed
    <3> HIDE DEF ports
    <3> QED
      BY <2>1, <3>2, <3>3
  <2> HIDE DEF ports
  <2>5. new.auth = jar.auth /\ new.ports = ports
    BY <2>4
  <2>6. R!get_authsig(new) = R!get_authsig(jar)
    BY <2>5 DEF R!get_authsig, R!is_valid_auth
  <2> QED
    BY <2>3, <2>5, <2>6 DEF R!get_validated_port
<1> QED
  <2>1. new = jar \/ (portname \notin R!Reserved /\ new = R!set_container_ports(jar, number))
    BY DEF R!handle_if_open_port
  <2>2. jar.auth = {} \/ jar.sess = {} => R!set_container_ports(jar, number) = jar
    BY DEF R!set_container_ports
  <2> QED
    BY <1>1, <1>2, <2>1, <2>2
=============================================================================
