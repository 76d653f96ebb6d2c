------------------------ MODULE LoopbackDisks_proofs ------------------------
(***************************************************************************)
(* Proofs about LoopbackDisks for any number of disks, users and home      *)
(* images: type correctness; and, when reservations outlive the work they  *)
(* cover and Docker answers, that a disk has one holder (the refinement    *)
(* of DiskPool) and never shows the files of another user.                 *)
(***************************************************************************)
EXTENDS LoopbackDisks, TLAPS

-----------------------------------------------------------------------------
(* Type correctness.                                                       *)

LEMMA InitTypeOK == Init => TypeOK
<1> SUFFICES ASSUME Init
             PROVE  TypeOK
  OBVIOUS
<1>1. 1 \in Images /\ 0 \in Images /\ 0 \in 0 .. MAX_DISKS
  BY BoundsAssumption DEF Images
<1>2. /\ pc \in [Workers -> Stages]
      /\ disk \in [Workers -> Disks \cup {NoDisk}]
      /\ mounted \in [Users -> Disks \cup {NoDisk}]
  BY DEF Init, Stages
<1>3. /\ begin_idx \in [Refreshers -> 0 .. MAX_DISKS]
      /\ files \in [Disks -> SUBSET Users]
      /\ content \in [Disks -> Images]
      /\ marker \in [Disks -> Images]
  BY <1>1 DEF Init
<1> QED BY <1>1, <1>2, <1>3 DEF Init, TypeOK

\* The recomputation of the disk status and the reservations
\* (refresh_disk_use_status, _reserve_disk_id, _unreserve_disk_id).
LEMMA StatusTypeOK ==
  ASSUME TypeOK,
         \/ \E w \in Users \cup {Perf} : sweep_reset(w)
         \/ survey
         \/ \E d \in Disks : expire(d)
         \/ \E w \in Workers : reserve_disk_id(w)
         \/ \E r \in Refreshers : unreserve_disk_id(r)
  PROVE  TypeOK'
<1> USE DEF TypeOK, statusVars, sweepVars, workVars, diskVars
<1>1. ASSUME NEW w \in Users \cup {Perf}, sweep_reset(w)
      PROVE  TypeOK'
  BY <1>1 DEF sweep_reset
<1>2. CASE sweep_list
  BY <1>2 DEF sweep_list
<1>3. CASE sweep_end
  <2>1. pc' \in [Workers -> Stages]
    BY <1>3 DEF sweep_end, Stages
  <2> QED BY <1>3, <2>1 DEF sweep_end
<1>4. CASE sweep_raise
  <2>1. pc' \in [Workers -> Stages]
    BY <1>4 DEF sweep_raise, Stages
  <2> QED BY <1>4, <2>1 DEF sweep_raise
<1>5. ASSUME NEW u \in Users, NEW d \in Disks, sweep_inspect(u, d)
      PROVE  TypeOK'
  BY <1>5 DEF sweep_inspect
<1>6. ASSUME NEW d \in Disks, expire(d)
      PROVE  TypeOK'
  BY <1>6 DEF expire
<1>7. ASSUME NEW w \in Workers, reserve_disk_id(w)
      PROVE  TypeOK'
  <2>1. CASE finish(w) /\ UNCHANGED statusVars
    BY <1>7, <2>1, BoundsAssumption DEF reserve_disk_id, finish, Stages
  <2>2. CASE \E d \in unused_disks(from_idx(w)) :
               /\ DISK_USE_STATUS' = DISK_USE_STATUS \cup {d}
               /\ DISK_RESERVE_TIME' = DISK_RESERVE_TIME \cup {d}
               /\ disk' = [disk EXCEPT ![w] = d]
               /\ pc' = [pc EXCEPT ![w] = IF w \in Users THEN "check" ELSE "wipe"]
               /\ UNCHANGED begin_idx
    <3>1. PICK d \in Disks :
            /\ DISK_USE_STATUS' = DISK_USE_STATUS \cup {d}
            /\ DISK_RESERVE_TIME' = DISK_RESERVE_TIME \cup {d}
            /\ disk' = [disk EXCEPT ![w] = d]
            /\ pc' = [pc EXCEPT ![w] = IF w \in Users THEN "check" ELSE "wipe"]
            /\ UNCHANGED begin_idx
      BY <2>2 DEF unused_disks
    <3>2. UNCHANGED <<sweepVars, diskVars, mounted, image>>
      BY <1>7 DEF reserve_disk_id
    <3> QED BY <3>1, <3>2 DEF Stages
  <2> QED BY <1>7, <2>1, <2>2 DEF reserve_disk_id
<1>8. ASSUME NEW r \in Refreshers, unreserve_disk_id(r)
      PROVE  TypeOK'
  <2>1. disk[r] + 1 \in 0 .. MAX_DISKS
    <3>1. disk[r] \in Disks \cup {NoDisk}
      BY DEF Workers
    <3>2. \A d \in Disks \cup {NoDisk} : d + 1 \in 0 .. MAX_DISKS
      BY BoundsAssumption DEF Disks, NoDisk
    <3> QED BY <3>1, <3>2
  <2>2. /\ begin_idx' \in [Refreshers -> 0 .. MAX_DISKS]
        /\ disk' \in [Workers -> Disks \cup {NoDisk}]
        /\ pc' \in [Workers -> Stages]
    BY <1>8, <2>1 DEF unreserve_disk_id, step, Stages
  <2> QED BY <1>8, <2>2 DEF unreserve_disk_id
<1> QED BY <1>1, <1>2, <1>3, <1>4, <1>5, <1>6, <1>7, <1>8 DEF survey

\* The steps of a session's thread (launch_session, get_disk_for_user, delete).
LEMMA SessionTypeOK ==
  ASSUME TypeOK, NEW u \in Users, launch(u) \/ session_writes(u) \/ cleanup(u)
  PROVE  TypeOK'
<1> USE DEF TypeOK, statusVars, sweepVars, workVars, diskVars
<1>0. u \in Workers /\ 0 \in Images /\ 0 \in 0 .. MAX_DISKS
  BY BoundsAssumption DEF Workers, Images
<1>1. CASE launch_session(u)
  BY <1>1 DEF launch_session, step, Stages
<1>2. CASE check_refreshed(u)
  BY <1>0, <1>2 DEF check_refreshed, Stages
<1>3. CASE restore(u)
  BY <1>3 DEF restore, step, Stages
<1>4. CASE create_container(u)
  BY <1>0, <1>4 DEF create_container, finish, Stages
<1>5. CASE session_writes(u)
  BY <1>5 DEF session_writes
<1>6. CASE delete(u)
  BY <1>0, <1>6 DEF delete, step, Stages
<1>7. CASE backup(u)
  BY <1>0, <1>7 DEF backup, step, Stages
<1>8. CASE remove_container(u)
  BY <1>0, <1>8 DEF remove_container, finish, Stages
<1> QED BY <1>1, <1>2, <1>3, <1>4, <1>5, <1>6, <1>7, <1>8 DEF launch, cleanup

\* The steps on a disk, the refreshers, and failures (refresh_disk,
\* refresh_user_home_image).
LEMMA DiskTypeOK ==
  ASSUME TypeOK,
         \/ \E w \in Workers : refresh_disk(w) \/ raise(w)
         \/ update_user_home_image \/ refresh_disks
         \/ restart
  PROVE  TypeOK'
<1> USE DEF TypeOK, statusVars, sweepVars, workVars, diskVars
<1>0. 1 \in Images /\ 0 \in Images /\ 0 \in 0 .. MAX_DISKS
  BY BoundsAssumption DEF Images
<1>1. ASSUME NEW w \in Workers, ensure_delete(w)
      PROVE  TypeOK'
  BY <1>0, <1>1 DEF ensure_delete, Stages
<1>2. ASSUME NEW w \in Workers, restore_user_home(w)
      PROVE  TypeOK'
  BY <1>2 DEF restore_user_home, step, Stages
<1>3. ASSUME NEW w \in Workers, mark_refreshed(w)
      PROVE  TypeOK'
  BY <1>3 DEF mark_refreshed, step, Stages
<1>4. ASSUME NEW w \in Workers, raise(w)
      PROVE  TypeOK'
  BY <1>0, <1>4 DEF raise, finish, Stages
<1>5. CASE update_user_home_image
  BY <1>5 DEF update_user_home_image, step, Stages
<1>6. CASE refresh_disks
  BY <1>6 DEF refresh_disks, step, Stages
<1>7. CASE restart
  <2>1. pc' \in [Workers -> Stages] /\ disk' \in [Workers -> Disks \cup {NoDisk}]
        /\ begin_idx' \in [Refreshers -> 0 .. MAX_DISKS]
    BY <1>0, <1>7 DEF restart, Stages
  <2>2. DISK_USE_STATUS' \subseteq Disks /\ image' \in Images
    BY <1>0, <1>7 DEF restart
  <2> QED BY <1>7, <2>1, <2>2 DEF restart
<1> QED BY <1>1, <1>2, <1>3, <1>4, <1>5, <1>6, <1>7 DEF refresh_disk

LEMMA NextTypeOK == TypeOK /\ [Next]_vars => TypeOK'
<1> SUFFICES ASSUME TypeOK, [Next]_vars
             PROVE  TypeOK'
  OBVIOUS
<1>1. CASE UNCHANGED vars
  BY <1>1 DEF TypeOK, vars, statusVars, sweepVars, workVars, diskVars
<1>2. CASE Next
  BY <1>2, StatusTypeOK, SessionTypeOK, DiskTypeOK DEF Next
<1> QED BY <1>1, <1>2

\* Every variable of the disk pool keeps its type; in particular only disks of
\* the pool are ever reserved or recorded as used.
THEOREM TypeCorrect == Spec => []TypeOK
<1> QED BY InitTypeOK, NextTypeOK, PTL DEF Spec

-----------------------------------------------------------------------------
(* One holder per disk.                                                    *)

Holds(w, d) == disk[w] = d \/ (w \in Users /\ mounted[w] = d)

OneHolder ==
  \A d \in Disks : \A w, x \in Workers : Holds(w, d) /\ Holds(x, d) => w = x

\* A worker has no disk before it reserves one.
NoDiskYet ==
  \A w \in Workers : pc[w] \in {"idle", "sweep", "reserve", "fetch"} => disk[w] = NoDisk

\* A thread that works on a session with a container is deleting it.
Deleting ==
  \A u \in Users : mounted[u] # NoDisk =>
    /\ pc[u] \in {"idle", "backup", "wipe", "fill", "stamp", "remove"}
    /\ disk[u] = IF pc[u] = "idle" THEN NoDisk ELSE mounted[u]

\* A disk somebody works on, but no container mounts, has a reservation.
Covered ==
  \A w \in Workers, d \in Disks :
    disk[w] = d /\ ~(w \in Users /\ mounted[w] = d) =>
      d \in DISK_RESERVE_TIME /\ d \in DISK_USE_STATUS

\* A disk in a container is recorded as used, or is going to be before the
\* lock is released.
Recorded ==
  \A u \in Users, d \in Disks :
    mounted[u] = d => \/ d \in DISK_USE_STATUS
                      \/ LOCK # Free /\ (~surveyed \/ <<u, d>> \in listed)

Locked == /\ LOCK \in Users => pc[LOCK] = "sweep"
          /\ surveyed => LOCK # Free

HolderInv == TypeOK /\ OneHolder /\ NoDiskYet /\ Deleting /\ Covered /\ Recorded /\ Locked

LEMMA NoDiskNotDisk == NoDisk \notin Disks
BY BoundsAssumption DEF NoDisk, Disks

LEMMA InitHolderInv == Init => HolderInv
<1> SUFFICES ASSUME Init
             PROVE  HolderInv
  OBVIOUS
<1>1. \A w \in Workers : disk[w] = NoDisk
  BY DEF Init
<1>2. \A u \in Users : mounted[u] = NoDisk
  BY DEF Init
<1>3. OneHolder /\ NoDiskYet /\ Deleting /\ Covered /\ Recorded
  BY <1>1, <1>2, NoDiskNotDisk DEF OneHolder, Holds, NoDiskYet, Deleting, Covered, Recorded
<1>4. Locked
  BY UsersAssumption DEF Init, Locked
<1> QED BY <1>3, <1>4, InitTypeOK DEF HolderInv

\* The recomputation keeps what is in use recorded: it starts from the
\* reservations, and then lists the containers (refresh_disk_use_status).
LEMMA SweepHolderInv ==
  ASSUME Timely, ~DockerFails, HolderInv, TypeOK',
         \/ \E w \in Users \cup {Perf} : sweep_reset(w)
         \/ survey
         \/ \E d \in Disks : expire(d)
  PROVE  HolderInv'
<1> USE DEF HolderInv, workVars
<1>0. Users \subseteq Workers
  BY DEF Workers
<1>1. ASSUME NEW w \in Users \cup {Perf}, sweep_reset(w)
      PROVE  HolderInv'
  <2>1. /\ UNCHANGED <<disk, pc, mounted, DISK_RESERVE_TIME, surveyed, listed>>
        /\ DISK_USE_STATUS' = DISK_RESERVE_TIME
        /\ LOCK = Free /\ LOCK' = w /\ (w = Perf \/ pc[w] = "sweep")
    BY <1>1 DEF sweep_reset
  <2>2. OneHolder' /\ NoDiskYet' /\ Deleting' /\ Covered'
    BY <2>1 DEF OneHolder, Holds, NoDiskYet, Deleting, Covered
  <2>3. ~surveyed /\ w # Free
    BY <2>1, UsersAssumption DEF Locked, Perf, Free
  <2>4. Recorded'
    BY <2>1, <2>3 DEF Recorded
  <2>5. Locked'
    BY <2>1, <2>3, UsersAssumption DEF Locked
  <2> QED BY <2>2, <2>4, <2>5
<1>2. CASE sweep_list
  <2>1. /\ UNCHANGED <<disk, pc, mounted, DISK_RESERVE_TIME, DISK_USE_STATUS, LOCK>>
        /\ LOCK # Free
        /\ listed' = {c \in Users \X Disks : mounted[c[1]] = c[2]}
    BY <1>2 DEF sweep_list, statusVars
  <2>2. OneHolder' /\ NoDiskYet' /\ Deleting' /\ Covered' /\ Locked'
    BY <2>1 DEF OneHolder, Holds, NoDiskYet, Deleting, Covered, Locked
  <2>3. \A u \in Users, d \in Disks : mounted[u] = d => <<u, d>> \in listed'
    BY <2>1
  <2>4. Recorded'
    BY <2>1, <2>3 DEF Recorded
  <2> QED BY <2>2, <2>4
<1>3. CASE sweep_end
  <2>1. /\ UNCHANGED <<disk, mounted, DISK_RESERVE_TIME, DISK_USE_STATUS, listed>>
        /\ LOCK # Free /\ surveyed /\ listed = {} /\ LOCK' = Free /\ ~surveyed'
        /\ pc' = IF LOCK = Perf THEN pc ELSE [pc EXCEPT ![LOCK] = "reserve"]
    BY <1>3 DEF sweep_end, statusVars
  <2>2. LOCK # Perf => LOCK \in Users /\ pc[LOCK] = "sweep" /\ disk[LOCK] = NoDisk
                       /\ mounted[LOCK] = NoDisk
    BY <1>0, <2>1 DEF TypeOK, Locked, NoDiskYet, Deleting
  <2>3. \A w \in Workers : pc'[w] = pc[w] \/ (w = LOCK /\ LOCK # Perf /\ pc'[w] = "reserve")
    BY <2>1 DEF TypeOK
  <2>4. NoDiskYet' /\ Deleting'
    BY <1>0, <2>1, <2>2, <2>3 DEF NoDiskYet, Deleting
  <2>5. OneHolder' /\ Covered' /\ Recorded'
    BY <2>1 DEF OneHolder, Holds, Covered, Recorded
  <2>6. Locked'
    BY <2>1, UsersAssumption DEF Locked
  <2> QED BY <2>4, <2>5, <2>6
<1>4. ASSUME NEW u \in Users, NEW d \in Disks, sweep_inspect(u, d)
      PROVE  HolderInv'
  <2>1. /\ UNCHANGED <<disk, pc, mounted, LOCK, surveyed>>
        /\ surveyed /\ LOCK # Free
        /\ listed' = listed \ {<<u, d>>}
    BY <1>4 DEF sweep_inspect
  <2>2. OneHolder' /\ NoDiskYet' /\ Deleting' /\ Locked'
    BY <2>1 DEF OneHolder, Holds, NoDiskYet, Deleting, Locked
  <2>3. CASE /\ mounted[u] = d
             /\ DISK_USE_STATUS' = DISK_USE_STATUS \cup {d}
             /\ DISK_RESERVE_TIME' = DISK_RESERVE_TIME \ {d}
    <3>1. Covered'
      BY <1>0, <2>1, <2>3 DEF Covered, OneHolder, Holds
    <3>2. Recorded'
      BY <2>1, <2>3 DEF Recorded
    <3> QED BY <2>2, <3>1, <3>2
  <2>4. CASE mounted[u] # d /\ UNCHANGED statusVars
    <3>1. Covered' /\ Recorded'
      BY <2>1, <2>4 DEF Covered, Recorded, statusVars
    <3> QED BY <2>2, <3>1
  <2> QED BY <1>4, <2>3, <2>4 DEF sweep_inspect
<1>5. ASSUME NEW d \in Disks, expire(d)
      PROVE  HolderInv'
  <2>1. /\ UNCHANGED <<disk, pc, mounted, DISK_USE_STATUS, LOCK, surveyed, listed>>
        /\ \A w \in Workers : disk[w] = d => w \in Users /\ mounted[w] = d
        /\ DISK_RESERVE_TIME' = DISK_RESERVE_TIME \ {d}
    BY <1>5 DEF expire, sweepVars
  <2>2. OneHolder' /\ NoDiskYet' /\ Deleting' /\ Locked' /\ Recorded'
    BY <2>1 DEF OneHolder, Holds, NoDiskYet, Deleting, Locked, Recorded
  <2>3. Covered'
    BY <2>1 DEF Covered
  <2> QED BY <2>2, <2>3
<1>6. ~sweep_raise
  BY DEF sweep_raise
<1> QED BY <1>1, <1>2, <1>3, <1>4, <1>5, <1>6 DEF survey

\* Outside the recomputation, a disk that is not recorded as used is held by
\* nobody.
LEMMA UnusedUnheld ==
  ASSUME HolderInv, LOCK = Free, NEW d \in Disks, d \notin DISK_USE_STATUS
  PROVE  \A w \in Workers : ~Holds(w, d)
<1>1. ASSUME NEW u \in Users, mounted[u] = d
      PROVE  FALSE
  BY <1>1 DEF HolderInv, Recorded
<1>2. ASSUME NEW w \in Workers, disk[w] = d
      PROVE  FALSE
  BY <1>1, <1>2 DEF HolderInv, Covered
<1> QED BY <1>1, <1>2 DEF Holds

\* A disk is reserved only while nobody holds it, and a refresher gives back
\* only its own (_reserve_disk_id, _unreserve_disk_id).
LEMMA ReserveHolderInv ==
  ASSUME HolderInv, TypeOK',
         \/ \E w \in Workers : reserve_disk_id(w)
         \/ \E r \in Refreshers : unreserve_disk_id(r)
  PROVE  HolderInv'
<1> USE DEF HolderInv, sweepVars
<1>0. Users \subseteq Workers /\ Refreshers \subseteq Workers
  BY DEF Workers
<1>1. ASSUME NEW w \in Workers, reserve_disk_id(w)
      PROVE  HolderInv'
  <2>0. /\ pc[w] = "reserve" /\ LOCK = Free /\ disk[w] = NoDisk
        /\ w \in Users => mounted[w] = NoDisk
        /\ UNCHANGED <<LOCK, listed, surveyed, mounted>>
    BY <1>1 DEF reserve_disk_id, NoDiskYet, Deleting
  <2>1. CASE finish(w) /\ UNCHANGED statusVars
    <3>1. /\ \A x \in Workers : pc'[x] = pc[x] \/ (x = w /\ pc'[x] = "idle")
          /\ \A x \in Workers : disk'[x] = disk[x]
          /\ UNCHANGED <<DISK_USE_STATUS, DISK_RESERVE_TIME>>
      BY <2>0, <2>1 DEF finish, TypeOK, statusVars
    <3>2. NoDiskYet' /\ Deleting'
      BY <1>0, <2>0, <3>1 DEF NoDiskYet, Deleting
    <3>3. OneHolder' /\ Covered' /\ Recorded'
      BY <1>0, <2>0, <3>1 DEF OneHolder, Holds, Covered, Recorded
    <3>4. Locked'
      BY <2>0, UsersAssumption DEF Locked
    <3> QED BY <3>2, <3>3, <3>4
  <2>2. CASE \E d \in unused_disks(from_idx(w)) :
               /\ DISK_USE_STATUS' = DISK_USE_STATUS \cup {d}
               /\ DISK_RESERVE_TIME' = DISK_RESERVE_TIME \cup {d}
               /\ disk' = [disk EXCEPT ![w] = d]
               /\ pc' = [pc EXCEPT ![w] = IF w \in Users THEN "check" ELSE "wipe"]
    <3>1. PICK d \in Disks :
            /\ d \notin DISK_USE_STATUS
            /\ DISK_USE_STATUS' = DISK_USE_STATUS \cup {d}
            /\ DISK_RESERVE_TIME' = DISK_RESERVE_TIME \cup {d}
            /\ disk' = [disk EXCEPT ![w] = d]
            /\ pc' = [pc EXCEPT ![w] = IF w \in Users THEN "check" ELSE "wipe"]
      BY <2>2 DEF unused_disks
    <3>2. /\ disk'[w] = d /\ pc'[w] \in {"check", "wipe"}
          /\ \A x \in Workers : x # w => disk'[x] = disk[x] /\ pc'[x] = pc[x]
      BY <3>1 DEF TypeOK
    <3>3. \A x \in Workers : ~Holds(x, d)
      BY <2>0, <3>1, UnusedUnheld
    <3>4. OneHolder'
      BY <2>0, <3>2, <3>3 DEF OneHolder, Holds
    <3>5. NoDiskYet' /\ Deleting'
      BY <1>0, <2>0, <3>2 DEF NoDiskYet, Deleting
    <3>6. Covered' /\ Recorded'
      BY <2>0, <3>1, <3>2 DEF Covered, Recorded
    <3>7. Locked'
      BY <2>0, UsersAssumption DEF Locked
    <3> QED BY <3>4, <3>5, <3>6, <3>7
  <2> QED BY <1>1, <2>1, <2>2 DEF reserve_disk_id
<1>2. ASSUME NEW r \in Refreshers, unreserve_disk_id(r)
      PROVE  HolderInv'
  <2>0. r \in Workers /\ r \notin Users
    BY UsersAssumption DEF Workers
  <2>1. /\ pc[r] = "unreserve" /\ pc'[r] = "reserve" /\ disk'[r] = NoDisk
        /\ \A x \in Workers : x # r => pc'[x] = pc[x] /\ disk'[x] = disk[x]
        /\ LOCK = Free /\ UNCHANGED <<LOCK, listed, surveyed, mounted>>
        /\ DISK_USE_STATUS' = DISK_USE_STATUS \ {disk[r]}
        /\ DISK_RESERVE_TIME' = DISK_RESERVE_TIME \ {disk[r]}
    BY <1>2, <2>0 DEF unreserve_disk_id, step, TypeOK
  <2>2. OneHolder'
    BY <2>0, <2>1, NoDiskNotDisk DEF OneHolder, Holds
  <2>3. NoDiskYet' /\ Deleting'
    BY <1>0, <2>0, <2>1 DEF NoDiskYet, Deleting
  <2>4. \A d \in Disks, x \in Workers : x # r /\ Holds(x, d) => d # disk[r]
    BY <2>0 DEF OneHolder, Holds
  <2>5. Covered'
    BY <2>0, <2>1, <2>4, NoDiskNotDisk DEF Covered, Holds
  <2>6. Recorded'
    BY <1>0, <2>0, <2>1, <2>4 DEF Recorded, Holds
  <2>7. Locked'
    BY <2>1, UsersAssumption DEF Locked
  <2> QED BY <2>2, <2>3, <2>5, <2>6, <2>7
<1> QED BY <1>1, <1>2

\* A step of one worker that takes no disk and gives none back, within the
\* stages of a launch, of a deletion or of a refresh.
LEMMA StageHolderInv ==
  ASSUME HolderInv, TypeOK', NEW w \in Workers,
         UNCHANGED <<DISK_USE_STATUS, DISK_RESERVE_TIME, LOCK, listed, surveyed, disk, mounted>>,
         \A x \in Workers : x # w => pc'[x] = pc[x],
         pc[w] # "sweep",
         pc'[w] \in {"idle", "sweep", "reserve", "fetch"} => disk[w] = NoDisk,
         w \in Users /\ mounted[w] # NoDisk =>
           pc[w] # "idle" /\ pc'[w] \in {"backup", "wipe", "fill", "stamp", "remove"}
  PROVE  HolderInv'
<1> USE DEF HolderInv
<1>0. Users \subseteq Workers
  BY DEF Workers
<1>1. OneHolder' /\ Covered' /\ Recorded'
  BY DEF OneHolder, Holds, Covered, Recorded
<1>2. NoDiskYet' /\ Deleting'
  BY <1>0 DEF NoDiskYet, Deleting
<1>3. Locked'
  BY <1>0 DEF Locked
<1> QED BY <1>1, <1>2, <1>3

\* A session's thread: the container takes over the disk the launch reserved,
\* and is removed after the work on its disk (create_container, delete).
LEMMA SessionHolderInv ==
  ASSUME ~DockerFails, HolderInv, TypeOK', NEW u \in Users,
         launch(u) \/ session_writes(u) \/ cleanup(u)
  PROVE  HolderInv'
<1> USE DEF HolderInv, statusVars, sweepVars, workVars
<1>0. Users \subseteq Workers
  BY DEF Workers
<1>1. CASE launch_session(u)
  <2>1. pc'[u] = "sweep" /\ pc[u] = "idle" /\ mounted[u] = NoDisk
        /\ \A x \in Workers : x # u => pc'[x] = pc[x]
    BY <1>0, <1>1 DEF launch_session, step, TypeOK
  <2> QED BY <1>0, <1>1, <2>1, StageHolderInv DEF launch_session, NoDiskYet
<1>2. CASE check_refreshed(u) \/ restore(u)
  <2>1. pc'[u] \in {"restore", "wipe", "create"} /\ pc[u] \in {"check", "restore"}
        /\ \A x \in Workers : x # u => pc'[x] = pc[x]
    BY <1>0, <1>2 DEF check_refreshed, restore, step, TypeOK
  <2>2. mounted[u] = NoDisk
    BY <2>1 DEF Deleting
  <2> QED BY <1>0, <1>2, <2>1, <2>2, StageHolderInv DEF check_refreshed, restore
<1>3. CASE create_container(u)
  <2>1. /\ pc[u] = "create" /\ pc'[u] = "idle" /\ disk'[u] = NoDisk
        /\ mounted'[u] = disk[u] /\ \A v \in Users : v # u => mounted'[v] = mounted[v]
        /\ \A x \in Workers : x # u => pc'[x] = pc[x] /\ disk'[x] = disk[x]
        /\ UNCHANGED <<DISK_USE_STATUS, DISK_RESERVE_TIME, LOCK, listed, surveyed>>
    BY <1>0, <1>3 DEF create_container, finish, TypeOK
  <2>2. mounted[u] = NoDisk
    BY <2>1 DEF Deleting
  <2>3. OneHolder'
    BY <1>0, <2>1, NoDiskNotDisk DEF OneHolder, Holds
  <2>4. NoDiskYet' /\ Deleting'
    BY <1>0, <2>1 DEF NoDiskYet, Deleting
  <2>5. Covered'
    BY <1>0, <2>1, NoDiskNotDisk DEF Covered
  <2>6. \A d \in Disks : disk[u] = d => d \in DISK_USE_STATUS
    BY <1>0, <2>2, NoDiskNotDisk DEF Covered
  <2>7. Recorded'
    BY <1>0, <2>1, <2>6 DEF Recorded
  <2>8. Locked'
    BY <1>0, <2>1 DEF Locked
  <2> QED BY <2>3, <2>4, <2>5, <2>7, <2>8
<1>4. CASE session_writes(u)
  BY <1>4 DEF session_writes, OneHolder, Holds, NoDiskYet, Deleting, Covered, Recorded, Locked
<1>5. CASE delete(u)
  <2>1. /\ pc[u] = "idle" /\ pc'[u] \in {"backup", "wipe"} /\ disk'[u] = mounted[u]
        /\ mounted[u] # NoDisk
        /\ \A x \in Workers : x # u => pc'[x] = pc[x] /\ disk'[x] = disk[x]
        /\ UNCHANGED <<DISK_USE_STATUS, DISK_RESERVE_TIME, LOCK, listed, surveyed, mounted>>
    BY <1>0, <1>5 DEF delete, step, TypeOK
  <2>2. OneHolder'
    BY <1>0, <2>1 DEF OneHolder, Holds
  <2>3. NoDiskYet' /\ Deleting'
    BY <1>0, <2>1 DEF NoDiskYet, Deleting
  <2>4. Covered' /\ Recorded'
    BY <1>0, <2>1 DEF Covered, Recorded
  <2>5. Locked'
    BY <1>0, <2>1 DEF Locked
  <2> QED BY <2>2, <2>3, <2>4, <2>5
<1>6. CASE backup(u)
  <2>1. pc'[u] = "wipe" /\ pc[u] = "backup"
        /\ \A x \in Workers : x # u => pc'[x] = pc[x]
    BY <1>0, <1>6 DEF backup, step, TypeOK
  <2> QED BY <1>0, <1>6, <2>1, StageHolderInv DEF backup
<1>7. CASE remove_container(u)
  <2>1. /\ pc[u] = "remove" /\ pc'[u] = "idle" /\ disk'[u] = NoDisk
        /\ mounted'[u] = NoDisk /\ \A v \in Users : v # u => mounted'[v] = mounted[v]
        /\ \A x \in Workers : x # u => pc'[x] = pc[x] /\ disk'[x] = disk[x]
        /\ UNCHANGED <<DISK_USE_STATUS, DISK_RESERVE_TIME, LOCK, listed, surveyed>>
    BY <1>0, <1>7 DEF remove_container, finish, TypeOK
  <2>2. OneHolder'
    BY <1>0, <2>1, NoDiskNotDisk DEF OneHolder, Holds
  <2>3. NoDiskYet' /\ Deleting'
    BY <1>0, <2>1 DEF NoDiskYet, Deleting
  <2>4. Covered'
    BY <1>0, <2>1, NoDiskNotDisk DEF Covered
  <2>5. Recorded'
    BY <2>1, NoDiskNotDisk DEF Recorded
  <2>6. Locked'
    BY <1>0, <2>1 DEF Locked
  <2> QED BY <2>2, <2>3, <2>4, <2>5, <2>6
<1> QED BY <1>1, <1>2, <1>3, <1>4, <1>5, <1>6, <1>7 DEF launch, cleanup

\* Blanking, filling and marking a disk, the refreshers, failures and a
\* restart (refresh_disk, refresh_user_home_image).
LEMMA DiskHolderInv ==
  ASSUME ~DockerFails, HolderInv, TypeOK',
         \/ \E w \in Workers : refresh_disk(w) \/ raise(w)
         \/ update_user_home_image \/ refresh_disks
         \/ restart
  PROVE  HolderInv'
<1> USE DEF HolderInv, statusVars, sweepVars, workVars
<1>0. Users \subseteq Workers /\ UPDATE \in Workers /\ REFRESH \in Workers
      /\ UPDATE \notin Users /\ REFRESH \notin Users
  BY UsersAssumption DEF Workers, Refreshers
<1>1. ASSUME NEW w \in Workers, refresh_disk(w)
      PROVE  HolderInv'
  <2>1. /\ UNCHANGED <<DISK_USE_STATUS, DISK_RESERVE_TIME, LOCK, listed, surveyed, disk, mounted>>
        /\ \A x \in Workers : x # w => pc'[x] = pc[x]
        /\ pc[w] \in {"wipe", "fill", "stamp"}
        /\ pc'[w] \in {"wipe", "fill", "stamp", "restore", "remove", "unreserve"}
    BY <1>1 DEF refresh_disk, ensure_delete, restore_user_home, mark_refreshed, step, TypeOK
  <2>2. ASSUME w \in Users, mounted[w] # NoDisk
        PROVE  pc'[w] \in {"wipe", "fill", "stamp", "remove"}
    BY <1>1, <2>2 DEF refresh_disk, ensure_delete, restore_user_home, mark_refreshed, step,
                      launching, TypeOK
  <2> QED BY <2>1, <2>2, StageHolderInv
<1>2. ASSUME NEW w \in Workers, raise(w)
      PROVE  HolderInv'
  <2>1. /\ pc[w] # "sweep" /\ pc'[w] = "idle" /\ disk'[w] = NoDisk
        /\ \A x \in Workers : x # w => pc'[x] = pc[x] /\ disk'[x] = disk[x]
        /\ UNCHANGED <<DISK_USE_STATUS, DISK_RESERVE_TIME, LOCK, listed, surveyed, mounted>>
    BY <1>2 DEF raise, finish, TypeOK
  <2>2. OneHolder'
    BY <2>1, NoDiskNotDisk DEF OneHolder, Holds
  <2>3. NoDiskYet' /\ Deleting'
    BY <1>0, <2>1 DEF NoDiskYet, Deleting
  <2>4. Covered' /\ Recorded'
    BY <2>1, NoDiskNotDisk DEF Covered, Recorded
  <2>5. Locked'
    BY <1>0, <2>1 DEF Locked
  <2> QED BY <2>2, <2>3, <2>4, <2>5
<1>3. CASE update_user_home_image
  <2>1. /\ UNCHANGED <<DISK_USE_STATUS, DISK_RESERVE_TIME, LOCK, listed, surveyed, disk, mounted>>
        /\ \A x \in Workers : x # UPDATE => pc'[x] = pc[x]
        /\ pc[UPDATE] \in {"idle", "fetch"}
    BY <1>3 DEF update_user_home_image, step, TypeOK
  <2> QED BY <1>0, <2>1, StageHolderInv DEF NoDiskYet
<1>4. CASE refresh_disks
  <2>1. /\ UNCHANGED <<DISK_USE_STATUS, DISK_RESERVE_TIME, LOCK, listed, surveyed, disk, mounted>>
        /\ \A x \in Workers : x # REFRESH => pc'[x] = pc[x]
        /\ pc[REFRESH] = "idle"
    BY <1>4 DEF refresh_disks, step, TypeOK
  <2> QED BY <1>0, <2>1, StageHolderInv DEF NoDiskYet
<1>5. CASE restart
  <2>1. /\ DISK_USE_STATUS' = {mounted[u] : u \in Users} \ {NoDisk}
        /\ LOCK' = Free /\ ~surveyed' /\ mounted' = mounted
        /\ \A w \in Workers : pc'[w] = "idle" /\ disk'[w] = NoDisk
    BY <1>5 DEF restart
  <2>2. OneHolder'
    BY <2>1, NoDiskNotDisk DEF OneHolder, Holds
  <2>3. NoDiskYet' /\ Deleting'
    BY <1>0, <2>1 DEF NoDiskYet, Deleting
  <2>4. Covered' /\ Recorded'
    BY <2>1, NoDiskNotDisk DEF Covered, Recorded
  <2>5. Locked'
    BY <2>1, UsersAssumption DEF Locked
  <2> QED BY <2>2, <2>3, <2>4, <2>5
<1> QED BY <1>1, <1>2, <1>3, <1>4, <1>5

LEMMA NextHolderInv ==
  ASSUME Timely, ~DockerFails
  PROVE  HolderInv /\ [Next]_vars => HolderInv'
<1> SUFFICES ASSUME HolderInv, [Next]_vars
             PROVE  HolderInv'
  OBVIOUS
<1>0. TypeOK'
  BY NextTypeOK DEF HolderInv
<1>1. CASE UNCHANGED vars
  BY <1>0, <1>1 DEF HolderInv, OneHolder, Holds, NoDiskYet, Deleting, Covered, Recorded,
                    Locked, vars, statusVars, sweepVars, workVars
<1>2. CASE Next
  BY <1>0, <1>2, SweepHolderInv, ReserveHolderInv, SessionHolderInv, DiskHolderInv DEF Next
<1> QED BY <1>1, <1>2

THEOREM HolderInvariance ==
  ASSUME Timely, ~DockerFails
  PROVE  Spec => []HolderInv
<1> QED BY InitHolderInv, NextHolderInv, PTL DEF Spec

\* Outside refresh_disk_use_status every disk that a container mounts is
\* recorded as used.
THEOREM MountedRecorded ==
  ASSUME Timely, ~DockerFails
  PROVE  Spec => []MountedDiskUsed
<1>1. HolderInv => MountedDiskUsed
  BY DEF HolderInv, Recorded, TypeOK, MountedDiskUsed
<1> QED BY <1>1, HolderInvariance, PTL

-----------------------------------------------------------------------------
(* The refinement of DiskPool.                                             *)

\* A step after which everybody holds what they held is invisible.
LEMMA SameHolders ==
  ASSUME \A w \in Workers, d \in Disks : Holds(w, d)' = Holds(w, d)
  PROVE  Held' = Held
BY DEF Held, Holders, Holds

\* A step after which some workers hold nothing, and the others what they
\* held, releases disks.
LEMMA LetGo ==
  ASSUME NEW H \in SUBSET Workers,
         \A w \in Workers, d \in Disks : Holds(w, d)' = (Holds(w, d) /\ w \notin H)
  PROVE  Pool!Next
<1>1. \A d \in Disks : Holders(d)' = Holders(d) \ H
  BY DEF Holders, Holds
<1>2. \A d \in Disks : Held'[d] \subseteq Held[d]
  BY <1>1 DEF Held
<1>3. Held' \in [Disks -> SUBSET Workers]
  BY DEF Held, Holders
<1> QED BY <1>2, <1>3 DEF Pool!Next, Pool!Release

\* A worker that takes a disk nobody holds acquires it.
LEMMA TakeDisk ==
  ASSUME NEW w \in Workers, NEW d \in Disks,
         \A x \in Workers : ~Holds(x, d),
         \A x \in Workers, e \in Disks :
           Holds(x, e)' = (Holds(x, e) \/ (x = w /\ e = d))
  PROVE  Pool!Next
<1>1. \A e \in Disks : Holders(e)' = IF e = d THEN {w} ELSE Holders(e)
  BY DEF Holders, Holds
<1>2. Held[d] = {}
  BY DEF Held, Holders, Holds
<1>3. Held' = [Held EXCEPT ![d] = {w}]
  BY <1>1 DEF Held
<1> QED BY <1>2, <1>3 DEF Pool!Next, Pool!Acquire

LEMMA ReserveRefines ==
  ASSUME HolderInv, NEW w \in Workers, reserve_disk_id(w)
  PROVE  Pool!Next \/ Held' = Held
<1>0. pc[w] = "reserve" /\ LOCK = Free /\ disk[w] = NoDisk /\ mounted' = mounted
  BY DEF reserve_disk_id, HolderInv, NoDiskYet
<1>1. CASE finish(w)
  <2>1. \A x \in Workers : disk'[x] = disk[x]
    BY <1>0, <1>1 DEF finish, HolderInv, TypeOK
  <2> QED BY <1>0, <2>1, SameHolders DEF Holds
<1>2. CASE \E d \in unused_disks(from_idx(w)) : disk' = [disk EXCEPT ![w] = d]
  <2>1. PICK d \in Disks : d \notin DISK_USE_STATUS /\ disk' = [disk EXCEPT ![w] = d]
    BY <1>2 DEF unused_disks
  <2>2. \A x \in Workers : ~Holds(x, d)
    BY <1>0, <2>1, UnusedUnheld
  <2>3. \A x \in Workers : disk'[x] = IF x = w THEN d ELSE disk[x]
    BY <2>1 DEF HolderInv, TypeOK
  <2>4. \A x \in Workers, e \in Disks :
           Holds(x, e)' = (Holds(x, e) \/ (x = w /\ e = d))
    BY <1>0, <2>3, NoDiskNotDisk DEF Holds
  <2> QED BY <2>2, <2>4, TakeDisk
<1> QED BY <1>1, <1>2 DEF reserve_disk_id

LEMMA UnreserveRefines ==
  ASSUME HolderInv, NEW r \in Refreshers, unreserve_disk_id(r)
  PROVE  Pool!Next
<1>1. r \in Workers /\ r \notin Users
  BY UsersAssumption DEF Workers
<1>2. \A x \in Workers : disk'[x] = IF x = r THEN NoDisk ELSE disk[x]
  BY <1>1 DEF unreserve_disk_id, HolderInv, TypeOK
<1>3. \A x \in Workers, d \in Disks : Holds(x, d)' = (Holds(x, d) /\ x \notin {r})
  BY <1>1, <1>2, NoDiskNotDisk DEF unreserve_disk_id, Holds
<1> QED BY <1>1, <1>3, LetGo

LEMMA SessionRefines ==
  ASSUME HolderInv, NEW u \in Users, launch(u) \/ session_writes(u) \/ cleanup(u)
  PROVE  Pool!Next \/ Held' = Held
<1> USE DEF workVars
<1>0. u \in Workers
  BY DEF Workers
<1>1. CASE UNCHANGED <<disk, mounted>>
  BY <1>1, SameHolders DEF Holds
<1>2. CASE create_container(u)
  <2>1. mounted[u] = NoDisk
    BY <1>2 DEF create_container, HolderInv, Deleting
  <2>2. /\ \A x \in Workers : disk'[x] = IF x = u THEN NoDisk ELSE disk[x]
        /\ \A v \in Users : mounted'[v] = IF v = u THEN disk[u] ELSE mounted[v]
    BY <1>0, <1>2 DEF create_container, finish, HolderInv, TypeOK
  <2>3. \A w \in Workers, d \in Disks : Holds(w, d)' = Holds(w, d)
    BY <2>1, <2>2, NoDiskNotDisk DEF Holds
  <2> QED BY <2>3, SameHolders
<1>3. CASE delete(u)
  <2>1. /\ \A x \in Workers : disk'[x] = IF x = u THEN mounted[u] ELSE disk[x]
        /\ mounted' = mounted /\ disk[u] = NoDisk
    BY <1>0, <1>3 DEF delete, step, HolderInv, TypeOK, NoDiskYet
  <2>2. \A w \in Workers, d \in Disks : Holds(w, d)' = Holds(w, d)
    BY <2>1, NoDiskNotDisk DEF Holds
  <2> QED BY <2>2, SameHolders
<1>4. CASE remove_container(u)
  <2>1. /\ \A x \in Workers : disk'[x] = IF x = u THEN NoDisk ELSE disk[x]
        /\ \A v \in Users : mounted'[v] = IF v = u THEN NoDisk ELSE mounted[v]
    BY <1>0, <1>4 DEF remove_container, finish, HolderInv, TypeOK
  <2>2. \A w \in Workers, d \in Disks : Holds(w, d)' = (Holds(w, d) /\ w \notin {u})
    BY <2>1, NoDiskNotDisk DEF Holds
  <2> QED BY <1>0, <2>2, LetGo
<1> QED BY <1>1, <1>2, <1>3, <1>4 DEF launch, cleanup, launch_session, check_refreshed, restore,
                                     session_writes, backup

LEMMA FailureRefines ==
  ASSUME HolderInv, (\E w \in Workers : raise(w)) \/ restart
  PROVE  Pool!Next
<1>1. ASSUME NEW w \in Workers, raise(w)
      PROVE  Pool!Next
  <2> DEFINE H == {x \in {w} : ~(w \in Users /\ mounted[w] # NoDisk)}
  <2>1. \A x \in Workers : disk'[x] = IF x = w THEN NoDisk ELSE disk[x]
    BY <1>1 DEF raise, finish, HolderInv, TypeOK
  <2>2. mounted' = mounted
    BY <1>1 DEF raise
  <2>3. \A x \in Workers, d \in Disks : Holds(x, d)' = (Holds(x, d) /\ x \notin H)
    BY <2>1, <2>2, NoDiskNotDisk DEF Holds, HolderInv, Deleting
  <2> QED BY <2>3, LetGo
<1>2. CASE restart
  <2> DEFINE H == {x \in Workers : ~(x \in Users /\ mounted[x] # NoDisk)}
  <2>1. (\A x \in Workers : disk'[x] = NoDisk) /\ mounted' = mounted
    BY <1>2 DEF restart
  <2>2. \A x \in Workers, d \in Disks : Holds(x, d)' = (Holds(x, d) /\ x \notin H)
    BY <2>1, NoDiskNotDisk DEF Holds, HolderInv, Deleting
  <2> QED BY <2>2, LetGo
<1> QED BY <1>1, <1>2

LEMMA InitRefines == Init => Pool!Init
BY NoDiskNotDisk DEF Init, Pool!Init, Held, Holders, Workers

LEMMA NextRefines == HolderInv /\ [Next]_vars => [Pool!Next]_Held
<1> SUFFICES ASSUME HolderInv, [Next]_vars
             PROVE  Pool!Next \/ Held' = Held
  OBVIOUS
<1>1. CASE UNCHANGED <<disk, mounted>>
  BY <1>1, SameHolders DEF Holds
<1>2. CASE \E w \in Workers : reserve_disk_id(w)
  BY <1>2, ReserveRefines
<1>3. CASE \E r \in Refreshers : unreserve_disk_id(r)
  BY <1>3, UnreserveRefines
<1>4. CASE \E u \in Users : launch(u) \/ session_writes(u) \/ cleanup(u)
  BY <1>4, SessionRefines
<1>5. CASE (\E w \in Workers : raise(w)) \/ restart
  BY <1>5, FailureRefines
<1>6. CASE \/ \E w \in Users \cup {Perf} : sweep_reset(w)
           \/ survey
           \/ \E d \in Disks : expire(d)
           \/ \E w \in Workers : refresh_disk(w)
           \/ update_user_home_image \/ refresh_disks
           \/ UNCHANGED vars
  <2>1. UNCHANGED <<disk, mounted>>
    BY <1>6 DEF vars, workVars, survey, sweep_reset, sweep_list, sweep_end, sweep_raise,
                sweep_inspect, expire, refresh_disk, ensure_delete, restore_user_home,
                mark_refreshed, update_user_home_image, refresh_disks
  <2> QED BY <1>1, <2>1
<1> QED BY <1>2, <1>3, <1>4, <1>5, <1>6 DEF Next

\* The pool of loopback disks implements DiskPool: no disk ever has two
\* holders, whatever fails and whenever JBoxd is restarted, as long as
\* reservations are long enough and Docker answers.
THEOREM Refinement ==
  ASSUME Timely, ~DockerFails
  PROVE  Spec => ImplementsDiskPool
<1>1. Spec => Pool!Spec
  BY InitRefines, NextRefines, HolderInvariance, PTL DEF Spec, Pool!Spec
<1> QED BY <1>1 DEF ImplementsDiskPool

-----------------------------------------------------------------------------
(* No files of another user.                                               *)

\* A disk in a container has files of that user only.
MountedOwn == \A u \in Users, d \in Disks : mounted[u] = d => files[d] \subseteq {u}

\* What is on a disk at the stages of the work on it.
StageFiles ==
  \A w \in Workers, d \in Disks : disk[w] = d =>
    /\ pc[w] \in {"fill", "restore", "stamp", "remove"} => files[d] = {}
    /\ pc[w] = "create" => files[d] \subseteq {w}
    /\ pc[w] \in {"fill", "restore", "create"} => marker[d] = 0

\* A marked disk that is in no container is blank.
MarkedBlank ==
  \A d \in Disks : (\A u \in Users : mounted[u] # d) /\ marker[d] # 0 => files[d] = {}

FilesInv == MountedOwn /\ StageFiles /\ MarkedBlank

LEMMA InitFilesInv == Init => FilesInv
BY NoDiskNotDisk DEF Init, FilesInv, MountedOwn, StageFiles, MarkedBlank, Workers

\* Steps that touch no disk and enter no stage the invariant speaks of.
LEMMA AsideFilesInv ==
  ASSUME FilesInv, HolderInv,
         UNCHANGED <<files, marker, mounted>>,
         \A w \in Workers, d \in Disks : disk'[w] = d =>
           \/ disk[w] = d /\ pc'[w] = pc[w]
           \/ pc'[w] \notin {"fill", "restore", "stamp", "remove", "create"}
  PROVE  FilesInv'
BY DEF FilesInv, MountedOwn, StageFiles, MarkedBlank

\* Steps on the disk of one worker, which nobody else holds.
LEMMA OwnDiskFilesInv ==
  ASSUME FilesInv, HolderInv, NEW w \in Workers,
         UNCHANGED <<disk, mounted>>,
         \A x \in Workers : x # w => pc'[x] = pc[x],
         \A e \in Disks : e # disk[w] => files'[e] = files[e] /\ marker'[e] = marker[e],
         \A d \in Disks : disk[w] = d =>
           /\ pc'[w] \in {"fill", "restore", "stamp", "remove"} => files'[d] = {}
           /\ pc'[w] = "create" => files'[d] \subseteq {w}
           /\ pc'[w] \in {"fill", "restore", "create"} => marker'[d] = 0
           /\ w \in Users /\ mounted[w] = d => files'[d] \subseteq {w}
           /\ ~(w \in Users /\ mounted[w] = d) /\ marker'[d] # 0 => files'[d] = {}
  PROVE  FilesInv'
<1> USE DEF FilesInv
<1>0. Users \subseteq Workers
  BY DEF Workers
<1>1. \A x \in Workers, d \in Disks : x # w /\ Holds(x, d) => d # disk[w]
  BY DEF HolderInv, OneHolder, Holds
<1>2. MountedOwn'
  BY <1>0, <1>1 DEF MountedOwn, Holds
<1>3. StageFiles'
  BY <1>1 DEF StageFiles, Holds
<1>4. MarkedBlank'
  BY <1>0 DEF MarkedBlank
<1> QED BY <1>2, <1>3, <1>4

\* Blanking, filling and marking (refresh_disk).
LEMMA RefreshFilesInv ==
  ASSUME FilesInv, HolderInv, NEW w \in Workers, refresh_disk(w)
  PROVE  FilesInv'
<1> USE DEF HolderInv, TypeOK
<1>0. \A d \in Disks : disk[w] = d =>
        /\ w \in Users /\ mounted[w] = d => files[d] \subseteq {w}
        /\ ~(w \in Users /\ mounted[w] = d) /\ marker[d] # 0 => files[d] = {}
  <2>1. ASSUME NEW d \in Disks, disk[w] = d, ~(w \in Users /\ mounted[w] = d)
        PROVE  \A u \in Users : mounted[u] # d
    BY <2>1 DEF OneHolder, Holds, Workers
  <2> QED BY <2>1 DEF FilesInv, MountedOwn, MarkedBlank
<1>1. CASE ensure_delete(w)
  <2>1. /\ UNCHANGED <<disk, mounted>>
        /\ \A x \in Workers : x # w => pc'[x] = pc[x]
        /\ \A e \in Disks : e # disk[w] => files'[e] = files[e] /\ marker'[e] = marker[e]
    BY <1>1 DEF ensure_delete
  <2>2. \A d \in Disks : disk[w] = d =>
          \/ pc'[w] = "wipe" /\ files'[d] \in {files[d], {}} /\ marker'[d] = marker[d]
          \/ pc'[w] = "wipe" /\ files'[d] = files[d] /\ marker'[d] = 0
          \/ pc'[w] = "fill" /\ files'[d] = {} /\ marker'[d] = 0
    BY <1>1 DEF ensure_delete
  <2> QED BY <1>0, <2>1, <2>2, OwnDiskFilesInv
<1>2. CASE restore_user_home(w)
  <2>1. /\ UNCHANGED <<disk, mounted, files, marker>>
        /\ pc[w] = "fill" /\ pc'[w] \in {"restore", "stamp"}
        /\ \A x \in Workers : x # w => pc'[x] = pc[x]
    BY <1>2 DEF restore_user_home, step
  <2>2. \A d \in Disks : disk[w] = d => files[d] = {} /\ marker[d] = 0
    BY <2>1 DEF FilesInv, StageFiles
  <2> QED BY <2>1, <2>2, OwnDiskFilesInv
<1>3. CASE mark_refreshed(w)
  <2>1. /\ UNCHANGED <<disk, mounted, files>>
        /\ pc[w] = "stamp" /\ pc'[w] \in {"remove", "unreserve"}
        /\ \A x \in Workers : x # w => pc'[x] = pc[x]
        /\ \A e \in Disks : e # disk[w] => marker'[e] = marker[e]
    BY <1>3 DEF mark_refreshed, step
  <2>2. \A d \in Disks : disk[w] = d => files[d] = {}
    BY <2>1 DEF FilesInv, StageFiles
  <2> QED BY <2>1, <2>2, OwnDiskFilesInv
<1> QED BY <1>1, <1>2, <1>3 DEF refresh_disk

\* The steps of a session's thread (get_disk_for_user, delete).
LEMMA SessionFilesInv ==
  ASSUME ~DockerFails, FilesInv, HolderInv, NEW u \in Users,
         launch(u) \/ session_writes(u) \/ cleanup(u)
  PROVE  FilesInv'
<1> USE DEF HolderInv, TypeOK, workVars
<1>0. u \in Workers /\ Users \subseteq Workers
  BY DEF Workers
<1>1. CASE launch_session(u)
  <2>1. UNCHANGED <<disk, files, marker, mounted>> /\ pc'[u] = "sweep"
        /\ \A x \in Workers : x # u => pc'[x] = pc[x]
    BY <1>0, <1>1 DEF launch_session, step, diskVars
  <2> QED BY <2>1, AsideFilesInv
<1>2. CASE check_refreshed(u)
  <2>1. /\ UNCHANGED <<disk, mounted, files>> /\ mounted[u] = NoDisk
        /\ \A x \in Workers : x # u => pc'[x] = pc[x]
        /\ \A e \in Disks : e # disk[u] => marker'[e] = marker[e]
    BY <1>0, <1>2 DEF check_refreshed, Deleting
  <2>2. \A d \in Disks : disk[u] = d =>
          \/ pc'[u] = "restore" /\ marker[d] # 0 /\ marker'[d] = 0
          \/ pc'[u] = "wipe" /\ marker'[d] = marker[d]
    BY <1>0, <1>2 DEF check_refreshed, is_refreshed
  <2>3. \A d \in Disks : disk[u] = d => \A v \in Users : mounted[v] # d
    BY <1>0, <2>1, NoDiskNotDisk DEF OneHolder, Holds
  <2>4. \A d \in Disks : disk[u] = d /\ marker[d] # 0 => files[d] = {}
    BY <2>3 DEF FilesInv, MarkedBlank
  <2> QED BY <1>0, <2>1, <2>2, <2>3, <2>4, OwnDiskFilesInv
<1>3. CASE restore(u)
  <2>1. /\ UNCHANGED <<disk, mounted, marker>>
        /\ pc[u] = "restore" /\ pc'[u] = "create" /\ mounted[u] = NoDisk
        /\ \A x \in Workers : x # u => pc'[x] = pc[x]
        /\ \A e \in Disks : files'[e] = IF e = disk[u] THEN files[e] \cup {u} ELSE files[e]
    BY <1>0, <1>3 DEF restore, step, Deleting
  <2>2. \A d \in Disks : disk[u] = d => files[d] = {} /\ marker[d] = 0
    BY <1>0, <2>1 DEF FilesInv, StageFiles
  <2>3. \A e \in Disks : e # disk[u] => files'[e] = files[e] /\ marker'[e] = marker[e]
    BY <2>1
  <2>4. \A d \in Disks : disk[u] = d => files'[d] \subseteq {u} /\ marker'[d] = 0
    BY <2>1, <2>2
  <2>5. \A d \in Disks : mounted[u] # d
    BY <2>1, NoDiskNotDisk
  <2> QED BY <1>0, <2>1, <2>3, <2>4, <2>5, OwnDiskFilesInv
<1>4. CASE create_container(u)
  <2>1. /\ UNCHANGED <<files, marker>> /\ pc[u] = "create" /\ mounted[u] = NoDisk
        /\ \A x \in Workers : disk'[x] = IF x = u THEN NoDisk ELSE disk[x]
        /\ \A x \in Workers : x # u => pc'[x] = pc[x]
        /\ \A v \in Users : mounted'[v] = IF v = u THEN disk[u] ELSE mounted[v]
    BY <1>0, <1>4 DEF create_container, finish, Deleting, diskVars
  <2>2. MountedOwn'
    BY <1>0, <2>1 DEF FilesInv, MountedOwn, StageFiles
  <2>3. StageFiles'
    BY <2>1, NoDiskNotDisk DEF FilesInv, StageFiles
  <2>4. MarkedBlank'
    <3>1. \A d \in Disks : (\A v \in Users : mounted'[v] # d) => \A v \in Users : mounted[v] # d
      BY <2>1, NoDiskNotDisk
    <3> QED BY <2>1, <3>1 DEF FilesInv, MarkedBlank
  <2> QED BY <2>2, <2>3, <2>4 DEF FilesInv
<1>5. CASE session_writes(u)
  <2>1. /\ UNCHANGED <<pc, disk, mounted, marker>> /\ disk[u] = NoDisk
        /\ \A e \in Disks : files'[e] = IF e = mounted[u] THEN files[e] \cup {u} ELSE files[e]
    BY <1>0, <1>5 DEF session_writes, NoDiskYet
  <2>2. \A x \in Workers, d \in Disks : x # u /\ Holds(x, d) => d # mounted[u]
    BY <1>0 DEF OneHolder, Holds
  <2>3. MountedOwn'
    <3>1. \A v \in Users, d \in Disks : v # u /\ mounted[v] = d => files'[d] = files[d]
      BY <1>0, <2>1, <2>2 DEF Holds
    <3>2. \A d \in Disks : mounted[u] = d => files'[d] \subseteq {u}
      BY <1>0, <2>1 DEF FilesInv, MountedOwn
    <3> QED BY <2>1, <3>1, <3>2 DEF FilesInv, MountedOwn
  <2>4. StageFiles'
    <3>1. \A x \in Workers, d \in Disks : disk[x] = d => files'[d] = files[d]
      BY <1>0, <2>1, <2>2, NoDiskNotDisk DEF Holds
    <3> QED BY <2>1, <3>1 DEF FilesInv, StageFiles
  <2>5. MarkedBlank'
    BY <2>1 DEF FilesInv, MarkedBlank
  <2> QED BY <2>3, <2>4, <2>5 DEF FilesInv
<1>6. CASE delete(u)
  <2>1. /\ UNCHANGED <<files, marker, mounted>> /\ pc'[u] \in {"backup", "wipe"}
        /\ \A x \in Workers : x # u => pc'[x] = pc[x] /\ disk'[x] = disk[x]
    BY <1>0, <1>6 DEF delete, step, diskVars
  <2> QED BY <2>1, AsideFilesInv
<1>7. CASE backup(u)
  <2>1. /\ UNCHANGED <<disk, mounted>> /\ pc'[u] = "wipe"
        /\ \A x \in Workers : x # u => pc'[x] = pc[x]
        /\ \A e \in Disks : files'[e] = IF e = disk[u] THEN {} ELSE files[e]
        /\ \A e \in Disks : marker'[e] = IF e = disk[u] THEN 0 ELSE marker[e]
    BY <1>0, <1>7 DEF backup, step
  <2> QED BY <1>0, <2>1, OwnDiskFilesInv
<1>8. CASE remove_container(u)
  <2>1. /\ UNCHANGED <<files, marker>> /\ pc[u] = "remove"
        /\ \A x \in Workers : disk'[x] = IF x = u THEN NoDisk ELSE disk[x]
        /\ \A x \in Workers : x # u => pc'[x] = pc[x]
        /\ \A v \in Users : mounted'[v] = IF v = u THEN NoDisk ELSE mounted[v]
    BY <1>0, <1>8 DEF remove_container, finish, diskVars
  <2>2. MountedOwn' /\ StageFiles'
    BY <2>1, NoDiskNotDisk DEF FilesInv, MountedOwn, StageFiles
  <2>3. \A d \in Disks : mounted[u] = d => files[d] = {}
    BY <1>0, <2>1, NoDiskNotDisk DEF Deleting, FilesInv, StageFiles
  <2>4. MarkedBlank'
    BY <2>1, <2>3, NoDiskNotDisk DEF FilesInv, MarkedBlank
  <2> QED BY <2>2, <2>4 DEF FilesInv
<1> QED BY <1>1, <1>2, <1>3, <1>4, <1>5, <1>6, <1>7, <1>8 DEF launch, cleanup

LEMMA NextFilesInv ==
  ASSUME ~DockerFails
  PROVE  FilesInv /\ HolderInv /\ [Next]_vars => FilesInv'
<1> SUFFICES ASSUME FilesInv, HolderInv, [Next]_vars
             PROVE  FilesInv'
  OBVIOUS
<1> USE DEF workVars, diskVars
<1>1. CASE \E u \in Users : launch(u) \/ session_writes(u) \/ cleanup(u)
  BY <1>1, SessionFilesInv
<1>2. CASE \E w \in Workers : refresh_disk(w)
  BY <1>2, RefreshFilesInv
<1>3. CASE UNCHANGED vars
  BY <1>3, AsideFilesInv DEF vars
<1>4. ASSUME NEW w \in Workers, reserve_disk_id(w)
      PROVE  FilesInv'
  <2>1. UNCHANGED <<files, marker, mounted>>
    BY <1>4 DEF reserve_disk_id
  <2>2. /\ pc'[w] \in {"idle", "check", "wipe"}
        /\ \A x \in Workers : x # w => pc'[x] = pc[x] /\ disk'[x] = disk[x]
    BY <1>4 DEF reserve_disk_id, finish, HolderInv, TypeOK
  <2> QED BY <2>1, <2>2, AsideFilesInv
<1>5. ASSUME NEW r \in Refreshers, unreserve_disk_id(r)
      PROVE  FilesInv'
  <2>1. /\ UNCHANGED <<files, marker, mounted>> /\ pc'[r] = "reserve"
        /\ \A x \in Workers : x # r => pc'[x] = pc[x] /\ disk'[x] = disk[x]
    BY <1>5 DEF unreserve_disk_id, step, HolderInv, TypeOK, Workers
  <2> QED BY <2>1, AsideFilesInv
<1>6. ASSUME NEW w \in Workers, raise(w)
      PROVE  FilesInv'
  <2>1. /\ UNCHANGED <<files, marker, mounted>> /\ pc'[w] = "idle"
        /\ \A x \in Workers : x # w => pc'[x] = pc[x] /\ disk'[x] = disk[x]
    BY <1>6 DEF raise, finish, HolderInv, TypeOK
  <2> QED BY <2>1, AsideFilesInv
<1>7. CASE restart
  <2>1. /\ UNCHANGED <<files, marker, mounted>>
        /\ \A x \in Workers : pc'[x] = "idle"
    BY <1>7 DEF restart
  <2> QED BY <2>1, AsideFilesInv
<1>8. CASE \/ \E w \in Users \cup {Perf} : sweep_reset(w)
           \/ survey
           \/ \E d \in Disks : expire(d)
           \/ update_user_home_image \/ refresh_disks
  <2>1. UNCHANGED <<files, marker, mounted, disk>>
    BY <1>8 DEF survey, sweep_reset, sweep_list, sweep_end, sweep_raise, sweep_inspect,
                expire, update_user_home_image, refresh_disks
  <2>2. \A x \in Workers : pc'[x] \in {pc[x], "reserve", "idle", "fetch"}
    BY <1>8 DEF survey, sweep_reset, sweep_list, sweep_end, sweep_raise, sweep_inspect,
                expire, update_user_home_image, refresh_disks, step, HolderInv, TypeOK
  <2> QED BY <2>1, <2>2, AsideFilesInv
<1> QED BY <1>1, <1>2, <1>3, <1>4, <1>5, <1>6, <1>7, <1>8 DEF Next

\* The files of one user are never on the disk of another, whatever step of a
\* launch, a deletion or a refresh fails, and whenever JBoxd is restarted.
THEOREM FilesPrivate ==
  ASSUME Timely, ~DockerFails
  PROVE  Spec => []NoForeignFiles
<1>1. Init => FilesInv
  BY InitFilesInv
<1>2. FilesInv /\ HolderInv /\ [Next]_vars => FilesInv'
  BY NextFilesInv
<1>3. FilesInv => NoForeignFiles
  <2> SUFFICES ASSUME FilesInv, NEW u \in Users, NEW d \in Disks,
                      mounted[u] = d \/ (disk[u] = d /\ pc[u] \in {"restore", "create"})
               PROVE  files[d] \subseteq {u}
    BY DEF NoForeignFiles
  <2> QED BY DEF FilesInv, MountedOwn, StageFiles, Workers
<1> QED BY <1>1, <1>2, <1>3, HolderInvariance, PTL DEF Spec
=============================================================================
