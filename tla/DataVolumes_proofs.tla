------------------------- MODULE DataVolumes_proofs -------------------------
(***************************************************************************)
(* Why the record of a data volume always names a volume that exists: how  *)
(* the copies of the record that the threads hold keep the volume one of   *)
(* them makes apart from the one the leader deletes.  And why the user's   *)
(* last edit is kept as long as one thread works at a time.                *)
(***************************************************************************)
EXTENDS DataVolumes, TLAPS, FiniteSetTheorems, SequenceTheorems, WellFoundedInduction

attach == task["attach"]

Alive(v) == vols[v].st \in {"free", "attached"}

\* A volume that is attached is at a device, and the attach task works with one.
Deviced ==
  /\ \A v \in Volumes : vols[v].st = "attached" => vols[v].dev \in Devices
  /\ attach.pc \in {"create", "attach"} => attach.dev \in Devices

\* Who holds the record as it is knows that there is one.
Fetched ==
  /\ \A t \in Tasks : task[t].seen # NoRecord /\ ~task[t].stale => record # NoRecord
  /\ \A t \in Tasks : task[t].pc \in {"backup", "detach", "detached"} => task[t].seen # NoRecord
  /\ hk.pc \in {"scan", "save", "delete"} => hk.seen # NoRecord
  /\ hk.pc \in {"scan", "save"} /\ ~hk.stale => record # NoRecord

\* A volume made because there was no record is not the one the leader holds.
Making ==
  /\ attach.pc = "create" => attach.seen = NoRecord
  /\ attach.pc \in {"attach", "save"} => attach.vol \in Volumes
  /\ attach.pc \in {"create", "attach", "save"} /\ attach.seen = NoRecord => record = NoRecord
  /\ attach.pc \in {"attach", "save"} /\ attach.seen = NoRecord =>
       Alive(attach.vol) /\ (hk.seen # NoRecord => hk.seen.vol # attach.vol)

\* What the leader deletes was made, and no record names it any more.
Deleting ==
  /\ hk.seen # NoRecord => vols[hk.seen.vol].st # "no"
  /\ hk.pc = "delete" /\ record # NoRecord => record.vol # hk.seen.vol

IInv == TypeOK /\ Deviced /\ Fetched /\ Making /\ Deleting /\ RecordNamesVolume

-----------------------------------------------------------------------------
(* What holds as long as nothing got in the way.                           *)

\* Where the user's disk is between two jobs: attached, as the record says, or put
\* away, with the user's last edit in the newest of its snapshots.
Newest(b, ss) == IF ss = <<>> THEN b # None /\ snaps[b].data = latest ELSE snaps[ss[Len(ss)]].data = latest
Held == record # NoRecord /\ Mapped = {record.vol} /\ record.state # "detached"
Put  == Mapped = {} /\ (record # NoRecord => record.state = "detached" /\ Newest(base, record.snaps))

\* The snapshots of a disk are there and were taken in the order they are listed,
\* after the one to restore from, which is finished.
Chain(b, ss) ==
  /\ b # None => snaps[b].st = "done"
  /\ \A i \in DOMAIN ss : Exists(ss[i]) /\ b < ss[i] /\ \A k \in 1 .. (i - 1) : ss[k] < ss[i]

\* Snapshots are numbered, and finish, in the order they are taken.
InOrder ==
  \A r, s \in Snapshots : r < s =>
    /\ snaps[r].st = "no" => snaps[s].st = "no"
    /\ snaps[r].st = "pending" => snaps[s].st \in {"no", "pending"}

\* The user's last edit is on the recorded volume or, if there is none, in the snapshot.
Kept == IF record # NoRecord THEN vols[record.vol].data = latest
        ELSE IF base = None THEN latest = 0 ELSE snaps[base].data = latest

Mounts == mounted # None => cont = "running" /\ Held /\ mounted = record.vol

\* One thread at a time, with the record as it is.
Alone ==
  /\ \A t, u \in Tasks : task[t].pc # "idle" /\ task[u].pc # "idle" => t = u
  /\ \A t \in Tasks : hk.pc # "idle" => task[t].pc = "idle"
  /\ \A t \in Tasks : ~task[t].stale /\ task[t].backup /\ (task[t].pc = "idle" => task[t] = Idle)
  /\ ~hk.stale /\ (hk.pc = "idle" => hk = Resting)

Attaching ==
  /\ attach.pc \in {"reserve", "create", "attach"} => Put
  /\ attach.pc = "create" => record = NoRecord
  /\ attach.pc \in {"attach", "save"} =>
       IF record = NoRecord THEN vols[attach.vol].data = latest ELSE attach.vol = record.vol
  /\ attach.pc = "attach" => vols[attach.vol].st = "free"
  /\ attach.pc = "save" => Mapped = {attach.vol} /\ mounted = None
  /\ attach.pc \in {"mount", "mounted"} => Held

Saved(s) ==
  /\ s # None /\ Exists(s) /\ snaps[s].data = latest
  /\ base < s /\ \A i \in DOMAIN record.snaps : record.snaps[i] < s
Detaching(t) ==
  /\ task[t].pc \in {"look", "release", "backup", "detach"} => Held /\ task[t].dev = vols[record.vol].dev
  /\ task[t].pc \in {"release", "backup", "detach", "detached", "remove"} => mounted = None
  /\ task[t].pc \in {"detach", "detached"} => record # NoRecord /\ Saved(task[t].snap)
  /\ task[t].pc = "detached" => Mapped = {}
  /\ task[t].pc = "remove" => Put

\* The leader goes through the snapshots of the record in order.
Scanning ==
  /\ Chain(hk.base, hk.todo) /\ Chain(hk.base, hk.incomplete)
  /\ hk.todo # <<>> => \A i \in DOMAIN hk.incomplete :
       /\ snaps[hk.incomplete[i]].st = "pending"
       /\ \A n \in DOMAIN hk.todo : hk.incomplete[i] < hk.todo[n]
  /\ IF hk.todo = <<>> THEN Newest(hk.base, hk.incomplete) ELSE Newest(hk.base, hk.todo)
Leading ==
  /\ hk.pc # "idle" => Mapped = {}
  /\ hk.pc = "fetch" => Put
  /\ hk.pc \in {"scan", "save"} => record # NoRecord /\ record.state = "detached" /\ Scanning
  /\ hk.pc = "scan" /\ ~hk.modified => hk.base = base /\ Newest(base, record.snaps)
  /\ hk.pc = "save" => hk.todo = <<>> /\ base = hk.base
  /\ hk.pc = "delete" => record = NoRecord
Listed == (hk.pc = "scan" => ~hk.modified) /\ hk.pc # "save" => Chain(base, record.snaps)

Between == (\A t \in Tasks : task[t].pc = "idle") /\ hk.pc = "idle" => Held \/ Put

Calm == /\ Alone /\ InOrder /\ Kept /\ Mounts /\ Attaching /\ Leading /\ Listed /\ Between
        /\ \A t \in Releasers : Detaching(t)

-----------------------------------------------------------------------------
(* Devices, records and jobs.                                              *)

\* None is no device, volume or snapshot.
LEMMA NoneIsNot == None \notin Devices /\ None \notin Volumes /\ None \notin Snapshots
  BY DEF None, Devices, Volumes, Snapshots

LEMMA RecordFields ==
  ASSUME NEW r \in Records
  PROVE  /\ r # NoRecord /\ r.vol \in Volumes /\ r.state \in States
         /\ r.snaps \in Seq(Snapshots) /\ r.old \in BOOLEAN
  BY NoneIsNot DEF Records, NoRecord

\* Every way the record is written.
LEMMA Rewritten ==
  ASSUME NEW r \in Records, NEW st \in States, NEW ss \in Seq(Snapshots)
  PROVE  /\ [r EXCEPT !.state = st] \in Records /\ [r EXCEPT !.state = st].vol = r.vol
         /\ set_state(r, st) \in Records /\ set_state(r, st).vol = r.vol
         /\ [r EXCEPT !.snaps = ss] \in Records /\ [r EXCEPT !.snaps = ss].vol = r.vol
         /\ [r EXCEPT !.state = st, !.old = FALSE, !.snaps = ss] \in Records
         /\ [r EXCEPT !.state = st, !.old = FALSE, !.snaps = ss].vol = r.vol
         /\ [r EXCEPT !.old = TRUE] \in Records /\ [r EXCEPT !.old = TRUE].vol = r.vol
  BY DEF Records, set_state

LEMMA JobFields ==
  ASSUME NEW j \in Jobs
  PROVE  /\ j.pc \in {"idle"} \cup Steps /\ j.dev \in Devices \cup {None} /\ j.vol \in Volumes \cup {None}
         /\ j.snap \in Snapshots \cup {None} /\ j.seen \in Records \cup {NoRecord}
         /\ j.stale \in BOOLEAN /\ j.backup \in BOOLEAN
  BY DEF Jobs

\* A job that goes on, and one whose copy of the record is stale.
LEMMA GoesOn ==
  ASSUME NEW j \in Jobs, NEW pc \in {"idle"} \cup Steps
  PROVE  /\ [j EXCEPT !.pc = pc] \in Jobs /\ [j EXCEPT !.pc = pc].pc = pc
         /\ [j EXCEPT !.pc = pc].dev = j.dev /\ [j EXCEPT !.pc = pc].vol = j.vol
         /\ [j EXCEPT !.pc = pc].snap = j.snap /\ [j EXCEPT !.pc = pc].seen = j.seen
         /\ [j EXCEPT !.pc = pc].stale = j.stale /\ [j EXCEPT !.pc = pc].backup = j.backup
  BY DEF Jobs

LEMMA Stales ==
  ASSUME NEW j \in Jobs, NEW b \in BOOLEAN
  PROVE  /\ [j EXCEPT !.stale = b] \in Jobs /\ [j EXCEPT !.stale = b].stale = b
         /\ [j EXCEPT !.stale = b].pc = j.pc /\ [j EXCEPT !.stale = b].dev = j.dev
         /\ [j EXCEPT !.stale = b].vol = j.vol /\ [j EXCEPT !.stale = b].snap = j.snap
         /\ [j EXCEPT !.stale = b].seen = j.seen /\ [j EXCEPT !.stale = b].backup = j.backup
  BY DEF Jobs

LEMMA IdleJob ==
  /\ Idle \in Jobs /\ Idle.pc = "idle" /\ Idle.seen = NoRecord /\ ~Idle.stale
  /\ [Idle EXCEPT !.pc = "remove"] \in Jobs /\ [Idle EXCEPT !.pc = "remove"].pc = "remove"
  /\ [Idle EXCEPT !.pc = "remove"].seen = NoRecord /\ ~[Idle EXCEPT !.pc = "remove"].stale
  BY DEF Idle, Jobs, Steps, NoRecord

LEMMA RoundFields ==
  ASSUME NEW h \in Rounds
  PROVE  /\ h.pc \in {"idle", "fetch", "scan", "save", "delete"} /\ h.seen \in Records \cup {NoRecord}
         /\ h.stale \in BOOLEAN /\ h.todo \in Seq(Snapshots) /\ h.incomplete \in Seq(Snapshots)
         /\ h.base \in Snapshots \cup {None} /\ h.modified \in BOOLEAN
  BY DEF Rounds

LEMMA RestingRound ==
  Resting \in Rounds /\ Resting.pc = "idle" /\ Resting.seen = NoRecord /\ ~Resting.stale
  BY DEF Resting, Rounds, NoRecord

\* The lowest free device is a free device.
LEMMA LeastDevice ==
  ASSUME ~(Devices \subseteq used), BoundsAssumption
  PROVE  Min(Devices \ used) \in Devices \ used
<1> DEFINE T == Devices \ used
<1>1. T \subseteq Nat /\ T # {}
  BY DEF Devices, BoundsAssumption
<1>2. PICK x \in T : \A y \in T : ~ (<<y, x>> \in OpToRel(<, Nat))
  BY <1>1, NatLessThanWellFounded, WFMin
<1>3. ASSUME NEW y \in T PROVE x <= y
  <2>1. x \in Nat /\ y \in Nat /\ ~(<<y, x>> \in OpToRel(<, Nat))
    BY <1>1, <1>2
  <2>2. (y < x) => <<y, x>> \in OpToRel(<, Nat)
    BY <2>1 DEF OpToRel
  <2>3. ~(y < x)
    BY <2>1, <2>2
  <2>4. \A m, n \in Nat : ~(n < m) => m <= n
    OBVIOUS
  <2> QED
    BY <2>1, <2>3, <2>4, Zenon
<1> HIDE DEF T
<1>4. Min(T) \in T
  BY <1>2, <1>3 DEF Min
<1> QED
  BY <1>4 DEF T

-----------------------------------------------------------------------------
(* Steps that leave the record and the leader's copy of it alone.          *)

\* A job stays as it was, or goes to where nothing is asked of it, or to the next
\* step of attaching or releasing, with the copy of the record it holds.
Further(t) ==
  LET old == task[t] new == task'[t] IN
  \/ new = old
  \/ /\ new.pc \notin {"create", "attach", "save", "backup", "detach", "detached"}
     /\ new.seen = NoRecord \/ (new.seen = old.seen /\ new.stale = old.stale)
  \/ /\ old.pc \in {"backup", "detach", "detached"} /\ new.pc \in {"backup", "detach", "detached"}
     /\ new.seen = old.seen /\ new.stale = old.stale
  \/ /\ old.pc = "attach" /\ new.pc = "save"
     /\ new.vol = old.vol /\ new.seen = old.seen /\ new.stale = old.stale

SameVolumes ==
  \A v \in Volumes : /\ Alive(v)' <=> Alive(v)
                     /\ vols'[v].st = "no" <=> vols[v].st = "no"
                     /\ vols'[v].st = "attached" => vols'[v].dev \in Devices

LEMMA Quiet ==
  ASSUME IInv, TypeOK', SameVolumes, \A t \in Tasks : Further(t), UNCHANGED hk,
         (record = NoRecord) <=> (record' = NoRecord), record'.vol = record.vol
  PROVE  IInv'
<1> USE DEF IInv
<1>1. "attach" \in Tasks /\ attach = task["attach"]
  BY DEF Tasks, attach
<1>2. Further("attach")
  BY <1>1
<1>3. /\ record # NoRecord => record.vol \in Volumes
      /\ hk.seen # NoRecord => hk.seen.vol \in Volumes
  BY RecordFields, RoundFields DEF TypeOK
<1>4. Deviced'
  BY <1>1, <1>2 DEF Deviced, SameVolumes, Further, attach
<1>5. Fetched'
  BY DEF Fetched, Further
<1>6. Making'
  BY <1>1, <1>2, <1>3 DEF Making, SameVolumes, Further, attach
<1>7. Deleting'
  BY <1>3 DEF Deleting, SameVolumes
<1>8. RecordNamesVolume'
  BY <1>3 DEF RecordNamesVolume, SameVolumes, Alive
<1> QED
  BY <1>4, <1>5, <1>6, <1>7, <1>8

\* Only one job moves.
LEMMA OneMoves ==
  ASSUME TypeOK, NEW t \in Tasks, NEW j \in Jobs, task' = [task EXCEPT ![t] = j]
  PROVE  /\ task' \in [Tasks -> Jobs] /\ task'[t] = j
         /\ \A x \in Tasks : x # t => task'[x] = task[x]
BY DEF TypeOK

LEMMA Ends ==
  ASSUME TypeOK, NEW t \in Tasks, end(t)
  PROVE  task' \in [Tasks -> Jobs] /\ \A x \in Tasks : Further(x)
<1>1. /\ task' \in [Tasks -> Jobs] /\ task'[t] = Idle
      /\ \A x \in Tasks : x # t => task'[x] = task[x]
  BY OneMoves, IdleJob DEF end
<1> QED
  BY <1>1, IdleJob DEF Further

LEMMA Goes ==
  ASSUME TypeOK, NEW t \in Tasks, NEW pc \in {"idle"} \cup Steps, goto(t, pc)
  PROVE  /\ task' \in [Tasks -> Jobs]
         /\ task'[t] = [task[t] EXCEPT !.pc = pc]
         /\ task'[t].pc = pc /\ task'[t].vol = task[t].vol /\ task'[t].dev = task[t].dev
         /\ task'[t].seen = task[t].seen /\ task'[t].stale = task[t].stale
         /\ task'[t].snap = task[t].snap /\ task'[t].backup = task[t].backup
         /\ \A x \in Tasks : x # t => task'[x] = task[x]
<1> DEFINE j == [task[t] EXCEPT !.pc = pc]
<1>1. task[t] \in Jobs
  BY DEF TypeOK
<1>2. /\ j \in Jobs /\ j.pc = pc /\ j.vol = task[t].vol /\ j.dev = task[t].dev
      /\ j.seen = task[t].seen /\ j.stale = task[t].stale
      /\ j.snap = task[t].snap /\ j.backup = task[t].backup
  BY <1>1, GoesOn
<1>3. task' = [task EXCEPT ![t] = j]
  BY DEF goto
<1> HIDE DEF j
<1>4. /\ task' \in [Tasks -> Jobs] /\ task'[t] = j
      /\ \A x \in Tasks : x # t => task'[x] = task[x]
  BY <1>2, <1>3, OneMoves
<1> QED
  BY <1>2, <1>4 DEF j

LEMMA SameRecord ==
  ASSUME IInv, UNCHANGED vols
  PROVE  SameVolumes
BY DEF IInv, Deviced, SameVolumes, Alive

LEMMA GoesFurther ==
  ASSUME TypeOK, NEW t \in Tasks, NEW pc \in {"idle"} \cup Steps, goto(t, pc),
         \/ pc \notin {"create", "attach", "save", "backup", "detach", "detached"}
         \/ task[t].pc \in {"backup", "detach", "detached"} /\ pc \in {"backup", "detach", "detached"}
         \/ task[t].pc = "attach" /\ pc = "save"
  PROVE  task' \in [Tasks -> Jobs] /\ \A x \in Tasks : Further(x)
<1>1. /\ task' \in [Tasks -> Jobs] /\ task'[t].pc = pc /\ task'[t].vol = task[t].vol
      /\ task'[t].seen = task[t].seen /\ task'[t].stale = task[t].stale
      /\ \A x \in Tasks : x # t => task'[x] = task[x]
  BY Goes
<1> QED
  BY <1>1 DEF Further

LEMMA Attaches == "attach" \in Tasks /\ Releasers \subseteq Tasks
BY DEF Tasks

LEMMA RefreshKeeps ==
  ASSUME IInv, refresh_disk_use_status
  PROVE  IInv'
<1> USE DEF ec2, refresh_disk_use_status
<1>1. TypeOK'
  BY DEF IInv, TypeOK, Deviced, Mapped
<1>2. SameVolumes
  BY SameRecord
<1>3. \A t \in Tasks : Further(t)
  BY DEF Further
<1> QED
  BY <1>1, <1>2, <1>3, Quiet

LEMMA AttachStartKeeps ==
  ASSUME IInv, do_task_attach
  PROVE  IInv'
<1> USE DEF ec2, disk, do_task_attach
<1>1. task' \in [Tasks -> Jobs] /\ \A x \in Tasks : Further(x)
  BY GoesFurther, Attaches DEF IInv, Steps
<1>2. disturbed' \in 0 .. MaxDisturbances
  BY DEF IInv, TypeOK, Start, disturb
<1>3. TypeOK'
  BY <1>1, <1>2 DEF IInv, TypeOK
<1>4. SameVolumes
  BY SameRecord
<1> QED
  BY <1>1, <1>3, <1>4, Quiet

LEMMA AttachVolumeKeeps ==
  ASSUME IInv, attach_volume
  PROVE  IInv'
<1> USE DEF ec2, disk
<1> DEFINE v == attach.vol
           d == attach.dev
<1>1. task' \in [Tasks -> Jobs] /\ \A x \in Tasks : Further(x)
  BY GoesFurther, Ends, Attaches DEF IInv, Steps, attach_volume
<1>2. /\ attach.pc = "attach" /\ v \in Volumes /\ d \in Devices
  BY DEF IInv, Making, Deviced, attach, attach_volume
<1>3. attach_free_volume(v, d) \/ UNCHANGED vols
  BY DEF attach_volume, attach
<1>4. vols' \in [Volumes -> [st : {"no", "free", "attached", "deleted"}, dev : Devices \cup {None}, data : 0 .. MaxEdits]]
      /\ SameVolumes
  <2>1. CASE UNCHANGED vols
    BY <2>1, SameRecord DEF IInv, TypeOK
  <2>2. CASE attach_free_volume(v, d)
    <3> DEFINE r == [vols[v] EXCEPT !.st = "attached", !.dev = d]
    <3>1. vols[v] \in [st : {"no", "free", "attached", "deleted"}, dev : Devices \cup {None}, data : 0 .. MaxEdits]
      BY <1>2 DEF IInv, TypeOK
    <3>2. /\ r \in [st : {"no", "free", "attached", "deleted"}, dev : Devices \cup {None}, data : 0 .. MaxEdits]
          /\ r.st = "attached" /\ r.dev = d
      BY <1>2, <3>1
    <3>3. vols' = [vols EXCEPT ![v] = r] /\ vols[v].st = "free"
      BY <2>2 DEF attach_free_volume
    <3> HIDE DEF r, v, d
    <3>4. \A x \in Volumes : vols'[x] = IF x = v THEN r ELSE vols[x]
      BY <1>2, <3>3 DEF IInv, TypeOK
    <3>5. SameVolumes
      BY <1>2, <3>2, <3>3, <3>4 DEF IInv, Deviced, SameVolumes, Alive
    <3> QED
      BY <1>2, <3>2, <3>3, <3>5 DEF IInv, TypeOK
  <2> QED
    BY <1>3, <2>1, <2>2
<1>5. UNCHANGED <<cont, mounted, latest, snaps, disk, record, base, hk, disturbed>>
  BY DEF attach_volume
<1>6. TypeOK'
  BY <1>1, <1>4, <1>5 DEF IInv, TypeOK
<1> QED
  BY <1>1, <1>4, <1>5, <1>6, Quiet

LEMMA MountKeeps ==
  ASSUME IInv, mount_host_device
  PROVE  IInv'
<1> USE DEF ec2, disk
<1>1. task' \in [Tasks -> Jobs] /\ \A x \in Tasks : Further(x)
  BY GoesFurther, Ends, Attaches DEF IInv, Steps, mount_host_device
<1>2. mounted' \in Volumes \cup {None}
  BY DEF IInv, TypeOK, mount_host_device, Mapped
<1>3. UNCHANGED <<cont, latest, ec2, disk, record, base, hk, disturbed>>
  BY DEF mount_host_device
<1>4. TypeOK'
  BY <1>1, <1>2, <1>3 DEF IInv, TypeOK
<1>5. SameVolumes
  BY <1>3, SameRecord
<1> QED
  BY <1>1, <1>3, <1>4, <1>5, Quiet

\* A release begins: with a job of its own.
LEMMA Begins ==
  ASSUME IInv, NEW t \in Releasers, NEW v \in Mapped, NEW b \in BOOLEAN,
         \/ task' = Releasing(t, v, b)
         \/ task' = [Releasing(t, v, b) EXCEPT ![t] = [@ EXCEPT !.pc = "look"]]
  PROVE  task' \in [Tasks -> Jobs] /\ \A x \in Tasks : Further(x)
<1> DEFINE j == [Idle EXCEPT !.pc = "release", !.dev = vols[v].dev, !.backup = b]
           k == [j EXCEPT !.pc = "look"]
<1>1. vols[v].dev \in Devices
  BY DEF IInv, Deviced, Mapped
<1>2. j \in Jobs /\ j.pc = "release" /\ j.seen = NoRecord
  BY <1>1 DEF Idle, Jobs, Steps, NoRecord
<1>3. k \in Jobs /\ k.pc = "look" /\ k.seen = NoRecord
  BY <1>2, GoesOn DEF Steps
<1>4. task' = [task EXCEPT ![t] = j] \/ task' = [task EXCEPT ![t] = k]
  <2>1. Releasing(t, v, b) = [task EXCEPT ![t] = j]
    BY DEF Releasing
  <2>2. task \in [Tasks -> Jobs] /\ t \in Tasks
    BY Attaches DEF IInv, TypeOK
  <2> HIDE DEF j
  <2> QED
    BY <2>1, <2>2, <1>2
<1> HIDE DEF j, k
<1>5. t \in Tasks /\ TypeOK
  BY Attaches DEF IInv
<1>6. CASE task' = [task EXCEPT ![t] = j]
  BY <1>2, <1>5, <1>6, OneMoves DEF Further
<1>7. CASE task' = [task EXCEPT ![t] = k]
  BY <1>3, <1>5, <1>7, OneMoves DEF Further
<1> QED
  BY <1>4, <1>6, <1>7

LEMMA DetachStartKeeps ==
  ASSUME IInv, NEW v \in Mapped, do_task_detach, mounted' = None,
         task' = Releasing("detach", v, TRUE), UNCHANGED <<record, hk>>
  PROVE  IInv'
<1> USE DEF ec2, disk
<1>1. task' \in [Tasks -> Jobs] /\ \A x \in Tasks : Further(x)
  BY Begins DEF Releasers
<1>2. UNCHANGED <<cont, latest, ec2, disk, record, base, hk>>
  BY DEF do_task_detach
<1>3. disturbed' \in 0 .. MaxDisturbances
  BY DEF IInv, TypeOK, do_task_detach, Start, disturb
<1>4. TypeOK'
  BY <1>1, <1>2, <1>3 DEF IInv, TypeOK
<1>5. SameVolumes
  BY <1>2, SameRecord
<1> QED
  BY <1>1, <1>2, <1>4, <1>5, Quiet

LEMMA CleanupKeeps ==
  ASSUME IInv, before_delete
  PROVE  IInv'
<1> USE DEF ec2, disk
<1>1. task' \in [Tasks -> Jobs] /\ \A x \in Tasks : Further(x)
  <2>1. PICK b \in BOOLEAN : \/ \E v \in Mapped : task' = Releasing("cleanup", v, b)
                             \/ goto("cleanup", "remove")
    BY DEF before_delete
  <2>2. CASE \E v \in Mapped : task' = Releasing("cleanup", v, b)
    BY <2>2, Begins DEF Releasers
  <2>3. CASE goto("cleanup", "remove")
    BY <2>3, GoesFurther, Attaches DEF IInv, Steps, Releasers
  <2> QED
    BY <2>1, <2>2, <2>3
<1>2. /\ UNCHANGED <<latest, ec2, disk, record, base, hk>>
      /\ cont' = "stopped" /\ mounted' = None
  BY DEF before_delete
<1>3. disturbed' \in 0 .. MaxDisturbances
  BY DEF IInv, TypeOK, before_delete, disturb
<1>4. TypeOK'
  BY <1>1, <1>2, <1>3 DEF IInv, TypeOK
<1>5. SameVolumes
  BY <1>2, SameRecord
<1> QED
  BY <1>1, <1>2, <1>4, <1>5, Quiet

LEMMA RemoveKeeps ==
  ASSUME IInv, remove_container
  PROVE  IInv'
<1> USE DEF ec2, disk, remove_container
<1>1. task' \in [Tasks -> Jobs] /\ \A x \in Tasks : Further(x)
  BY Ends, Attaches DEF IInv, Releasers
<1>2. TypeOK'
  BY <1>1 DEF IInv, TypeOK
<1>3. SameVolumes
  BY SameRecord
<1> QED
  BY <1>1, <1>2, <1>3, Quiet

LEMMA NodeStartKeeps ==
  ASSUME IInv, do_node_housekeeping
  PROVE  IInv'
<1> USE DEF ec2, disk, do_node_housekeeping
<1>1. task' \in [Tasks -> Jobs] /\ \A x \in Tasks : Further(x)
  BY Begins DEF Releasers
<1>2. disturbed' \in 0 .. MaxDisturbances
  BY DEF IInv, TypeOK, Start, disturb
<1>3. TypeOK'
  BY <1>1, <1>2 DEF IInv, TypeOK
<1>4. SameVolumes
  BY SameRecord
<1> QED
  BY <1>1, <1>3, <1>4, Quiet

LEMMA OrphanedKeeps ==
  ASSUME IInv, orphaned
  PROVE  IInv'
<1> USE DEF ec2, disk, orphaned
<1>1. task' \in [Tasks -> Jobs] /\ \A x \in Tasks : Further(x)
  BY Ends, GoesFurther, Attaches DEF IInv, Releasers, Steps
<1>2. TypeOK'
  BY <1>1 DEF IInv, TypeOK
<1>3. SameVolumes
  BY SameRecord
<1> QED
  BY <1>1, <1>2, <1>3, Quiet

LEMMA BackupKeeps ==
  ASSUME IInv, NEW t \in Releasers, backup(t)
  PROVE  IInv'
<1> USE DEF ec2, disk
<1> DEFINE Snapshot == [st : {"no", "pending", "done", "deleted"}, data : 0 .. MaxEdits]
<1>1. /\ t \in Tasks /\ TypeOK /\ task[t].pc = "backup" /\ task[t] \in Jobs
      /\ UNCHANGED <<cont, mounted, latest, vols, disk, record, base, hk, disturbed>>
  BY Attaches DEF IInv, TypeOK, backup
<1>2. \/ goto(t, "detach") /\ UNCHANGED snaps
      \/ \E v \in Volumes, s \in Snapshots :
           /\ snaps' = [snaps EXCEPT ![s] = [st |-> "pending", data |-> vols[v].data]]
           /\ task' = [task EXCEPT ![t] = [@ EXCEPT !.pc = "detach", !.snap = s]]
  BY DEF backup, MappedAt, Mapped
<1>3. CASE goto(t, "detach") /\ UNCHANGED snaps
  <2>1. task' \in [Tasks -> Jobs] /\ \A x \in Tasks : Further(x)
    BY <1>1, <1>3, GoesFurther DEF Steps
  <2>2. TypeOK'
    BY <1>1, <1>3, <2>1 DEF TypeOK
  <2> QED
    BY <1>1, <2>1, <2>2, SameRecord, Quiet
<1>4. ASSUME NEW v \in Volumes, NEW s \in Snapshots,
             snaps' = [snaps EXCEPT ![s] = [st |-> "pending", data |-> vols[v].data]],
             task' = [task EXCEPT ![t] = [@ EXCEPT !.pc = "detach", !.snap = s]]
      PROVE  IInv'
  <2> DEFINE j == [task[t] EXCEPT !.pc = "detach", !.snap = s]
             n == [st |-> "pending", data |-> vols[v].data]
  <2>1. j \in Jobs /\ j.pc = "detach" /\ j.seen = task[t].seen /\ j.stale = task[t].stale
    BY <1>1 DEF Jobs, Steps
  <2>2. task' = [task EXCEPT ![t] = j] /\ snaps' = [snaps EXCEPT ![s] = n]
    BY <1>4
  <2>3. vols[v].data \in 0 .. MaxEdits
    BY <1>1 DEF TypeOK
  <2>4. n \in Snapshot
    BY <2>3
  <2> HIDE DEF j, n
  <2>5. task' \in [Tasks -> Jobs] /\ task'[t] = j /\ \A x \in Tasks : x # t => task'[x] = task[x]
    BY <1>1, <2>1, <2>2, OneMoves
  <2>6. \A x \in Tasks : Further(x)
    BY <1>1, <2>1, <2>5 DEF Further
  <2>7. snaps' \in [Snapshots -> Snapshot]
    BY <1>1, <2>2, <2>4 DEF TypeOK
  <2>8. TypeOK'
    BY <1>1, <2>5, <2>7 DEF TypeOK
  <2> QED
    BY <1>1, <2>6, <2>8, SameRecord, Quiet
<1> QED
  BY <1>2, <1>3, <1>4

EC2Volumes == [st : {"no", "free", "attached", "deleted"}, dev : Devices \cup {None}, data : 0 .. MaxEdits]

\* One volume changes.
LEMMA OneVolume ==
  ASSUME TypeOK, NEW v \in Volumes, NEW r \in EC2Volumes, vols' = [vols EXCEPT ![v] = r]
  PROVE  /\ vols' \in [Volumes -> EC2Volumes] /\ vols'[v] = r
         /\ \A x \in Volumes : x # v => vols'[x] = vols[x]
BY DEF TypeOK, EC2Volumes

\* One that is there stays there, and at a device while it is attached.
LEMMA StaysThere ==
  ASSUME IInv, NEW v \in Volumes, NEW r \in EC2Volumes, vols' = [vols EXCEPT ![v] = r],
         vols[v].st = r.st \/ (Alive(v) /\ r.st \in {"free", "attached"}),
         r.st = "attached" => r.dev \in Devices
  PROVE  vols' \in [Volumes -> EC2Volumes] /\ SameVolumes
<1>1. vols' \in [Volumes -> EC2Volumes] /\ vols'[v] = r /\ \A x \in Volumes : x # v => vols'[x] = vols[x]
  BY OneVolume DEF IInv
<1> QED
  BY <1>1 DEF SameVolumes, Alive, IInv, Deviced

LEMMA DetachVolumeKeeps ==
  ASSUME IInv, NEW t \in Releasers, detach_volume(t)
  PROVE  IInv'
<1> USE DEF ec2, disk
<1>1. /\ t \in Tasks /\ TypeOK /\ task[t].pc = "detach"
      /\ UNCHANGED <<cont, latest, snaps, disk, record, base, hk, disturbed>>
  BY Attaches DEF IInv, detach_volume
<1>2. task' \in [Tasks -> Jobs] /\ \A x \in Tasks : Further(x)
  BY <1>1, Ends, GoesFurther DEF Steps, detach_volume
<1>3. mounted' \in Volumes \cup {None}
  BY <1>1 DEF TypeOK, detach_volume
<1>4. CASE UNCHANGED vols
  <2>1. TypeOK'
    BY <1>1, <1>2, <1>3, <1>4 DEF TypeOK
  <2> QED
    BY <1>1, <1>2, <1>4, <2>1, SameRecord, Quiet
<1>5. CASE \E v \in Mapped : vols' = [vols EXCEPT ![v] = [@ EXCEPT !.st = "free", !.dev = None]]
  <2>1. PICK v \in Mapped : vols' = [vols EXCEPT ![v] = [@ EXCEPT !.st = "free", !.dev = None]]
    BY <1>5
  <2> DEFINE r == [vols[v] EXCEPT !.st = "free", !.dev = None]
  <2>2. v \in Volumes /\ vols[v].st = "attached" /\ vols[v] \in EC2Volumes
    BY <1>1 DEF Mapped, TypeOK, EC2Volumes
  <2>3. r \in EC2Volumes /\ r.st = "free"
    BY <2>2 DEF EC2Volumes
  <2>4. vols' = [vols EXCEPT ![v] = r]
    BY <2>1
  <2> HIDE DEF r
  <2>5. vols' \in [Volumes -> EC2Volumes] /\ SameVolumes
    BY <2>2, <2>3, <2>4, StaysThere DEF Alive
  <2>6. TypeOK'
    BY <1>1, <1>2, <1>3, <2>5 DEF TypeOK, EC2Volumes
  <2> QED
    BY <1>1, <1>2, <2>5, <2>6, Quiet
<1> QED
  BY <1>4, <1>5 DEF detach_volume, MappedAt

LEMMA SessionKeeps ==
  ASSUME IInv, session_starts \/ container_exits
  PROVE  IInv'
<1> USE DEF ec2, disk
<1>1. /\ UNCHANGED <<latest, ec2, disk, record, base, task, hk, disturbed>>
      /\ cont' \in {"none", "running", "stopped"} /\ mounted' \in {mounted, None}
  BY DEF session_starts, container_exits
<1>2. TypeOK'
  BY <1>1 DEF IInv, TypeOK
<1>3. \A t \in Tasks : Further(t)
  BY <1>1 DEF Further
<1> QED
  BY <1>1, <1>2, <1>3, SameRecord, Quiet

LEMMA WriteKeeps ==
  ASSUME IInv, session_writes
  PROVE  IInv'
<1> USE DEF ec2, disk
<1> DEFINE r == [vols[mounted] EXCEPT !.data = latest + 1]
<1>1. /\ mounted \in Volumes /\ latest' = latest + 1 /\ vols' = [vols EXCEPT ![mounted] = r]
      /\ UNCHANGED <<cont, mounted, snaps, disk, record, base, task, hk, disturbed>>
  BY DEF session_writes, IInv, TypeOK
<1>2. latest + 1 \in 0 .. MaxEdits
  BY BoundsAssumption DEF session_writes, IInv, TypeOK, BoundsAssumption
<1>3. vols[mounted] \in EC2Volumes
  BY <1>1 DEF IInv, TypeOK, EC2Volumes
<1>4. /\ r \in EC2Volumes /\ r.st = vols[mounted].st /\ r.dev = vols[mounted].dev
  BY <1>2, <1>3 DEF EC2Volumes
<1> HIDE DEF r
<1>5. vols' \in [Volumes -> EC2Volumes] /\ SameVolumes
  BY <1>1, <1>4, StaysThere DEF IInv, Deviced
<1>6. TypeOK'
  BY <1>1, <1>2, <1>5 DEF IInv, TypeOK, EC2Volumes
<1>7. \A t \in Tasks : Further(t)
  BY <1>1 DEF Further
<1> QED
  BY <1>1, <1>5, <1>6, <1>7, Quiet

LEMMA SnapshotKeeps ==
  ASSUME IInv, snapshot_completes
  PROVE  IInv'
<1> USE DEF ec2, disk
<1>1. UNCHANGED <<cont, mounted, latest, vols, disk, record, base, task, hk>>
  BY DEF snapshot_completes
<1>2. disturbed' \in 0 .. MaxDisturbances
  BY DEF IInv, TypeOK, snapshot_completes, disturb
<1>3. snaps' \in [Snapshots -> [st : {"no", "pending", "done", "deleted"}, data : 0 .. MaxEdits]]
  <2>1. PICK s \in Snapshots : snaps' = [snaps EXCEPT ![s] = [@ EXCEPT !.st = "done"]]
    BY DEF snapshot_completes
  <2> DEFINE r == [snaps[s] EXCEPT !.st = "done"]
  <2>2. r \in [st : {"no", "pending", "done", "deleted"}, data : 0 .. MaxEdits]
    BY DEF IInv, TypeOK
  <2>3. snaps' = [snaps EXCEPT ![s] = r]
    BY <2>1
  <2> HIDE DEF r
  <2> QED
    BY <2>2, <2>3 DEF IInv, TypeOK
<1>4. TypeOK'
  BY <1>1, <1>2, <1>3 DEF IInv, TypeOK
<1>5. \A t \in Tasks : Further(t)
  BY <1>1 DEF Further
<1> QED
  BY <1>1, <1>4, <1>5, SameRecord, Quiet

LEMMA DayKeeps ==
  ASSUME IInv, day_passes
  PROVE  IInv'
<1> USE DEF ec2, disk, day_passes
<1>1. record \in Records
  BY DEF IInv, TypeOK
<1>2. record' \in Records /\ record'.vol = record.vol
  BY <1>1 DEF Records
<1>3. TypeOK'
  BY <1>2 DEF IInv, TypeOK
<1>4. record' # NoRecord
  BY <1>2, RecordFields
<1>5. \A t \in Tasks : Further(t)
  BY DEF Further
<1> QED
  BY <1>2, <1>3, <1>4, <1>5, SameRecord, Quiet

-----------------------------------------------------------------------------
(* The leader goes on with its copy of the record, or drops it.            *)

LEMMA LeaderKeeps ==
  ASSUME IInv, TypeOK', UNCHANGED <<vols, record, task>>,
         \/ hk'.seen = NoRecord /\ hk'.pc \in {"idle", "fetch"}
         \/ /\ hk'.seen = hk.seen /\ hk'.stale = hk.stale
            /\ hk.pc \in {"scan", "save"} /\ hk'.pc \in {"scan", "save"}
         \/ record # NoRecord /\ hk'.seen = record /\ hk'.pc = "scan"
  PROVE  IInv'
<1>1. record # NoRecord => record.vol \in Volumes
  BY RecordFields DEF IInv, TypeOK
<1>2. Deviced' /\ RecordNamesVolume'
  BY DEF IInv, Deviced, RecordNamesVolume, attach
<1>3. Fetched'
  BY DEF IInv, Fetched
<1>4. Making'
  BY DEF IInv, Making, Alive, attach
<1>5. Deleting'
  BY <1>1 DEF IInv, Deleting, RecordNamesVolume
<1> QED
  BY <1>2, <1>3, <1>4, <1>5 DEF IInv

LEMMA FailKeeps ==
  ASSUME IInv, fail
  PROVE  IInv'
<1> USE DEF ec2, disk
<1>1. UNCHANGED <<cont, mounted, latest, ec2, disk, record, base>>
  BY DEF fail
<1>2. disturbed' \in 0 .. MaxDisturbances
  BY DEF IInv, TypeOK, fail, disturb
<1>3. CASE (\E t \in Tasks : end(t)) /\ UNCHANGED hk
  <2>1. task' \in [Tasks -> Jobs] /\ \A x \in Tasks : Further(x)
    BY <1>3, Ends DEF IInv
  <2>2. TypeOK'
    BY <1>1, <1>2, <1>3, <2>1 DEF IInv, TypeOK
  <2> QED
    BY <1>1, <1>3, <2>1, <2>2, SameRecord, Quiet
<1>4. CASE rest /\ UNCHANGED task
  <2>1. TypeOK'
    BY <1>1, <1>2, <1>4, RestingRound DEF IInv, TypeOK, rest
  <2> QED
    BY <1>1, <1>4, <2>1, RestingRound, LeaderKeeps DEF rest
<1> QED
  BY <1>3, <1>4 DEF fail, Busy

LEMMA RoundGoes ==
  ASSUME NEW h \in Rounds, NEW pc \in {"idle", "fetch", "scan", "save", "delete"}
  PROVE  /\ [h EXCEPT !.pc = pc] \in Rounds
         /\ [h EXCEPT !.pc = pc].pc = pc /\ [h EXCEPT !.pc = pc].seen = h.seen
         /\ [h EXCEPT !.pc = pc].stale = h.stale
BY DEF Rounds

LEMMA ListKeeps ==
  ASSUME IInv, get_detached_disks
  PROVE  IInv'
<1> USE DEF ec2, disk
<1>1. UNCHANGED <<cont, mounted, latest, ec2, disk, record, base, task>>
  BY DEF get_detached_disks
<1>2. disturbed' \in 0 .. MaxDisturbances
  BY DEF IInv, TypeOK, get_detached_disks, disturb
<1>3. hk' \in Rounds /\ hk'.pc = "fetch" /\ hk'.seen = NoRecord
  BY RestingRound, RoundGoes DEF get_detached_disks
<1>4. TypeOK'
  BY <1>1, <1>2, <1>3 DEF IInv, TypeOK
<1> QED
  BY <1>1, <1>3, <1>4, LeaderKeeps

LEMMA FetchKeeps ==
  ASSUME IInv, fetch_disk
  PROVE  IInv'
<1> USE DEF ec2, disk
<1>1. UNCHANGED <<cont, mounted, latest, ec2, disk, record, base, task, disturbed>>
  BY DEF fetch_disk
<1>2. CASE rest
  <2>1. TypeOK'
    BY <1>1, <1>2, RestingRound DEF IInv, TypeOK, rest
  <2> QED
    BY <1>1, <1>2, <2>1, RestingRound, LeaderKeeps DEF rest
<1>3. CASE record # NoRecord /\ hk' = [Resting EXCEPT !.pc = "scan", !.seen = record, !.todo = record.snaps, !.base = base]
  <2>1. record \in Records /\ record.snaps \in Seq(Snapshots) /\ base \in Snapshots \cup {None}
    BY <1>3, RecordFields DEF IInv, TypeOK
  <2>2. hk' \in Rounds /\ hk'.pc = "scan" /\ hk'.seen = record
    <3>1. PICK r \in Records, b \in Snapshots \cup {None} : r = record /\ b = base
      BY <2>1
    <3> DEFINE h == [Resting EXCEPT !.pc = "scan", !.seen = r, !.todo = r.snaps, !.base = b]
    <3>2. h \in Rounds /\ h.pc = "scan" /\ h.seen = r
      <4>1. PICK g \in Rounds : g = Resting
        BY RestingRound
      <4>2. h = [g EXCEPT !.pc = "scan", !.seen = r, !.todo = r.snaps, !.base = b]
        BY <4>1
      <4> HIDE DEF h
      <4>3. r.snaps \in Seq(Snapshots)
        BY RecordFields
      <4> QED
        BY <4>2, <4>3 DEF Rounds
    <3>3. hk' = h
      BY <1>3, <3>1
    <3> HIDE DEF h
    <3> QED
      BY <3>1, <3>2, <3>3
  <2>3. TypeOK'
    BY <1>1, <2>2 DEF IInv, TypeOK
  <2> QED
    BY <1>1, <1>3, <2>2, <2>3, LeaderKeeps
<1> QED
  BY <1>2, <1>3 DEF fetch_disk

\* A step of the leader through the snapshots of its copy.
LEMMA ScanTyped ==
  ASSUME NEW h \in Rounds, h.todo # <<>>
  PROVE  /\ Head(h.todo) \in Snapshots /\ Tail(h.todo) \in Seq(Snapshots)
         /\ Append(h.incomplete, Head(h.todo)) \in Seq(Snapshots)
<1>1. h.todo \in Seq(Snapshots) /\ h.incomplete \in Seq(Snapshots)
  BY RoundFields
<1> QED
  BY <1>1, HeadTailProperties, AppendProperties

LEMMA UpdateSnapshotKeeps ==
  ASSUME IInv, update_snapshot
  PROVE  IInv'
<1> USE DEF ec2, disk
<1> DEFINE s == Head(hk.todo)
           i == [hk EXCEPT !.todo = Tail(@), !.incomplete = Append(@, s)]
           c == [hk EXCEPT !.todo = Tail(@), !.base = s, !.modified = TRUE]
<1>1. /\ UNCHANGED <<cont, mounted, latest, vols, disk, record, base, task, disturbed>>
      /\ hk.pc = "scan" /\ hk.todo # <<>> /\ hk \in Rounds
  BY DEF update_snapshot, IInv, TypeOK
<1>2. s \in Snapshots /\ Tail(hk.todo) \in Seq(Snapshots) /\ Append(hk.incomplete, s) \in Seq(Snapshots)
  BY <1>1, ScanTyped
<1>3. \/ hk' = i /\ UNCHANGED snaps
      \/ hk' = c /\ snaps' = [x \in Snapshots |-> IF x = hk.base THEN [snaps[x] EXCEPT !.st = "deleted"] ELSE snaps[x]]
      \/ hk' = Resting /\ UNCHANGED snaps
  BY DEF update_snapshot, rest
<1>4. /\ i \in Rounds /\ i.seen = hk.seen /\ i.stale = hk.stale /\ i.pc = "scan"
      /\ c \in Rounds /\ c.seen = hk.seen /\ c.stale = hk.stale /\ c.pc = "scan"
  BY <1>1, <1>2 DEF Rounds
<1> HIDE DEF i, c
<1>5. hk' \in Rounds
  BY <1>3, <1>4, RestingRound
<1>6. snaps' \in [Snapshots -> [st : {"no", "pending", "done", "deleted"}, data : 0 .. MaxEdits]]
  BY <1>3 DEF IInv, TypeOK
<1>7. TypeOK'
  BY <1>1, <1>5, <1>6 DEF IInv, TypeOK
<1> QED
  BY <1>1, <1>3, <1>4, <1>7, RestingRound, LeaderKeeps

LEMMA SaveSessKeeps ==
  ASSUME IInv, save_sess_props
  PROVE  IInv'
<1> USE DEF ec2, disk
<1> DEFINE h == [hk EXCEPT !.pc = "save"]
<1>1. /\ UNCHANGED <<cont, mounted, latest, ec2, disk, record, task, disturbed>>
      /\ hk.pc = "scan" /\ hk \in Rounds /\ base' = hk.base /\ hk' = h
  BY DEF save_sess_props, IInv, TypeOK
<1>2. h \in Rounds /\ h.seen = hk.seen /\ h.stale = hk.stale /\ h.pc = "save"
  BY <1>1, RoundGoes
<1>3. base' \in Snapshots \cup {None}
  BY <1>1, RoundFields
<1> HIDE DEF h
<1>4. TypeOK'
  BY <1>1, <1>2, <1>3 DEF IInv, TypeOK
<1> QED
  BY <1>1, <1>2, <1>4, LeaderKeeps

LEMMA KeepDiskKeeps ==
  ASSUME IInv, keep_disk
  PROVE  IInv'
<1> USE DEF ec2, disk, keep_disk, rest
<1>1. TypeOK'
  BY RestingRound DEF IInv, TypeOK
<1> QED
  BY <1>1, RestingRound, LeaderKeeps

\* The copies that others hold become stale.
LEMMA StaleCopies ==
  ASSUME TypeOK, NEW x \in Tasks
  PROVE  LET j == [task[x] EXCEPT !.stale = task[x].seen # NoRecord] IN
         /\ j \in Jobs /\ j.stale = (task[x].seen # NoRecord)
         /\ j.pc = task[x].pc /\ j.dev = task[x].dev /\ j.vol = task[x].vol /\ j.seen = task[x].seen
<1>1. task[x] \in Jobs
  BY DEF TypeOK
<1> QED
  BY <1>1 DEF Jobs

LEMMA StaleRound ==
  ASSUME NEW h \in Rounds
  PROVE  LET g == [h EXCEPT !.stale = h.seen # NoRecord] IN
         g \in Rounds /\ g.stale = (h.seen # NoRecord) /\ g.pc = h.pc /\ g.seen = h.seen
BY DEF Rounds

\* The copy that is none is not stale.
LEMMA NotStale ==
  /\ \A j \in Jobs : ~j.stale /\ j.seen = NoRecord => [j EXCEPT !.stale = j.seen # NoRecord] = j
  /\ \A h \in Rounds : ~h.stale /\ h.seen = NoRecord => [h EXCEPT !.stale = h.seen # NoRecord] = h
BY DEF Jobs, Rounds

\* What a write leaves of the jobs and of the round.
LEMMA Written ==
  ASSUME TypeOK, NEW rec, NEW t \in Tasks, NEW next \in Jobs, write(rec, t, next)
  PROVE  /\ record' = rec /\ task' \in [Tasks -> Jobs] /\ hk' \in Rounds
         /\ task'[t] = next
         /\ \A x \in Tasks : x # t =>
              /\ task'[x].pc = task[x].pc /\ task'[x].dev = task[x].dev /\ task'[x].vol = task[x].vol
              /\ task'[x].seen = task[x].seen /\ task'[x].stale = (task[x].seen # NoRecord)
         /\ hk'.pc = hk.pc /\ hk'.seen = hk.seen /\ hk'.stale = (hk.seen # NoRecord)
<1>1. task' = [x \in Tasks |-> IF x = t THEN next
                               ELSE [task[x] EXCEPT !.stale = task[x].seen # NoRecord]]
  BY DEF write
<1>2. \A x \in Tasks : task'[x] = IF x = t THEN next
                                  ELSE [task[x] EXCEPT !.stale = task[x].seen # NoRecord]
  BY <1>1
<1>3. ASSUME NEW x \in Tasks, x # t
      PROVE  /\ task'[x] \in Jobs
             /\ task'[x].pc = task[x].pc /\ task'[x].dev = task[x].dev /\ task'[x].vol = task[x].vol
             /\ task'[x].seen = task[x].seen /\ task'[x].stale = (task[x].seen # NoRecord)
  <2> DEFINE j == [task[x] EXCEPT !.stale = task[x].seen # NoRecord]
  <2>1. task'[x] = j
    BY <1>2, <1>3
  <2>2. /\ j \in Jobs /\ j.stale = (task[x].seen # NoRecord)
        /\ j.pc = task[x].pc /\ j.dev = task[x].dev /\ j.vol = task[x].vol /\ j.seen = task[x].seen
    BY StaleCopies, Zenon
  <2> HIDE DEF j
  <2> QED
    BY <2>1, <2>2
<1>4. task'[t] = next
  BY <1>2, Zenon
<1>5. task' \in [Tasks -> Jobs]
  BY <1>1, <1>3, <1>4
<1>6. hk' \in Rounds /\ hk'.pc = hk.pc /\ hk'.seen = hk.seen /\ hk'.stale = (hk.seen # NoRecord)
  BY StaleRound, Zenon DEF write, TypeOK
<1>7. record' = rec
  BY DEF write
<1> QED
  BY <1>3, <1>4, <1>5, <1>6, <1>7

\* A record that stays is written by a task that goes on where nothing but the record
\* is asked of it.
LEMMA WrittenKeeps ==
  ASSUME IInv, record # NoRecord, NEW rec \in Records, rec.vol = record.vol,
         NEW t \in Tasks, NEW next \in Jobs, write(rec, t, next),
         next.pc \notin {"create", "attach", "save"},
         next.pc \in {"backup", "detach", "detached"} => next.seen # NoRecord,
         UNCHANGED <<cont, latest, vols, snaps, used, reserved, base>>,
         mounted' \in Volumes \cup {None}, disturbed' \in 0 .. MaxDisturbances
  PROVE  IInv'
<1>1. TypeOK
  BY DEF IInv
<1>2. /\ record' = rec /\ task' \in [Tasks -> Jobs] /\ hk' \in Rounds
      /\ task'[t] = next
      /\ \A x \in Tasks : x # t =>
           /\ task'[x].pc = task[x].pc /\ task'[x].dev = task[x].dev /\ task'[x].vol = task[x].vol
           /\ task'[x].seen = task[x].seen /\ task'[x].stale = (task[x].seen # NoRecord)
      /\ hk'.pc = hk.pc /\ hk'.seen = hk.seen /\ hk'.stale = (hk.seen # NoRecord)
  BY <1>1, Written
<1>3. rec # NoRecord /\ rec.vol \in Volumes /\ "attach" \in Tasks
  BY RecordFields, Attaches
<1>4. TypeOK'
  BY <1>1, <1>2 DEF TypeOK
<1>5. Deviced' /\ RecordNamesVolume'
  BY <1>2, <1>3 DEF IInv, Deviced, RecordNamesVolume, attach
<1>6. Fetched'
  BY <1>2, <1>3 DEF IInv, Fetched
<1>7. Making'
  BY <1>2, <1>3 DEF IInv, Making, attach, Alive
<1>8. Deleting'
  BY <1>2, <1>3 DEF IInv, Deleting
<1> QED
  BY <1>4, <1>5, <1>6, <1>7, <1>8 DEF IInv

LEMMA SaveAttachedKeeps ==
  ASSUME IInv, save_attached
  PROVE  IInv'
<1> USE DEF ec2, disk
<1>1. UNCHANGED <<cont, mounted, latest, ec2, disk, base, disturbed>> /\ TypeOK
  BY DEF save_attached, IInv
<1>2. CASE end("attach") /\ UNCHANGED <<record, hk>>
  <2>1. task' \in [Tasks -> Jobs] /\ \A x \in Tasks : Further(x)
    BY <1>1, <1>2, Ends, Attaches
  <2>2. TypeOK'
    BY <1>1, <1>2, <2>1 DEF TypeOK
  <2> QED
    BY <1>1, <1>2, <2>1, <2>2, SameRecord, Quiet
<1>3. CASE record # NoRecord /\ write([record EXCEPT !.state = "attached"], "attach", Idle)
  <2>1. record \in Records
    BY <1>1, <1>3 DEF TypeOK
  <2> DEFINE new == [record EXCEPT !.state = "attached"]
  <2>2. new \in Records /\ new.vol = record.vol
    BY <2>1 DEF Records, States
  <2>3. write(new, "attach", Idle)
    BY <1>3
  <2> HIDE DEF new
  <2> QED
    BY <1>1, <1>3, <2>2, <2>3, IdleJob, Attaches, WrittenKeeps DEF TypeOK
<1> QED
  BY <1>2, <1>3 DEF save_attached

LEMMA DetachNoVolumeKeeps ==
  ASSUME IInv, do_task_detach, UNCHANGED mounted, record # NoRecord,
         write(set_state(record, "detached"), "detach", Idle)
  PROVE  IInv'
<1> DEFINE new == set_state(record, "detached")
<1>1. record \in Records /\ UNCHANGED <<cont, mounted, latest, ec2, disk, base>>
  BY DEF do_task_detach, IInv, TypeOK
<1>2. new \in Records /\ new.vol = record.vol
  BY <1>1 DEF Records, States, set_state
<1>3. disturbed' \in 0 .. MaxDisturbances
  BY DEF IInv, TypeOK, do_task_detach, Start, disturb
<1>4. write(new, "detach", Idle) /\ "detach" \in Tasks /\ mounted' \in Volumes \cup {None}
  BY <1>1, Attaches DEF Releasers, IInv, TypeOK
<1> HIDE DEF new
<1> QED
  BY <1>1, <1>2, <1>3, <1>4, IdleJob, WrittenKeeps DEF ec2, disk

LEMMA SaveDetachingKeeps ==
  ASSUME IInv, NEW t \in Releasers, save_detaching(t)
  PROVE  IInv'
<1> USE DEF ec2, disk
<1>1. /\ UNCHANGED <<cont, mounted, latest, ec2, disk, base, disturbed>> /\ TypeOK
      /\ t \in Tasks /\ task[t] \in Jobs
  BY Attaches DEF save_detaching, IInv, TypeOK
<1>2. CASE end(t) /\ UNCHANGED <<record, hk>>
  <2>1. task' \in [Tasks -> Jobs] /\ \A x \in Tasks : Further(x)
    BY <1>1, <1>2, Ends
  <2>2. TypeOK'
    BY <1>1, <1>2, <2>1 DEF TypeOK
  <2> QED
    BY <1>1, <1>2, <2>1, <2>2, SameRecord, Quiet
<1>3. CASE record # NoRecord /\ ~(end(t) /\ UNCHANGED <<record, hk>>)
  <2> DEFINE new == set_state(record, "detaching")
             next == [task[t] EXCEPT !.pc = "backup", !.seen = new, !.stale = FALSE]
  <2>1. record \in Records
    BY <1>1, <1>3 DEF TypeOK
  <2>2. new \in Records /\ new.vol = record.vol
    BY <2>1 DEF Records, States, set_state
  <2>3. write(new, t, next)
    BY <1>3 DEF save_detaching
  <2> HIDE DEF new
  <2>4. next \in Jobs /\ next.pc = "backup" /\ next.seen = new
    BY <1>1, <2>2 DEF Jobs, Steps
  <2>5. new # NoRecord
    BY <2>2, RecordFields
  <2> HIDE DEF next
  <2> QED
    BY <1>1, <1>3, <2>2, <2>3, <2>4, <2>5, WrittenKeeps DEF TypeOK
<1> QED
  BY <1>2, <1>3 DEF save_detaching

LEMMA SaveDetachedKeeps ==
  ASSUME IInv, NEW t \in Releasers, save_detached(t)
  PROVE  IInv'
<1> USE DEF ec2, disk
<1> DEFINE next == IF t = "cleanup" THEN [Idle EXCEPT !.pc = "remove"] ELSE Idle
           snaps2 == IF task[t].snap = None THEN record.snaps ELSE Append(record.snaps, task[t].snap)
           new == [record EXCEPT !.state = "detached", !.old = FALSE, !.snaps = snaps2]
<1>1. /\ UNCHANGED <<cont, mounted, latest, ec2, disk, base, disturbed>> /\ TypeOK
      /\ t \in Tasks /\ task[t] \in Jobs /\ task[t].pc = "detached"
  BY Attaches DEF save_detached, IInv, TypeOK
<1>2. CASE end(t) /\ UNCHANGED <<record, hk>>
  <2>1. task' \in [Tasks -> Jobs] /\ \A x \in Tasks : Further(x)
    BY <1>1, <1>2, Ends
  <2>2. TypeOK'
    BY <1>1, <1>2, <2>1 DEF TypeOK
  <2> QED
    BY <1>1, <1>2, <2>1, <2>2, SameRecord, Quiet
<1>3. CASE ~task[t].stale /\ write(new, t, next)
  <2>1. record # NoRecord /\ record \in Records
    BY <1>1, <1>3 DEF IInv, Fetched, TypeOK
  <2>2. record.snaps \in Seq(Snapshots) /\ task[t].snap \in Snapshots \cup {None}
    BY <1>1, <2>1, RecordFields, JobFields
  <2>3. snaps2 \in Seq(Snapshots)
    BY <2>2, AppendProperties
  <2>4. next \in Jobs /\ next.pc \in {"idle", "remove"}
    BY IdleJob
  <2> HIDE DEF snaps2, next
  <2>5. new \in Records /\ new.vol = record.vol
    BY <2>1, <2>3 DEF Records, States
  <2>6. write(new, t, next)
    BY <1>3
  <2> HIDE DEF new
  <2> QED
    BY <1>1, <2>1, <2>4, <2>5, <2>6, WrittenKeeps DEF TypeOK
<1>4. save_detached(t)
  OBVIOUS
<1> QED
  BY <1>2, <1>3, <1>4, Zenon DEF save_detached

\* The record of a new volume.
LEMMA NewRecordKeeps ==
  ASSUME IInv, record = NoRecord, attach.pc = "save", ~attach.stale,
         write([NoRecord EXCEPT !.vol = attach.vol, !.state = "attaching"], "attach", [attach EXCEPT !.pc = "mount"]),
         UNCHANGED <<cont, mounted, latest, vols, snaps, used, reserved, base, disturbed>>
  PROVE  IInv'
<1> DEFINE new == [NoRecord EXCEPT !.vol = attach.vol, !.state = "attaching"]
           next == [attach EXCEPT !.pc = "mount"]
<1>1. TypeOK /\ attach \in Jobs /\ "attach" \in Tasks /\ attach = task["attach"]
  BY Attaches DEF IInv, TypeOK, attach
<1>2. attach.seen = NoRecord
  BY <1>1 DEF IInv, Fetched
<1>3. attach.vol \in Volumes /\ Alive(attach.vol) /\ (hk.seen # NoRecord => hk.seen.vol # attach.vol)
  BY <1>2 DEF IInv, Making
<1>4. new \in Records /\ new.vol = attach.vol
  <2>1. NoRecord \in [vol : Volumes \cup {None}, state : States, snaps : Seq(Snapshots), old : BOOLEAN]
    BY DEF NoRecord, States
  <2> QED
    BY <1>3, <2>1 DEF Records, States
<1>5. next \in Jobs /\ next.pc = "mount"
  BY <1>1 DEF Jobs, Steps
<1>6. write(new, "attach", next)
  OBVIOUS
<1> HIDE DEF new, next
<1>7. /\ record' = new /\ task' \in [Tasks -> Jobs] /\ hk' \in Rounds
      /\ task'["attach"] = next
      /\ \A x \in Tasks : x # "attach" =>
           /\ task'[x].pc = task[x].pc /\ task'[x].dev = task[x].dev /\ task'[x].vol = task[x].vol
           /\ task'[x].seen = task[x].seen /\ task'[x].stale = (task[x].seen # NoRecord)
      /\ hk'.pc = hk.pc /\ hk'.seen = hk.seen /\ hk'.stale = (hk.seen # NoRecord)
  BY <1>1, <1>5, <1>6, Written
<1>8. new # NoRecord
  BY <1>4, RecordFields
<1>9. TypeOK'
  BY <1>1, <1>4, <1>7 DEF TypeOK
<1>10. Deviced' /\ RecordNamesVolume'
  BY <1>3, <1>4, <1>5, <1>7 DEF IInv, Deviced, RecordNamesVolume, attach, Alive
<1>11. Fetched'
  BY <1>5, <1>7, <1>8 DEF IInv, Fetched
<1>12. Making'
  BY <1>5, <1>7 DEF Making, attach
<1>13. Deleting'
  BY <1>3, <1>4, <1>7 DEF IInv, Deleting, Fetched
<1> QED
  BY <1>9, <1>10, <1>11, <1>12, <1>13 DEF IInv

LEMMA SaveAttachingKeeps ==
  ASSUME IInv, save_attaching
  PROVE  IInv'
<1> USE DEF ec2, disk
<1>1. /\ UNCHANGED <<cont, mounted, latest, ec2, disk, base, disturbed>> /\ TypeOK
      /\ attach \in Jobs /\ attach = task["attach"] /\ attach.pc = "save"
  BY Attaches DEF save_attaching, IInv, TypeOK, attach
<1>2. CASE end("attach") /\ UNCHANGED <<record, hk>>
  <2>1. task' \in [Tasks -> Jobs] /\ \A x \in Tasks : Further(x)
    BY <1>1, <1>2, Ends, Attaches
  <2>2. TypeOK'
    BY <1>1, <1>2, <2>1 DEF TypeOK
  <2> QED
    BY <1>1, <1>2, <2>1, <2>2, SameRecord, Quiet
<1> DEFINE rec == IF record = NoRecord THEN [NoRecord EXCEPT !.vol = task["attach"].vol] ELSE record
           next == [task["attach"] EXCEPT !.pc = "mount"]
<1>3. CASE ~task["attach"].stale /\ write([rec EXCEPT !.state = "attaching"], "attach", next)
  <2>1. CASE record = NoRecord
    <3>1. write([NoRecord EXCEPT !.vol = attach.vol, !.state = "attaching"], "attach", [attach EXCEPT !.pc = "mount"])
      BY <1>3, <2>1 DEF attach
    <3> QED
      BY <1>1, <1>3, <2>1, <3>1, NewRecordKeeps
  <2>2. CASE record # NoRecord
    <3> DEFINE new == [record EXCEPT !.state = "attaching"]
    <3>1. record \in Records
      BY <1>1, <2>2 DEF TypeOK
    <3>2. new \in Records /\ new.vol = record.vol
      BY <3>1 DEF Records, States
    <3>3. next \in Jobs /\ next.pc = "mount"
      BY <1>1 DEF Jobs, Steps
    <3>4. write(new, "attach", next)
      BY <1>3, <2>2
    <3> HIDE DEF new, next
    <3> QED
      BY <1>1, <2>2, <3>2, <3>3, <3>4, Attaches, WrittenKeeps DEF TypeOK
  <2> QED
    BY <2>1, <2>2
<1>4. save_attaching
  OBVIOUS
<1> QED
  BY <1>2, <1>3, <1>4, Zenon DEF save_attaching

\* The device, and the record if there is one.
LEMMA ReserveKeeps ==
  ASSUME IInv, reserve_disk_id
  PROVE  IInv'
<1> USE DEF ec2, disk
<1>1. /\ UNCHANGED <<cont, mounted, latest, ec2, record, base, hk, disturbed>> /\ TypeOK
      /\ attach \in Jobs /\ attach = task["attach"] /\ attach.pc = "reserve" /\ "attach" \in Tasks
  BY Attaches DEF reserve_disk_id, IInv, TypeOK, attach
<1>2. CASE end("attach") /\ UNCHANGED <<used, reserved>>
  <2>1. task' \in [Tasks -> Jobs] /\ \A x \in Tasks : Further(x)
    BY <1>1, <1>2, Ends
  <2>2. TypeOK'
    BY <1>1, <1>2, <2>1 DEF TypeOK
  <2> QED
    BY <1>1, <1>2, <2>1, <2>2, SameRecord, Quiet
<1>3. CASE ~(Devices \subseteq used)
  <2> DEFINE d == Min(Devices \ used)
             pc == IF record = NoRecord THEN "create" ELSE "attach"
             j == [attach EXCEPT !.pc = pc, !.dev = d, !.vol = record.vol, !.seen = record, !.stale = FALSE]
  <2>1. d \in Devices
    BY <1>3, LeastDevice, BoundsAssumption
  <2>2. used' = used \cup {d} /\ reserved' = reserved \cup {d} /\ task' = [task EXCEPT !["attach"] = j]
    BY <1>1, <1>3 DEF reserve_disk_id
  <2> HIDE DEF d
  <2>3. /\ record \in Records \cup {NoRecord} /\ record.vol \in Volumes \cup {None}
        /\ record # NoRecord => record.vol \in Volumes
    BY <1>1, RecordFields DEF TypeOK, NoRecord
  <2>4. pc \in Steps /\ pc \in {"create", "attach"} /\ (pc = "create" <=> record = NoRecord)
    BY DEF Steps
  <2> HIDE DEF pc
  <2>5. /\ j \in Jobs /\ j.pc = pc /\ j.dev = d /\ j.vol = record.vol /\ j.seen = record /\ j.stale = FALSE
    BY <1>1, <2>1, <2>3, <2>4 DEF Jobs
  <2> HIDE DEF j
  <2>6. /\ task' \in [Tasks -> Jobs] /\ attach' = j /\ task'["attach"] = j
        /\ \A x \in Tasks : x # "attach" => task'[x] = task[x]
    BY <1>1, <2>2, <2>5, OneMoves DEF attach
  <2>7. TypeOK'
    BY <1>1, <2>1, <2>2, <2>6 DEF TypeOK
  <2>8. Deviced' /\ RecordNamesVolume'
    BY <1>1, <2>1, <2>5, <2>6 DEF IInv, Deviced, RecordNamesVolume
  <2>9. Fetched'
    BY <1>1, <2>4, <2>5, <2>6 DEF IInv, Fetched
  <2>10. Making'
    BY <1>1, <2>3, <2>4, <2>5, <2>6 DEF Making
  <2>11. Deleting'
    BY <1>1 DEF IInv, Deleting
  <2> QED
    BY <2>7, <2>8, <2>9, <2>10, <2>11 DEF IInv
<1> QED
  BY <1>2, <1>3 DEF reserve_disk_id

LEMMA CreateKeeps ==
  ASSUME IInv, create_new_volume
  PROVE  IInv'
<1> USE DEF ec2, disk
<1>1. /\ UNCHANGED <<cont, mounted, latest, snaps, disk, record, base, hk, disturbed>> /\ TypeOK
      /\ attach \in Jobs /\ attach = task["attach"] /\ attach.pc = "create" /\ "attach" \in Tasks
  BY Attaches DEF create_new_volume, IInv, TypeOK, attach
<1>2. CASE end("attach") /\ UNCHANGED vols
  <2>1. task' \in [Tasks -> Jobs] /\ \A x \in Tasks : Further(x)
    BY <1>1, <1>2, Ends
  <2>2. TypeOK'
    BY <1>1, <1>2, <2>1 DEF TypeOK
  <2> QED
    BY <1>1, <1>2, <2>1, <2>2, SameRecord, Quiet
<1>3. CASE \E v \in Volumes :
             /\ vols[v].st = "no"
             /\ vols' = [vols EXCEPT ![v] = [@ EXCEPT !.st = "free", !.data = IF base = None THEN 0 ELSE snaps[base].data]]
             /\ task' = [task EXCEPT !["attach"] = [@ EXCEPT !.pc = "attach", !.vol = v]]
  <2> DEFINE n == IF base = None THEN 0 ELSE snaps[base].data
  <2>1. PICK v \in Volumes :
             /\ vols[v].st = "no"
             /\ vols' = [vols EXCEPT ![v] = [@ EXCEPT !.st = "free", !.data = n]]
             /\ task' = [task EXCEPT !["attach"] = [@ EXCEPT !.pc = "attach", !.vol = v]]
    BY <1>3
  <2>2. n \in 0 .. MaxEdits
    BY <1>1, BoundsAssumption DEF TypeOK, BoundsAssumption
  <2> HIDE DEF n
  <2> DEFINE r == [vols[v] EXCEPT !.st = "free", !.data = n]
             j == [attach EXCEPT !.pc = "attach", !.vol = v]
  <2>3. vols[v] \in EC2Volumes
    BY <1>1 DEF TypeOK, EC2Volumes
  <2>4. r \in EC2Volumes /\ r.st = "free"
    BY <2>2, <2>3 DEF EC2Volumes
  <2>5. /\ j \in Jobs /\ j.pc = "attach" /\ j.vol = v /\ j.seen = attach.seen /\ j.stale = attach.stale
        /\ j.dev = attach.dev
    BY <1>1 DEF Jobs, Steps
  <2>6. vols' = [vols EXCEPT ![v] = r] /\ task' = [task EXCEPT !["attach"] = j]
    BY <1>1, <2>1
  <2> HIDE DEF r, j
  <2>7. vols' \in [Volumes -> EC2Volumes] /\ vols'[v] = r /\ \A x \in Volumes : x # v => vols'[x] = vols[x]
    BY <1>1, <2>4, <2>6, OneVolume
  <2>8. /\ task' \in [Tasks -> Jobs] /\ attach' = j /\ task'["attach"] = j
        /\ \A x \in Tasks : x # "attach" => task'[x] = task[x]
    BY <1>1, <2>5, <2>6, OneMoves DEF attach
  <2>9. record = NoRecord /\ attach.seen = NoRecord
    BY <1>1 DEF IInv, Making
  <2>10. hk.seen # NoRecord => hk.seen.vol \in Volumes /\ vols[hk.seen.vol].st # "no"
    BY <1>1, RecordFields, RoundFields DEF IInv, TypeOK, Deleting
  <2>11. TypeOK'
    BY <1>1, <2>7, <2>8 DEF TypeOK, EC2Volumes
  <2>12. Deviced' /\ RecordNamesVolume'
    BY <1>1, <2>4, <2>5, <2>7, <2>8, <2>9 DEF IInv, Deviced, RecordNamesVolume
  <2>13. Fetched'
    BY <1>1, <2>5, <2>8, <2>9 DEF IInv, Fetched
  <2>14. Making'
    BY <1>1, <2>1, <2>4, <2>5, <2>7, <2>8, <2>9, <2>10 DEF Making, Alive
  <2>15. Deleting'
    BY <1>1, <2>4, <2>7, <2>9, <2>10 DEF IInv, Deleting
  <2> QED
    BY <2>11, <2>12, <2>13, <2>14, <2>15 DEF IInv
<1> QED
  BY <1>2, <1>3 DEF create_new_volume

LEMMA StaleJobs ==
  ASSUME TypeOK, task' = [x \in Tasks |-> [task[x] EXCEPT !.stale = task[x].seen # NoRecord]]
  PROVE  /\ task' \in [Tasks -> Jobs]
         /\ \A x \in Tasks :
              /\ task'[x].pc = task[x].pc /\ task'[x].dev = task[x].dev /\ task'[x].vol = task[x].vol
              /\ task'[x].seen = task[x].seen /\ task'[x].stale = (task[x].seen # NoRecord)
<1>1. ASSUME NEW x \in Tasks
      PROVE  /\ task'[x] \in Jobs
             /\ task'[x].pc = task[x].pc /\ task'[x].dev = task[x].dev /\ task'[x].vol = task[x].vol
             /\ task'[x].seen = task[x].seen /\ task'[x].stale = (task[x].seen # NoRecord)
  <2> DEFINE j == [task[x] EXCEPT !.stale = task[x].seen # NoRecord]
  <2>1. task'[x] = j
    OBVIOUS
  <2>2. /\ j \in Jobs /\ j.stale = (task[x].seen # NoRecord)
        /\ j.pc = task[x].pc /\ j.dev = task[x].dev /\ j.vol = task[x].vol /\ j.seen = task[x].seen
    BY StaleCopies, Zenon
  <2> HIDE DEF j
  <2> QED
    BY <2>1, <2>2
<1> QED
  BY <1>1

LEMMA SaveIncompleteKeeps ==
  ASSUME IInv, save_incomplete
  PROVE  IInv'
<1> USE DEF ec2, disk
<1>1. /\ UNCHANGED <<cont, mounted, latest, ec2, disk, base, disturbed>> /\ TypeOK
      /\ hk \in Rounds /\ hk.pc = "save" /\ "attach" \in Tasks
  BY Attaches DEF save_incomplete, IInv, TypeOK
<1>2. CASE rest /\ UNCHANGED <<record, task>>
  <2>1. TypeOK'
    BY <1>1, <1>2, RestingRound DEF TypeOK, rest
  <2> QED
    BY <1>1, <1>2, <2>1, RestingRound, LeaderKeeps DEF rest
<1>3. CASE ~hk.stale
  <2> DEFINE rec == [record EXCEPT !.snaps = hk.incomplete]
             h == [hk EXCEPT !.pc = "scan", !.seen = rec, !.modified = FALSE]
  <2>1. record # NoRecord /\ record \in Records /\ hk.incomplete \in Seq(Snapshots)
    BY <1>1, <1>3, RoundFields DEF IInv, Fetched, TypeOK
  <2>2. rec \in Records /\ rec.vol = record.vol
    BY <2>1 DEF Records
  <2>3. /\ record' = rec /\ hk' = h
        /\ task' = [x \in Tasks |-> [task[x] EXCEPT !.stale = task[x].seen # NoRecord]]
    BY <1>3 DEF save_incomplete
  <2> HIDE DEF rec
  <2>4. h \in Rounds /\ h.pc = "scan" /\ h.seen = rec /\ h.stale = hk.stale
    BY <1>1, <2>2 DEF Rounds
  <2> HIDE DEF h
  <2>5. rec # NoRecord /\ rec.vol \in Volumes
    BY <2>2, RecordFields
  <2>6. /\ task' \in [Tasks -> Jobs]
        /\ \A x \in Tasks :
             /\ task'[x].pc = task[x].pc /\ task'[x].dev = task[x].dev /\ task'[x].vol = task[x].vol
             /\ task'[x].seen = task[x].seen /\ task'[x].stale = (task[x].seen # NoRecord)
    BY <1>1, <2>3, StaleJobs
  <2>7. TypeOK'
    BY <1>1, <2>2, <2>3, <2>4, <2>6 DEF TypeOK
  <2>8. Deviced' /\ RecordNamesVolume'
    BY <1>1, <2>1, <2>2, <2>3, <2>6 DEF IInv, Deviced, RecordNamesVolume, attach
  <2>9. Fetched'
    BY <1>1, <2>3, <2>4, <2>5, <2>6 DEF IInv, Fetched
  <2>10. Making'
    BY <1>1, <2>1, <2>6 DEF IInv, Making, attach
  <2>11. Deleting'
    BY <1>1, <2>1, <2>2, <2>3, <2>4 DEF IInv, Deleting, RecordNamesVolume
  <2> QED
    BY <2>7, <2>8, <2>9, <2>10, <2>11 DEF IInv
<1> QED
  BY <1>2, <1>3 DEF save_incomplete

LEMMA DeleteInfoKeeps ==
  ASSUME IInv, delete_disk_info
  PROVE  IInv'
<1> USE DEF ec2, disk
<1> DEFINE h == [hk EXCEPT !.pc = "delete"]
<1>1. /\ UNCHANGED <<cont, mounted, latest, ec2, disk, base, disturbed>> /\ TypeOK
      /\ hk \in Rounds /\ hk.pc = "scan" /\ "attach" \in Tasks /\ record' = NoRecord /\ hk' = h
  BY Attaches DEF delete_disk_info, Scanned, IInv, TypeOK
<1>2. h \in Rounds /\ h.pc = "delete" /\ h.seen = hk.seen
  BY <1>1, RoundGoes
<1> HIDE DEF h
<1>3. /\ task' \in [Tasks -> Jobs]
      /\ \A x \in Tasks :
           /\ task'[x].pc = task[x].pc /\ task'[x].dev = task[x].dev /\ task'[x].vol = task[x].vol
           /\ task'[x].seen = task[x].seen /\ task'[x].stale = (task[x].seen # NoRecord)
  BY <1>1, StaleJobs DEF delete_disk_info
<1>4. TypeOK'
  BY <1>1, <1>2, <1>3 DEF TypeOK
<1>5. Deviced' /\ RecordNamesVolume'
  BY <1>1, <1>3 DEF IInv, Deviced, RecordNamesVolume, attach
<1>6. Fetched'
  BY <1>1, <1>2, <1>3 DEF IInv, Fetched
<1>7. Making'
  BY <1>1, <1>2, <1>3 DEF IInv, Making, Alive, attach
<1>8. Deleting'
  BY <1>1, <1>2 DEF IInv, Deleting
<1> QED
  BY <1>4, <1>5, <1>6, <1>7, <1>8 DEF IInv

LEMMA DeleteVolumeKeeps ==
  ASSUME IInv, delete_volume
  PROVE  IInv'
<1> USE DEF ec2, disk
<1>1. /\ UNCHANGED <<cont, latest, snaps, disk, record, base, task, disturbed>> /\ TypeOK
      /\ hk \in Rounds /\ hk.pc = "delete" /\ hk' = Resting /\ mounted' \in Volumes \cup {None}
  BY DEF delete_volume, rest, IInv, TypeOK
<1>2. hk.seen # NoRecord /\ hk.seen \in Records
  BY <1>1, RoundFields DEF IInv, Fetched
<1>3. PICK v \in Volumes : v = hk.seen.vol
  BY <1>2, RecordFields
<1> DEFINE r == [vols[v] EXCEPT !.st = "deleted", !.dev = None]
<1>4. vols[v] \in EC2Volumes
  BY <1>1 DEF TypeOK, EC2Volumes
<1>5. r \in EC2Volumes /\ r.st = "deleted"
  BY <1>4 DEF EC2Volumes
<1>6. vols' = [vols EXCEPT ![v] = r]
  BY <1>3 DEF delete_volume
<1> HIDE DEF r
<1>7. vols' \in [Volumes -> EC2Volumes] /\ vols'[v] = r /\ \A x \in Volumes : x # v => vols'[x] = vols[x]
  BY <1>1, <1>5, <1>6, OneVolume
<1>8. record # NoRecord => record.vol \in Volumes /\ record.vol # v
  BY <1>1, <1>3, RecordFields DEF IInv, TypeOK, Deleting
<1>9. attach.pc \in {"attach", "save"} /\ attach.seen = NoRecord => attach.vol \in Volumes /\ attach.vol # v
  BY <1>2, <1>3 DEF IInv, Making
<1>10. TypeOK'
  BY <1>1, <1>7, RestingRound DEF TypeOK, EC2Volumes
<1>11. Deviced' /\ RecordNamesVolume'
  BY <1>1, <1>5, <1>7, <1>8 DEF IInv, Deviced, RecordNamesVolume, attach
<1>12. Fetched'
  BY <1>1, RestingRound DEF IInv, Fetched
<1>13. Making'
  BY <1>1, <1>5, <1>7, <1>9, RestingRound DEF IInv, Making, Alive, attach
<1>14. Deleting'
  BY <1>1, RestingRound DEF Deleting
<1> QED
  BY <1>10, <1>11, <1>12, <1>13, <1>14 DEF IInv

-----------------------------------------------------------------------------
(* The record names a volume that exists.                                  *)

LEMMA Initially == Init => IInv
<1> SUFFICES ASSUME Init PROVE IInv
  OBVIOUS
<1>1. Idle \in Jobs /\ Resting \in Rounds /\ Idle.pc = "idle" /\ Idle.seen = NoRecord
      /\ Resting.pc = "idle" /\ Resting.seen = NoRecord
  BY IdleJob, RestingRound
<1>2. \A t \in Tasks : task[t] = Idle
  BY DEF Init
<1>3. 0 \in 0 .. MaxEdits /\ 0 \in 0 .. MaxDisturbances
  BY BoundsAssumption DEF BoundsAssumption
<1>4. TypeOK
  BY <1>1, <1>3 DEF Init, TypeOK
<1>5. Deviced /\ Fetched /\ Making
  BY <1>1, <1>2, Attaches DEF Init, Deviced, Fetched, Making, attach
<1>6. Deleting /\ RecordNamesVolume
  BY <1>1 DEF Init, Deleting, RecordNamesVolume
<1> QED
  BY <1>4, <1>5, <1>6 DEF IInv

LEMMA Preserved ==
  ASSUME IInv, [Next]_vars
  PROVE  IInv'
<1>1. CASE UNCHANGED vars
  BY <1>1 DEF vars, ec2, disk, IInv, TypeOK, Deviced, Fetched, Making, Deleting, RecordNamesVolume,
     attach, Alive
<1>2. CASE do_task_detach
  BY <1>2, DetachStartKeeps, DetachNoVolumeKeeps DEF do_task_detach
<1>3. CASE do_cluster_housekeeping
  BY <1>3, ListKeeps, FetchKeeps, UpdateSnapshotKeeps, SaveSessKeeps, SaveIncompleteKeeps, KeepDiskKeeps,
     DeleteInfoKeeps, DeleteVolumeKeeps DEF do_cluster_housekeeping
<1>4. ASSUME NEW t \in Releasers, release(t) PROVE IInv'
  BY <1>4, SaveDetachingKeeps, BackupKeeps, DetachVolumeKeeps, SaveDetachedKeeps DEF release
<1> QED
  BY <1>1, <1>2, <1>3, <1>4, RefreshKeeps, AttachStartKeeps, ReserveKeeps, CreateKeeps, AttachVolumeKeeps,
     SaveAttachingKeeps, MountKeeps, SaveAttachedKeeps, CleanupKeeps, RemoveKeeps, NodeStartKeeps,
     OrphanedKeeps, SessionKeeps, WriteKeeps, SnapshotKeeps, DayKeeps, FailKeeps DEF Next

LEMMA Invariant == Spec => []IInv
  BY Initially, Preserved, PTL DEF Spec

\* The volumes, the snapshots, the record and the copies of it, the tasks and the
\* round of the leader are always as they are declared.
THEOREM TypeCorrect == Spec => []TypeOK
<1>1. IInv => TypeOK
  BY DEF IInv
<1> QED
  BY <1>1, Invariant, PTL

\* The record of the user's disk never names a volume that was deleted or never made,
\* however many tasks, failures and rounds of the leader overlap.
THEOREM RecordIsGood == Spec => []RecordNamesVolume
<1>1. IInv => RecordNamesVolume
  BY DEF IInv
<1> QED
  BY <1>1, Invariant, PTL

-----------------------------------------------------------------------------
(* One thread at a time.                                                   *)

LEMMA TasksFinite == IsFiniteSet(Tasks)
<1>1. Tasks = {"detach", "cleanup", "node", "attach"}
  BY DEF Tasks, Releasers
<1>2. IsFiniteSet({"detach"})
  BY FS_Singleton
<1>3. IsFiniteSet({"detach"} \cup {"cleanup"})
  BY <1>2, FS_AddElement
<1>4. IsFiniteSet(({"detach"} \cup {"cleanup"}) \cup {"node"})
  BY <1>3, FS_AddElement
<1>5. IsFiniteSet((({"detach"} \cup {"cleanup"}) \cup {"node"}) \cup {"attach"})
  BY <1>4, FS_AddElement
<1>6. Tasks = (({"detach"} \cup {"cleanup"}) \cup {"node"}) \cup {"attach"}
  BY <1>1
<1> QED
  BY <1>5, <1>6

LEMMA Inactive ==
  ASSUME ~(Active > 0)
  PROVE  (\A t \in Tasks : task[t].pc = "idle") /\ hk.pc = "idle"
<1>1. IsFiniteSet(Busy)
  BY TasksFinite, FS_Subset DEF Busy
<1>2. Cardinality(Busy) \in Nat
  BY <1>1, FS_CardinalityType
<1>3. Cardinality(Busy) = 0 /\ hk.pc = "idle"
  BY <1>2 DEF Active
<1>4. Busy = {}
  BY <1>1, <1>3, FS_EmptySet
<1> QED
  BY <1>3, <1>4 DEF Busy

\* A task that is at work is alone at work.
LEMMA OneAtWork ==
  ASSUME Calm, NEW t \in Tasks, task[t].pc # "idle"
  PROVE  /\ hk.pc = "idle" /\ \A u \in Tasks : u # t => task[u].pc = "idle"
         /\ ~task[t].stale /\ task[t].backup
         /\ Chain(base, record.snaps)
BY DEF Calm, Alone, Listed

LEMMA SameData ==
  ASSUME Calm, UNCHANGED <<cont, mounted, latest, vols, snaps, record, base>>
  PROVE  /\ InOrder' /\ Kept' /\ Mounts' /\ (Held' <=> Held) /\ (Put' <=> Put)
         /\ Chain(base, record.snaps)' <=> Chain(base, record.snaps)
BY DEF Calm, InOrder, Kept, Mounts, Held, Put, Newest, Mapped, Chain, Exists

\* A task at work makes a step, while all else rests.
LEMMA TaskCalm ==
  ASSUME Calm, NEW t \in Tasks, hk.pc = "idle", \A u \in Tasks : u # t => task[u].pc = "idle",
         hk' = hk, \A u \in Tasks : u # t => task'[u] = task[u],
         ~task'[t].stale, task'[t].backup, task'[t].pc = "idle" => task'[t] = Idle,
         InOrder', Kept', Mounts', Chain(base, record.snaps)',
         t = "attach" => Attaching', t # "attach" => Detaching(t)',
         task'[t].pc = "idle" => (Held \/ Put)'
  PROVE  Calm'
<1>1. Alone'
  BY DEF Calm, Alone
<1>2. Attaching'
  <2>1. CASE t = "attach"
    BY <2>1
  <2>2. CASE t # "attach"
    <3>1. attach'.pc = "idle"
      BY <2>2, Attaches DEF attach
    <3> QED
      BY <3>1 DEF Attaching
  <2> QED
    BY <2>1, <2>2
<1>3. ASSUME NEW u \in Releasers PROVE Detaching(u)'
  <2>1. CASE u = t
    BY <2>1 DEF Releasers
  <2>2. CASE u # t
    <3>1. task'[u].pc = "idle"
      BY <2>2, Attaches
    <3> QED
      BY <3>1 DEF Detaching
  <2> QED
    BY <2>1, <2>2
<1>4. Leading'
  BY DEF Leading
<1>5. Listed' /\ Between'
  BY DEF Listed, Between
<1> QED
  BY <1>1, <1>2, <1>3, <1>4, <1>5 DEF Calm

-----------------------------------------------------------------------------
(* The steps of attaching, undisturbed.                                    *)

LEMMA AttachStartCalm ==
  ASSUME IInv, Calm, do_task_attach, disturbed' = 0
  PROVE  Calm'
<1> USE DEF ec2, disk
<1>1. /\ UNCHANGED <<cont, mounted, latest, vols, snaps, record, base, hk>> /\ TypeOK
      /\ "attach" \in Tasks /\ goto("attach", "reserve") /\ Mapped = {} /\ "reserve" \in Steps
  BY Attaches DEF do_task_attach, IInv, Steps
<1>2. ~(Active > 0)
  BY DEF do_task_attach, Start, disturb, IInv, TypeOK
<1>3. (\A t \in Tasks : task[t].pc = "idle") /\ hk.pc = "idle"
  BY <1>2, Inactive
<1>4. task["attach"] = Idle /\ ~Idle.stale /\ Idle.backup
  BY <1>1, <1>3, IdleJob DEF Calm, Alone, Idle
<1>5. /\ task'["attach"].pc = "reserve" /\ ~task'["attach"].stale /\ task'["attach"].backup
      /\ \A u \in Tasks : u # "attach" => task'[u] = task[u]
  BY <1>1, <1>4, Goes
<1>6. Chain(base, record.snaps) /\ Put
  BY <1>1, <1>3 DEF Calm, Listed, Between, Held
<1>7. Attaching'
  BY <1>1, <1>5, <1>6, SameData DEF Attaching, attach
<1> QED
  BY <1>1, <1>3, <1>5, <1>6, <1>7, SameData, TaskCalm

\* A task that ends where it changes nothing.
LEMMA EndsCalm ==
  ASSUME TypeOK, Calm, NEW t \in Tasks, task[t].pc # "idle", end(t), Held \/ Put,
         UNCHANGED <<cont, mounted, latest, vols, snaps, record, base, hk>>
  PROVE  Calm'
<1>1. /\ task'[t] = Idle /\ Idle.pc = "idle" /\ ~Idle.stale /\ Idle.backup
      /\ \A u \in Tasks : u # t => task'[u] = task[u]
  BY OneMoves, IdleJob DEF end, Idle
<1>2. t = "attach" => Attaching'
  BY <1>1 DEF Attaching, attach
<1>3. t # "attach" => Detaching(t)'
  BY <1>1 DEF Detaching
<1> QED
  BY <1>1, <1>2, <1>3, OneAtWork, SameData, TaskCalm

LEMMA ReserveCalm ==
  ASSUME IInv, Calm, reserve_disk_id
  PROVE  Calm'
<1> USE DEF ec2, disk
<1>1. /\ UNCHANGED <<cont, mounted, latest, vols, snaps, record, base, hk>> /\ TypeOK
      /\ attach \in Jobs /\ attach = task["attach"] /\ attach.pc = "reserve" /\ "attach" \in Tasks
  BY Attaches DEF reserve_disk_id, IInv, TypeOK, attach
<1>2. Put
  BY <1>1 DEF Calm, Attaching
<1>3. CASE end("attach")
  BY <1>1, <1>2, <1>3, EndsCalm
<1>4. CASE ~(Devices \subseteq used)
  <2> DEFINE d == Min(Devices \ used)
             pc == IF record = NoRecord THEN "create" ELSE "attach"
             j == [attach EXCEPT !.pc = pc, !.dev = d, !.vol = record.vol, !.seen = record, !.stale = FALSE]
  <2>1. d \in Devices
    BY <1>4, LeastDevice, BoundsAssumption
  <2>2. task' = [task EXCEPT !["attach"] = j]
    BY <1>1, <1>4 DEF reserve_disk_id
  <2> HIDE DEF d
  <2>3. /\ record \in Records \cup {NoRecord} /\ record.vol \in Volumes \cup {None}
        /\ record # NoRecord => record.vol \in Volumes
    BY <1>1, RecordFields DEF TypeOK, NoRecord
  <2>4. pc \in Steps /\ pc \in {"create", "attach"} /\ (pc = "create" <=> record = NoRecord)
    BY DEF Steps
  <2> HIDE DEF pc
  <2>5. /\ j \in Jobs /\ j.pc = pc /\ j.vol = record.vol /\ j.stale = FALSE /\ j.backup = attach.backup
    BY <1>1, <2>1, <2>3, <2>4 DEF Jobs
  <2> HIDE DEF j
  <2>6. /\ attach' = j /\ task'["attach"] = j
        /\ \A x \in Tasks : x # "attach" => task'[x] = task[x]
    BY <1>1, <2>2, <2>5, OneMoves DEF attach
  <2>7. record # NoRecord => vols[record.vol].st = "free"
    BY <1>2, <2>3 DEF Put, Mapped, IInv, RecordNamesVolume
  <2>8. Attaching'
    BY <1>1, <1>2, <2>4, <2>5, <2>6, <2>7, SameData DEF Attaching
  <2> QED
    BY <1>1, <2>4, <2>5, <2>6, <2>8, OneAtWork, SameData, TaskCalm
<1> QED
  BY <1>3, <1>4 DEF reserve_disk_id

LEMMA CreateCalm ==
  ASSUME IInv, Calm, create_new_volume
  PROVE  Calm'
<1> USE DEF ec2, disk
<1>1. /\ UNCHANGED <<cont, mounted, latest, snaps, record, base, hk>> /\ TypeOK
      /\ attach \in Jobs /\ attach = task["attach"] /\ attach.pc = "create" /\ "attach" \in Tasks
  BY Attaches DEF create_new_volume, IInv, TypeOK, attach
<1>2. Put /\ record = NoRecord
  BY <1>1 DEF Calm, Attaching
<1>3. CASE end("attach") /\ UNCHANGED vols
  BY <1>1, <1>2, <1>3, EndsCalm
<1>4. CASE \E v \in Volumes :
             /\ vols[v].st = "no"
             /\ vols' = [vols EXCEPT ![v] = [@ EXCEPT !.st = "free", !.data = IF base = None THEN 0 ELSE snaps[base].data]]
             /\ task' = [task EXCEPT !["attach"] = [@ EXCEPT !.pc = "attach", !.vol = v]]
  <2> DEFINE n == IF base = None THEN 0 ELSE snaps[base].data
  <2>1. PICK v \in Volumes :
             /\ vols[v].st = "no"
             /\ vols' = [vols EXCEPT ![v] = [@ EXCEPT !.st = "free", !.data = n]]
             /\ task' = [task EXCEPT !["attach"] = [@ EXCEPT !.pc = "attach", !.vol = v]]
    BY <1>4
  <2>2. n = latest /\ n \in 0 .. MaxEdits
    BY <1>1, <1>2 DEF TypeOK, Calm, Kept
  <2> HIDE DEF n
  <2> DEFINE r == [vols[v] EXCEPT !.st = "free", !.data = n]
             j == [attach EXCEPT !.pc = "attach", !.vol = v]
  <2>3. vols[v] \in EC2Volumes
    BY <1>1 DEF TypeOK, EC2Volumes
  <2>4. r \in EC2Volumes /\ r.st = "free" /\ r.data = n
    BY <2>2, <2>3 DEF EC2Volumes
  <2>5. j \in Jobs /\ j.pc = "attach" /\ j.vol = v /\ j.stale = attach.stale /\ j.backup = attach.backup
    BY <1>1 DEF Jobs, Steps
  <2>6. vols' = [vols EXCEPT ![v] = r] /\ task' = [task EXCEPT !["attach"] = j]
    BY <1>1, <2>1
  <2> HIDE DEF r, j
  <2>7. vols' \in [Volumes -> EC2Volumes] /\ vols'[v] = r /\ \A x \in Volumes : x # v => vols'[x] = vols[x]
    BY <1>1, <2>4, <2>6, OneVolume
  <2>8. /\ attach' = j /\ task'["attach"] = j
        /\ \A x \in Tasks : x # "attach" => task'[x] = task[x]
    BY <1>1, <2>5, <2>6, OneMoves DEF attach
  <2>9. Mapped' = {} /\ mounted = None
    BY <1>2, <2>1, <2>4, <2>7 DEF Put, Mapped, Calm, Mounts, Held
  <2>10. InOrder' /\ Kept' /\ Mounts' /\ Put'
    BY <1>1, <1>2, <2>9 DEF Calm, InOrder, Kept, Mounts, Put
  <2>11. Chain(base, record.snaps)'
    BY <1>1, OneAtWork DEF Chain, Exists
  <2>12. Attaching'
    BY <1>1, <1>2, <2>2, <2>4, <2>5, <2>7, <2>8, <2>10 DEF Attaching
  <2> QED
    BY <1>1, <2>5, <2>8, <2>10, <2>11, <2>12, OneAtWork, TaskCalm
<1> QED
  BY <1>3, <1>4 DEF create_new_volume

LEMMA AttachVolumeCalm ==
  ASSUME IInv, Calm, attach_volume
  PROVE  Calm'
<1> USE DEF ec2, disk
<1> DEFINE v == attach.vol
           d == attach.dev
<1>1. /\ UNCHANGED <<cont, mounted, latest, snaps, record, base, hk>> /\ TypeOK
      /\ attach \in Jobs /\ attach = task["attach"] /\ attach.pc = "attach" /\ "attach" \in Tasks
      /\ v \in Volumes /\ d \in Devices /\ "save" \in Steps
  BY Attaches DEF attach_volume, IInv, TypeOK, attach, Making, Deviced, Steps
<1>2. /\ Put /\ vols[v].st = "free"
      /\ IF record = NoRecord THEN vols[v].data = latest ELSE v = record.vol
  BY <1>1 DEF Calm, Attaching
<1>3. MappedAt(d) = {}
  BY <1>2 DEF Put, MappedAt
<1>4. attach_free_volume(v, d) /\ goto("attach", "save")
  <2>1. \/ attach_free_volume(v, d) /\ goto("attach", "save")
        \/ vols[v].st = "attached"
        \/ ensure_volume_available(v) => vols[v].st = "free" /\ MappedAt(d) # {}
    BY DEF attach_volume, attach
  <2>2. ensure_volume_available(v)
    BY <1>2 DEF ensure_volume_available
  <2> QED
    BY <1>2, <1>3, <2>1, <2>2
<1> DEFINE r == [vols[v] EXCEPT !.st = "attached", !.dev = d]
<1>5. vols[v] \in EC2Volumes
  BY <1>1 DEF TypeOK, EC2Volumes
<1>6. r \in EC2Volumes /\ r.st = "attached" /\ r.data = vols[v].data
  BY <1>1, <1>5 DEF EC2Volumes
<1>7. vols' = [vols EXCEPT ![v] = r]
  BY <1>4 DEF attach_free_volume
<1> HIDE DEF r
<1>8. PICK w \in Volumes : w = v
  BY <1>1
<1>9. vols' \in [Volumes -> EC2Volumes] /\ vols'[w] = r /\ \A x \in Volumes : x # w => vols'[x] = vols[x]
  BY <1>1, <1>6, <1>7, <1>8, OneVolume
<1>10. /\ task'["attach"].pc = "save" /\ task'["attach"].vol = v /\ attach' = task'["attach"]
       /\ task'["attach"].stale = attach.stale /\ task'["attach"].backup = attach.backup
       /\ \A x \in Tasks : x # "attach" => task'[x] = task[x]
  BY <1>1, <1>4, Goes DEF attach
<1>11. Mapped' = {v} /\ mounted = None
  BY <1>2, <1>6, <1>8, <1>9 DEF Put, Mapped, Calm, Mounts, Held
<1>12. record # NoRecord => record.vol \in Volumes
  BY <1>1, RecordFields DEF TypeOK
<1>13. InOrder' /\ Kept' /\ Mounts'
  BY <1>1, <1>6, <1>8, <1>9, <1>11, <1>12 DEF Calm, InOrder, Kept, Mounts
<1>14. Chain(base, record.snaps)'
  BY <1>1, OneAtWork DEF Chain, Exists
<1>15. Attaching'
  BY <1>1, <1>2, <1>6, <1>8, <1>9, <1>10, <1>11 DEF Attaching
<1> QED
  BY <1>1, <1>10, <1>13, <1>14, <1>15, OneAtWork, TaskCalm

\* A record that is written while all else rests stays as good as new: no other task
\* holds a copy of it.
LEMMA WriteCalm ==
  ASSUME TypeOK, Calm, NEW t \in Tasks, task[t].pc # "idle" \/ (\A u \in Tasks : task[u].pc = "idle"),
         hk.pc = "idle", NEW rec, NEW next \in Jobs, write(rec, t, next)
  PROVE  /\ record' = rec /\ task'[t] = next /\ hk' = hk
         /\ \A u \in Tasks : u # t => task'[u] = task[u] /\ task[u].pc = "idle"
<1>1. /\ record' = rec /\ hk' = [hk EXCEPT !.stale = hk.seen # NoRecord]
      /\ task' = [x \in Tasks |-> IF x = t THEN next
                                  ELSE [task[x] EXCEPT !.stale = task[x].seen # NoRecord]]
  BY DEF write
<1>2. hk = Resting /\ \A u \in Tasks : u # t => task[u].pc = "idle" /\ task[u] = Idle
  BY DEF Calm, Alone
<1>3. [Idle EXCEPT !.stale = Idle.seen # NoRecord] = Idle
  BY IdleJob, NotStale
<1>4. [Resting EXCEPT !.stale = Resting.seen # NoRecord] = Resting
  BY RestingRound, NotStale
<1>5. \A u \in Tasks : u # t => task'[u] = [task[u] EXCEPT !.stale = task[u].seen # NoRecord]
  BY <1>1
<1>6. \A u \in Tasks : u # t => task'[u] = task[u]
  BY <1>2, <1>3, <1>5
<1>7. hk' = hk
  BY <1>1, <1>2, <1>4
<1>8. task'[t] = next
  BY <1>1
<1> QED
  BY <1>1, <1>2, <1>6, <1>7, <1>8

\* The orders of the snapshots say nothing of the record.
LEMMA SameSnapshots ==
  ASSUME Calm, UNCHANGED snaps
  PROVE  InOrder'
BY DEF Calm, InOrder

LEMMA SaveAttachingCalm ==
  ASSUME IInv, Calm, save_attaching
  PROVE  Calm'
<1> USE DEF ec2, disk
<1>1. /\ UNCHANGED <<cont, mounted, latest, vols, snaps, base>> /\ TypeOK
      /\ attach \in Jobs /\ attach = task["attach"] /\ attach.pc = "save" /\ "attach" \in Tasks
      /\ attach.vol \in Volumes
  BY Attaches DEF save_attaching, IInv, TypeOK, attach, Making
<1> DEFINE old == IF record = NoRecord THEN [NoRecord EXCEPT !.vol = task["attach"].vol] ELSE record
           rec == [old EXCEPT !.state = "attaching"]
           next == [task["attach"] EXCEPT !.pc = "mount"]
<1>2. /\ hk.pc = "idle" /\ ~attach.stale /\ attach.backup /\ Chain(base, record.snaps)
      /\ \A u \in Tasks : u # "attach" => task[u].pc = "idle"
  BY <1>1, OneAtWork
<1>3. write(rec, "attach", next)
  BY <1>1, <1>2 DEF save_attaching
<1>4. /\ Mapped = {attach.vol} /\ mounted = None
      /\ IF record = NoRecord THEN vols[attach.vol].data = latest ELSE attach.vol = record.vol
  BY <1>1 DEF Calm, Attaching
<1>5. /\ old \in Records /\ old.vol = attach.vol /\ old.snaps = record.snaps
  <2>1. CASE record = NoRecord
    <3>1. NoRecord \in [vol : Volumes \cup {None}, state : States, snaps : Seq(Snapshots), old : BOOLEAN]
      BY DEF NoRecord, States
    <3>2. old = [NoRecord EXCEPT !.vol = attach.vol]
      BY <1>1, <2>1
    <3> QED
      BY <1>1, <2>1, <3>1, <3>2 DEF Records
  <2>2. CASE record # NoRecord
    BY <1>1, <1>4, <2>2 DEF TypeOK
  <2> QED
    BY <2>1, <2>2
<1> HIDE DEF old
<1>6. rec \in Records /\ rec.vol = attach.vol /\ rec.snaps = record.snaps /\ rec.state = "attaching"
  BY <1>5 DEF Records, States
<1>7. next \in Jobs /\ next.pc = "mount" /\ ~next.stale /\ next.backup
  BY <1>1, <1>2 DEF Jobs, Steps
<1> HIDE DEF rec, next
<1>8. /\ record' = rec /\ task'["attach"] = next /\ attach' = next /\ hk' = hk
      /\ \A u \in Tasks : u # "attach" => task'[u] = task[u] /\ task[u].pc = "idle"
  BY <1>1, <1>2, <1>3, <1>7, WriteCalm DEF attach
<1>9. rec # NoRecord
  BY <1>6, RecordFields
<1>10. Mapped' = Mapped
  BY <1>1 DEF Mapped
<1>11. Held' /\ Mounts' /\ InOrder'
  BY <1>1, <1>4, <1>6, <1>8, <1>9, <1>10, SameSnapshots DEF Held, Mounts
<1>12. Kept'
  BY <1>1, <1>4, <1>6, <1>8, <1>9 DEF Kept, Calm
<1>13. Chain(base, record.snaps)'
  BY <1>1, <1>2, <1>6, <1>8 DEF Chain, Exists
<1>14. Attaching'
  BY <1>7, <1>8, <1>11 DEF Attaching
<1> QED
  BY <1>1, <1>2, <1>7, <1>8, <1>11, <1>12, <1>13, <1>14, TaskCalm

LEMMA MountCalm ==
  ASSUME IInv, Calm, mount_host_device
  PROVE  Calm'
<1> USE DEF ec2, disk
<1>1. /\ UNCHANGED <<cont, latest, vols, snaps, base, record, hk>> /\ TypeOK
      /\ attach \in Jobs /\ attach = task["attach"] /\ attach.pc = "mount" /\ "attach" \in Tasks
      /\ "mounted" \in Steps
  BY Attaches DEF mount_host_device, IInv, TypeOK, attach, Steps
<1>2. Held
  BY <1>1 DEF Calm, Attaching
<1>3. CASE end("attach") /\ UNCHANGED mounted
  BY <1>1, <1>2, <1>3, EndsCalm
<1>4. CASE /\ cont = "running" /\ goto("attach", "mounted")
           /\ \E v \in Mapped : mounted' = v
  <2>1. mounted' = record.vol
    BY <1>2, <1>4 DEF Held
  <2>2. /\ task'["attach"].pc = "mounted" /\ attach' = task'["attach"]
        /\ task'["attach"].stale = attach.stale /\ task'["attach"].backup = attach.backup
        /\ \A x \in Tasks : x # "attach" => task'[x] = task[x]
    BY <1>1, <1>4, Goes DEF attach
  <2>3. Held' /\ InOrder' /\ Kept'
    BY <1>1, <1>2, SameSnapshots DEF Held, Mapped, Kept, Calm
  <2>4. Mounts'
    BY <1>1, <1>4, <2>1, <2>3 DEF Mounts
  <2>5. Chain(base, record.snaps)'
    BY <1>1, OneAtWork DEF Chain, Exists
  <2>6. Attaching'
    BY <2>2, <2>3 DEF Attaching
  <2> QED
    BY <1>1, <2>2, <2>3, <2>4, <2>5, <2>6, OneAtWork, TaskCalm
<1> QED
  BY <1>3, <1>4 DEF mount_host_device

LEMMA SaveAttachedCalm ==
  ASSUME IInv, Calm, save_attached
  PROVE  Calm'
<1> USE DEF ec2, disk
<1>1. /\ UNCHANGED <<cont, mounted, latest, vols, snaps, base>> /\ TypeOK
      /\ attach \in Jobs /\ attach = task["attach"] /\ attach.pc = "mounted" /\ "attach" \in Tasks
  BY Attaches DEF save_attached, IInv, TypeOK, attach
<1>2. Held /\ record \in Records
  BY <1>1 DEF Calm, Attaching, Held, TypeOK
<1> DEFINE rec == [record EXCEPT !.state = "attached"]
<1>3. write(rec, "attach", Idle)
  BY <1>2, RecordFields DEF save_attached
<1>4. rec \in Records /\ rec.vol = record.vol /\ rec.snaps = record.snaps /\ rec.state = "attached"
  BY <1>2 DEF Records, States
<1> HIDE DEF rec
<1>5. /\ hk.pc = "idle" /\ Chain(base, record.snaps)
      /\ Idle \in Jobs /\ Idle.pc = "idle" /\ ~Idle.stale /\ Idle.backup
  BY <1>1, OneAtWork, IdleJob DEF Idle
<1>6. /\ record' = rec /\ task'["attach"] = Idle /\ attach' = Idle /\ hk' = hk
      /\ \A u \in Tasks : u # "attach" => task'[u] = task[u] /\ task[u].pc = "idle"
  BY <1>1, <1>3, <1>5, WriteCalm DEF attach
<1>7. rec # NoRecord /\ record # NoRecord /\ Mapped' = Mapped
  BY <1>1, <1>2, <1>4, RecordFields DEF Mapped
<1>8. Held' /\ InOrder'
  BY <1>1, <1>2, <1>4, <1>6, <1>7, SameSnapshots DEF Held
<1>9. Kept' /\ Mounts'
  BY <1>1, <1>4, <1>6, <1>7, <1>8 DEF Kept, Calm, Mounts
<1>10. Chain(base, record.snaps)'
  BY <1>1, <1>4, <1>5, <1>6 DEF Chain, Exists
<1>11. Attaching'
  BY <1>5, <1>6 DEF Attaching
<1> QED
  BY <1>1, <1>5, <1>6, <1>8, <1>9, <1>10, <1>11, TaskCalm

-----------------------------------------------------------------------------
(* The steps of a release, undisturbed.                                    *)

LEMMA BeginsCalm ==
  ASSUME IInv, Calm, ~(Active > 0), NEW t \in Releasers, NEW v \in Mapped,
         UNCHANGED <<latest, vols, snaps, record, base, hk>>,
         \/ mounted' = None /\ task' = Releasing(t, v, TRUE)
         \/ /\ UNCHANGED <<cont, mounted>>
            /\ task' = [Releasing(t, v, TRUE) EXCEPT ![t] = [@ EXCEPT !.pc = "look"]]
  PROVE  Calm'
<1> DEFINE j == [Idle EXCEPT !.pc = "release", !.dev = vols[v].dev, !.backup = TRUE]
           k == [j EXCEPT !.pc = "look"]
<1>1. vols[v].dev \in Devices /\ TypeOK /\ t \in Tasks /\ t # "attach"
  BY Attaches DEF IInv, Deviced, Mapped, Releasers
<1>2. j \in Jobs /\ j.pc = "release" /\ j.dev = vols[v].dev /\ ~j.stale /\ j.backup
  BY <1>1 DEF Idle, Jobs, Steps, NoRecord
<1> HIDE DEF j
<1>3. k \in Jobs /\ k.pc = "look" /\ k.dev = vols[v].dev /\ ~k.stale /\ k.backup
  BY <1>2 DEF Jobs, Steps
<1>4. \/ mounted' = None /\ task' = [task EXCEPT ![t] = j]
      \/ UNCHANGED <<cont, mounted>> /\ task' = [task EXCEPT ![t] = k]
  <2>1. Releasing(t, v, TRUE) = [task EXCEPT ![t] = j]
    BY DEF Releasing, j
  <2>2. task \in [Tasks -> Jobs] /\ t \in Tasks
    BY <1>1 DEF TypeOK
  <2> QED
    BY <2>1, <2>2, <1>2
<1> HIDE DEF k
<1>5. \/ mounted' = None /\ task'[t] = j
      \/ UNCHANGED <<cont, mounted>> /\ task'[t] = k
  BY <1>1, <1>2, <1>3, <1>4, OneMoves
<1>6. \A u \in Tasks : u # t => task'[u] = task[u]
  BY <1>1, <1>4 DEF TypeOK
<1>7. (\A u \in Tasks : task[u].pc = "idle") /\ hk.pc = "idle"
  BY Inactive
<1>8. Held /\ v = record.vol
  BY <1>7 DEF Calm, Between, Put, Held
<1>9. Held' /\ InOrder' /\ Kept' /\ Mounts'
  BY <1>4, <1>8, SameSnapshots DEF Calm, Kept, Mounts, Held, Mapped
<1>10. Chain(base, record.snaps)'
  BY <1>7 DEF Calm, Listed, Chain, Exists
<1>11. Detaching(t)'
  BY <1>2, <1>3, <1>5, <1>8, <1>9 DEF Detaching
<1> QED
  BY <1>1, <1>2, <1>3, <1>5, <1>6, <1>7, <1>9, <1>10, <1>11, TaskCalm

LEMMA DetachStartCalm ==
  ASSUME IInv, Calm, do_task_detach, disturbed' = 0
  PROVE  Calm'
<1> USE DEF ec2, disk
<1>1. UNCHANGED <<cont, latest, vols, snaps, base>> /\ ~(Active > 0)
  BY DEF do_task_detach, Start, disturb, IInv, TypeOK
<1>2. Held \/ Put
  BY <1>1, Inactive DEF Calm, Between
<1>3. ASSUME NEW v \in Mapped, mounted' = None, task' = Releasing("detach", v, TRUE), UNCHANGED <<record, hk>>
      PROVE  Calm'
  BY <1>1, <1>3, BeginsCalm DEF Releasers
<1>4. CASE Mapped = {} /\ record # NoRecord /\ record.state # "detached"
  BY <1>2, <1>4 DEF Held, Put
<1> QED
  BY <1>3, <1>4 DEF do_task_detach

\* The container is stopped: nothing is mounted any more.
LEMMA StopsCalm ==
  ASSUME Calm, mounted' = None, UNCHANGED <<latest, vols, snaps, record, base>>
  PROVE  InOrder' /\ Kept' /\ Mounts' /\ (Held' <=> Held) /\ (Put' <=> Put)
         /\ (Chain(base, record.snaps)' <=> Chain(base, record.snaps))
BY DEF Calm, InOrder, Kept, Mounts, Held, Put, Newest, Mapped, Chain, Exists

LEMMA CleanupCalm ==
  ASSUME IInv, Calm, before_delete, disturbed' = 0
  PROVE  Calm'
<1> USE DEF ec2, disk
<1>1. /\ UNCHANGED <<latest, vols, snaps, record, base, hk>> /\ mounted' = None /\ TypeOK
      /\ "cleanup" \in Tasks /\ "cleanup" \in Releasers /\ "remove" \in Steps
  BY Attaches DEF before_delete, IInv, Releasers, Steps
<1>2. PICK b \in BOOLEAN : /\ disturb(Active > 0 \/ ~b)
                           /\ \/ \E v \in Mapped : task' = Releasing("cleanup", v, b)
                              \/ Mapped = {} /\ goto("cleanup", "remove")
  BY DEF before_delete
<1>3. ~(Active > 0) /\ b
  BY <1>1, <1>2 DEF disturb, TypeOK
<1>4. ASSUME NEW v \in Mapped, task' = Releasing("cleanup", v, b) PROVE Calm'
  <2>1. b = TRUE
    BY <1>3
  <2> QED
    BY <1>1, <1>3, <1>4, <2>1, BeginsCalm
<1>5. CASE Mapped = {} /\ goto("cleanup", "remove")
  <2>1. (\A u \in Tasks : task[u].pc = "idle") /\ hk.pc = "idle"
    BY <1>3, Inactive
  <2>2. Put /\ Chain(base, record.snaps)
    BY <1>5, <2>1 DEF Calm, Between, Held, Listed
  <2>3. ~task["cleanup"].stale /\ task["cleanup"].backup
    BY <1>1 DEF Calm, Alone
  <2>4. /\ task'["cleanup"].pc = "remove" /\ ~task'["cleanup"].stale /\ task'["cleanup"].backup
        /\ \A u \in Tasks : u # "cleanup" => task'[u] = task[u]
    BY <1>1, <1>5, <2>3, Goes
  <2>5. Put' /\ InOrder' /\ Kept' /\ Mounts' /\ Chain(base, record.snaps)'
    BY <1>1, <2>2, StopsCalm
  <2>6. Detaching("cleanup")'
    BY <1>1, <2>4, <2>5 DEF Detaching
  <2> QED
    BY <1>1, <2>1, <2>4, <2>5, <2>6, TaskCalm
<1> QED
  BY <1>2, <1>4, <1>5

LEMMA RemoveCalm ==
  ASSUME IInv, Calm, remove_container
  PROVE  Calm'
<1> USE DEF ec2, disk
<1>1. /\ UNCHANGED <<mounted, latest, vols, snaps, record, base, hk>> /\ TypeOK
      /\ "cleanup" \in Tasks /\ "cleanup" \in Releasers
      /\ task["cleanup"].pc = "remove" /\ end("cleanup")
  BY Attaches DEF remove_container, IInv, Releasers
<1>2. Put /\ mounted = None
  BY <1>1 DEF Calm, Detaching
<1>3. /\ task'["cleanup"] = Idle /\ Idle.pc = "idle" /\ ~Idle.stale /\ Idle.backup
      /\ \A u \in Tasks : u # "cleanup" => task'[u] = task[u]
  BY <1>1, OneMoves, IdleJob DEF end, Idle
<1>4. /\ hk.pc = "idle" /\ Chain(base, record.snaps)
      /\ \A u \in Tasks : u # "cleanup" => task[u].pc = "idle"
  BY <1>1, OneAtWork
<1>5. Put' /\ InOrder' /\ Kept' /\ Mounts' /\ Chain(base, record.snaps)'
  BY <1>1, <1>2, <1>4, StopsCalm
<1>6. Detaching("cleanup")'
  BY <1>3 DEF Detaching
<1> QED
  BY <1>1, <1>3, <1>4, <1>5, <1>6, TaskCalm

LEMMA NodeStartCalm ==
  ASSUME IInv, Calm, do_node_housekeeping, disturbed' = 0
  PROVE  Calm'
<1>1. UNCHANGED <<cont, mounted, latest, vols, snaps, record, base, hk>>
  BY DEF do_node_housekeeping, ec2, disk
<1>2. ~(Active > 0)
  BY DEF do_node_housekeeping, Start, disturb, IInv, TypeOK
<1>3. PICK v \in Mapped : task' = [Releasing("node", v, TRUE) EXCEPT !["node"] = [@ EXCEPT !.pc = "look"]]
  BY DEF do_node_housekeeping
<1> QED
  BY <1>1, <1>2, <1>3, BeginsCalm DEF Releasers

LEMMA OrphanedCalm ==
  ASSUME IInv, Calm, orphaned
  PROVE  Calm'
<1> USE DEF ec2, disk
<1>1. /\ UNCHANGED <<cont, mounted, latest, vols, snaps, record, base, hk>> /\ TypeOK
      /\ "node" \in Tasks /\ "node" \in Releasers /\ task["node"].pc = "look" /\ "release" \in Steps
  BY Attaches DEF orphaned, IInv, Releasers, Steps
<1>2. Held /\ task["node"].dev = vols[record.vol].dev
  BY <1>1 DEF Calm, Detaching
<1>3. CASE end("node")
  BY <1>1, <1>2, <1>3, EndsCalm
<1>4. CASE cont = "none" /\ goto("node", "release")
  <2>1. mounted = None
    BY <1>4 DEF Calm, Mounts
  <2>2. /\ hk.pc = "idle" /\ ~task["node"].stale /\ task["node"].backup
        /\ Chain(base, record.snaps)
        /\ \A u \in Tasks : u # "node" => task[u].pc = "idle"
    BY <1>1, OneAtWork
  <2>3. /\ task'["node"].pc = "release" /\ ~task'["node"].stale /\ task'["node"].backup
        /\ task'["node"].dev = task["node"].dev
        /\ \A u \in Tasks : u # "node" => task'[u] = task[u]
    BY <1>1, <1>4, <2>2, Goes
  <2>4. Held' /\ InOrder' /\ Kept' /\ Mounts' /\ Chain(base, record.snaps)'
    BY <1>1, <1>2, <2>2, SameData
  <2>5. Detaching("node")'
    BY <1>1, <1>2, <2>1, <2>3, <2>4 DEF Detaching
  <2> QED
    BY <1>1, <2>2, <2>3, <2>4, <2>5, TaskCalm
<1> QED
  BY <1>3, <1>4 DEF orphaned

LEMMA SaveDetachingCalm ==
  ASSUME IInv, Calm, NEW t \in Releasers, save_detaching(t)
  PROVE  Calm'
<1> USE DEF ec2, disk
<1>1. /\ UNCHANGED <<cont, mounted, latest, vols, snaps, base>> /\ TypeOK
      /\ t \in Tasks /\ t # "attach" /\ task[t] \in Jobs /\ task[t].pc = "release"
  BY Attaches DEF save_detaching, IInv, TypeOK, Releasers
<1>2. Held /\ mounted = None /\ task[t].dev = vols[record.vol].dev /\ record \in Records
  BY <1>1 DEF Calm, Detaching, Held, TypeOK
<1> DEFINE rec == set_state(record, "detaching")
           next == [task[t] EXCEPT !.pc = "backup", !.seen = rec, !.stale = FALSE]
<1>3. write(rec, t, next)
  BY <1>2, RecordFields DEF save_detaching
<1>4. /\ rec \in Records /\ rec.vol = record.vol /\ rec.snaps = record.snaps /\ rec.state = "detaching"
  BY <1>2 DEF set_state, Records, States
<1> HIDE DEF rec
<1>5. /\ hk.pc = "idle" /\ task[t].backup /\ Chain(base, record.snaps)
  BY <1>1, OneAtWork
<1>6. next \in Jobs /\ next.pc = "backup" /\ ~next.stale /\ next.backup /\ next.dev = task[t].dev
  BY <1>1, <1>4, <1>5 DEF Jobs, Steps
<1> HIDE DEF next
<1>7. /\ record' = rec /\ task'[t] = next /\ hk' = hk
      /\ \A u \in Tasks : u # t => task'[u] = task[u] /\ task[u].pc = "idle"
  BY <1>1, <1>3, <1>5, <1>6, WriteCalm
<1>8. rec # NoRecord /\ record # NoRecord /\ Mapped' = Mapped
  BY <1>1, <1>2, <1>4, RecordFields DEF Mapped
<1>9. Held' /\ InOrder' /\ Mounts'
  BY <1>1, <1>2, <1>4, <1>7, <1>8, SameSnapshots DEF Held, Mounts
<1>10. Kept'
  BY <1>1, <1>4, <1>7, <1>8 DEF Kept, Calm
<1>11. Chain(base, record.snaps)'
  BY <1>1, <1>4, <1>5, <1>7 DEF Chain, Exists
<1>12. Detaching(t)'
  BY <1>1, <1>2, <1>4, <1>6, <1>7, <1>9 DEF Detaching
<1> QED
  BY <1>1, <1>5, <1>6, <1>7, <1>9, <1>10, <1>11, <1>12, TaskCalm

EC2Snapshots == [st : {"no", "pending", "done", "deleted"}, data : 0 .. MaxEdits]

\* A snapshot of the volume that holds the last edit is newer than all others.
LEMMA BackupCalm ==
  ASSUME IInv, Calm, NEW t \in Releasers, backup(t)
  PROVE  Calm'
<1> USE DEF ec2, disk
<1>1. /\ UNCHANGED <<cont, mounted, latest, vols, base, record, hk>> /\ TypeOK
      /\ t \in Tasks /\ t # "attach" /\ task[t] \in Jobs /\ task[t].pc = "backup"
  BY Attaches DEF backup, IInv, TypeOK, Releasers
<1>2. Held /\ mounted = None /\ task[t].dev = vols[record.vol].dev /\ record \in Records
  BY <1>1 DEF Calm, Detaching, Held, TypeOK
<1>3. /\ hk.pc = "idle" /\ task[t].backup /\ ~task[t].stale /\ Chain(base, record.snaps)
      /\ \A u \in Tasks : u # t => task[u].pc = "idle"
  BY <1>1, OneAtWork
<1>4. MappedAt(task[t].dev) = {record.vol}
  BY <1>2 DEF Held, MappedAt
<1>5. PICK s \in Snapshots :
        /\ snaps[s].st = "no" /\ \A r \in 1 .. (s - 1) : snaps[r].st # "no"
        /\ snaps' = [snaps EXCEPT ![s] = [st |-> "pending", data |-> vols[record.vol].data]]
        /\ task' = [task EXCEPT ![t] = [@ EXCEPT !.pc = "detach", !.snap = s]]
  <2>1. PICK v \in MappedAt(task[t].dev), s \in Snapshots :
        /\ snaps[s].st = "no" /\ \A r \in 1 .. (s - 1) : snaps[r].st # "no"
        /\ snaps' = [snaps EXCEPT ![s] = [st |-> "pending", data |-> vols[v].data]]
        /\ task' = [task EXCEPT ![t] = [@ EXCEPT !.pc = "detach", !.snap = s]]
    BY <1>3, <1>4 DEF backup
  <2>2. v = record.vol
    BY <1>4
  <2> QED
    BY <2>1, <2>2
<1> DEFINE n == [st |-> "pending", data |-> vols[record.vol].data]
           j == [task[t] EXCEPT !.pc = "detach", !.snap = s]
<1>6. n.st = "pending" /\ n.data = latest
  BY <1>2 DEF Calm, Kept, Held
<1>7. /\ j \in Jobs /\ j.pc = "detach" /\ j.snap = s /\ j.dev = task[t].dev
      /\ j.stale = task[t].stale /\ j.backup = task[t].backup
  BY <1>1 DEF Jobs, Steps
<1>8. snaps' = [snaps EXCEPT ![s] = n] /\ task' = [task EXCEPT ![t] = j]
  BY <1>5
<1> HIDE DEF n, j
<1>9. snaps'[s] = n /\ \A r \in Snapshots : r # s => snaps'[r] = snaps[r]
  BY <1>1, <1>8 DEF TypeOK
<1>10. task'[t] = j /\ \A u \in Tasks : u # t => task'[u] = task[u]
  BY <1>1, <1>7, <1>8, OneMoves
<1>11. record.snaps \in Seq(Snapshots) /\ base \in Snapshots \cup {None}
  BY <1>1, <1>2, RecordFields DEF TypeOK
<1>12. \A r \in Snapshots : snaps[r].st # "no" => r < s
  BY <1>5 DEF Calm, InOrder, Snapshots
<1>13. /\ \A i \in DOMAIN record.snaps : record.snaps[i] \in Snapshots /\ record.snaps[i] < s
       /\ base < s /\ (base # None => base \in Snapshots /\ snaps[base].st = "done")
  <2>1. \A i \in DOMAIN record.snaps : record.snaps[i] \in Snapshots
    BY <1>11
  <2>2. \A i \in DOMAIN record.snaps : snaps[record.snaps[i]].st # "no"
    BY <1>3 DEF Chain, Exists
  <2>3. base # None => base \in Snapshots /\ snaps[base].st = "done"
    BY <1>3, <1>11 DEF Chain
  <2>4. base < s
    BY <1>12, <2>3 DEF None, Snapshots
  <2> QED
    BY <1>12, <2>1, <2>2, <2>3, <2>4
<1>14. Held' /\ Mounts' /\ Kept'
  BY <1>1, <1>2 DEF Held, Mapped, Mounts, Kept, Calm
<1>15. Chain(base, record.snaps)'
  <2>1. \A i \in DOMAIN record.snaps : snaps'[record.snaps[i]] = snaps[record.snaps[i]]
    BY <1>9, <1>13 DEF Snapshots
  <2>2. base # None => snaps'[base] = snaps[base]
    BY <1>9, <1>13 DEF Snapshots
  <2> QED
    BY <1>1, <1>3, <2>1, <2>2 DEF Chain, Exists
<1>16. InOrder'
  BY <1>5, <1>6, <1>9, <1>12 DEF InOrder, Calm, Snapshots
<1>17. Detaching(t)'
  BY <1>1, <1>2, <1>6, <1>7, <1>9, <1>10, <1>13, <1>14, NoneIsNot DEF Detaching, Saved, Held, Exists
<1> QED
  BY <1>1, <1>3, <1>7, <1>10, <1>14, <1>15, <1>16, <1>17, TaskCalm

LEMMA DetachVolumeCalm ==
  ASSUME IInv, Calm, NEW t \in Releasers, detach_volume(t)
  PROVE  Calm'
<1> USE DEF ec2, disk
<1>1. /\ UNCHANGED <<cont, latest, snaps, base, record, hk>> /\ TypeOK
      /\ t \in Tasks /\ t # "attach" /\ task[t] \in Jobs /\ task[t].pc = "detach" /\ "detached" \in Steps
  BY Attaches DEF detach_volume, IInv, TypeOK, Releasers, Steps
<1>2. /\ Held /\ mounted = None /\ task[t].dev = vols[record.vol].dev /\ record # NoRecord
      /\ Saved(task[t].snap)
  BY <1>1 DEF Calm, Detaching, Held
<1>3. /\ hk.pc = "idle" /\ task[t].backup /\ ~task[t].stale /\ Chain(base, record.snaps)
      /\ \A u \in Tasks : u # t => task[u].pc = "idle"
  BY <1>1, OneAtWork
<1>4. MappedAt(task[t].dev) = {record.vol}
  BY <1>2 DEF Held, MappedAt
<1>5. PICK v \in Volumes : v = record.vol /\ vols[v].st = "attached"
  BY <1>2 DEF Held, Mapped
<1>6. /\ vols' = [vols EXCEPT ![v] = [@ EXCEPT !.st = "free", !.dev = None]]
      /\ goto(t, "detached") /\ mounted' = None
  BY <1>2, <1>4, <1>5 DEF detach_volume
<1> DEFINE r == [vols[v] EXCEPT !.st = "free", !.dev = None]
<1>7. vols[v] \in EC2Volumes
  BY <1>1 DEF TypeOK, EC2Volumes
<1>8. r \in EC2Volumes /\ r.st = "free" /\ r.data = vols[v].data
  BY <1>7 DEF EC2Volumes
<1>9. vols' = [vols EXCEPT ![v] = r]
  BY <1>6
<1> HIDE DEF r
<1>10. vols' \in [Volumes -> EC2Volumes] /\ vols'[v] = r /\ \A x \in Volumes : x # v => vols'[x] = vols[x]
  BY <1>1, <1>8, <1>9, OneVolume
<1>11. Mapped' = {}
  BY <1>2, <1>5, <1>8, <1>10 DEF Held, Mapped
<1>12. /\ task'[t].pc = "detached" /\ ~task'[t].stale /\ task'[t].backup /\ task'[t].snap = task[t].snap
       /\ \A u \in Tasks : u # t => task'[u] = task[u]
  BY <1>1, <1>3, <1>6, Goes
<1>13. InOrder' /\ Mounts' /\ Chain(base, record.snaps)'
  BY <1>1, <1>3, <1>6, SameSnapshots DEF Mounts, Chain, Exists
<1>14. Kept'
  BY <1>1, <1>2, <1>5, <1>8, <1>10 DEF Calm, Kept
<1>15. Saved(task[t].snap)'
  BY <1>1, <1>2, <1>12 DEF Saved, Exists
<1>16. Detaching(t)'
  BY <1>1, <1>2, <1>6, <1>11, <1>12, <1>15 DEF Detaching, Saved, Exists
<1> QED
  BY <1>1, <1>3, <1>12, <1>13, <1>14, <1>16, TaskCalm

LEMMA SaveDetachedCalm ==
  ASSUME IInv, Calm, NEW t \in Releasers, save_detached(t)
  PROVE  Calm'
<1> USE DEF ec2, disk
<1> DEFINE next == IF t = "cleanup" THEN [Idle EXCEPT !.pc = "remove"] ELSE Idle
           s == task[t].snap
           snaps2 == Append(record.snaps, s)
           rec == [record EXCEPT !.state = "detached", !.old = FALSE, !.snaps = snaps2]
<1>1. /\ UNCHANGED <<cont, mounted, latest, vols, snaps, base>> /\ TypeOK
      /\ t \in Tasks /\ t # "attach" /\ task[t] \in Jobs /\ task[t].pc = "detached"
  BY Attaches DEF save_detached, IInv, TypeOK, Releasers
<1>2. /\ mounted = None /\ record # NoRecord /\ record \in Records /\ Mapped = {}
      /\ Saved(s) /\ s \in Snapshots
  BY <1>1, JobFields DEF Calm, Detaching, Saved, TypeOK
<1>3. /\ hk.pc = "idle" /\ ~task[t].stale /\ Chain(base, record.snaps)
  BY <1>1, OneAtWork
<1>4. s # None
  BY <1>2 DEF Saved
<1>5. write([record EXCEPT !.state = "detached", !.old = FALSE,
                           !.snaps = IF task[t].snap = None THEN record.snaps ELSE Append(record.snaps, task[t].snap)], t, next)
  BY <1>3 DEF save_detached
<1>6. write(rec, t, next)
  BY <1>4, <1>5
<1>7. /\ next \in Jobs /\ next.pc \in {"idle", "remove"} /\ ~next.stale /\ next.backup
      /\ (next.pc = "idle" => next = Idle)
  BY IdleJob DEF Idle
<1>8. record.snaps \in Seq(Snapshots)
  BY <1>2, RecordFields
<1>9. /\ snaps2 \in Seq(Snapshots) /\ snaps2 # <<>> /\ Len(snaps2) = Len(record.snaps) + 1
      /\ DOMAIN record.snaps = 1 .. Len(record.snaps) /\ Len(record.snaps) \in Nat
      /\ DOMAIN snaps2 = 1 .. Len(record.snaps) + 1
      /\ snaps2[Len(record.snaps) + 1] = s
      /\ \A i \in DOMAIN record.snaps : snaps2[i] = record.snaps[i]
  BY <1>2, <1>8
<1> HIDE DEF next, snaps2
<1>10. rec \in Records /\ rec.vol = record.vol /\ rec.snaps = snaps2 /\ rec.state = "detached"
  BY <1>2, <1>9 DEF Records, States
<1> HIDE DEF rec
<1>11. /\ record' = rec /\ task'[t] = next /\ hk' = hk
       /\ \A u \in Tasks : u # t => task'[u] = task[u] /\ task[u].pc = "idle"
  BY <1>1, <1>3, <1>6, <1>7, WriteCalm
<1>12. rec # NoRecord
  BY <1>10, RecordFields
<1>13. Newest(base, snaps2) /\ Newest(base, record.snaps)'
  <2>1. snaps2[Len(snaps2)] = s
    BY <1>9
  <2>2. snaps[s].data = latest
    BY <1>2 DEF Saved
  <2> QED
    BY <1>1, <1>9, <1>10, <1>11, <2>1, <2>2 DEF Newest
<1>14. Put' /\ InOrder' /\ Mounts'
  BY <1>1, <1>2, <1>10, <1>11, <1>12, <1>13, SameSnapshots DEF Put, Mapped, Mounts
<1>15. Kept'
  BY <1>1, <1>2, <1>10, <1>11, <1>12 DEF Kept, Calm
<1>16. Chain(base, snaps2)
  <2>1. \A i \in DOMAIN record.snaps : record.snaps[i] < s
    BY <1>2 DEF Saved
  <2>2. Exists(s) /\ base < s
    BY <1>2 DEF Saved
  <2>3. ASSUME NEW i \in DOMAIN snaps2
        PROVE  Exists(snaps2[i]) /\ base < snaps2[i] /\ \A k \in 1 .. (i - 1) : snaps2[k] < snaps2[i]
    <3>1. CASE i = Len(record.snaps) + 1
      BY <1>9, <2>1, <2>2, <3>1
    <3>2. CASE i \in DOMAIN record.snaps
      BY <1>3, <1>9, <3>2 DEF Chain
    <3> QED
      BY <1>9, <3>1, <3>2
  <2> QED
    BY <1>3, <2>3 DEF Chain
<1>17. Chain(base, record.snaps)'
  BY <1>1, <1>10, <1>11, <1>16 DEF Chain, Exists
<1>18. Detaching(t)'
  BY <1>1, <1>2, <1>7, <1>11, <1>14 DEF Detaching
<1> QED
  BY <1>1, <1>3, <1>7, <1>11, <1>14, <1>15, <1>17, <1>18, TaskCalm

-----------------------------------------------------------------------------
(* The round of the leader, undisturbed.                                   *)

\* The leader makes a step, while all tasks rest.
LEMMA LeaderCalm ==
  ASSUME Calm, hk.pc # "idle" \/ (\A t \in Tasks : task[t].pc = "idle"),
         \A t \in Tasks : task'[t] = task[t],
         ~hk'.stale, hk'.pc = "idle" => hk' = Resting,
         InOrder', Kept', Mounts', Leading', Listed', hk'.pc = "idle" => (Held \/ Put)'
  PROVE  Calm'
<1>1. \A t \in Tasks : task[t].pc = "idle" /\ task'[t].pc = "idle"
  BY DEF Calm, Alone
<1>2. Alone'
  BY <1>1 DEF Calm, Alone
<1>3. Attaching'
  BY <1>1, Attaches DEF Attaching, attach
<1>4. ASSUME NEW t \in Releasers PROVE Detaching(t)'
  BY <1>1, Attaches DEF Detaching
<1>5. Between'
  BY DEF Between
<1> QED
  BY <1>2, <1>3, <1>4, <1>5 DEF Calm

LEMMA LeaderAtWork ==
  ASSUME Calm, hk.pc # "idle"
  PROVE  /\ Mapped = {} /\ mounted = None /\ ~hk.stale
         /\ \A t \in Tasks : task[t] = Idle
BY DEF Calm, Alone, Leading, Mounts, Held

LEMMA ListCalm ==
  ASSUME IInv, Calm, get_detached_disks, disturbed' = 0
  PROVE  Calm'
<1> USE DEF ec2, disk
<1>1. /\ UNCHANGED <<cont, mounted, latest, vols, snaps, base, record, task>> /\ ~(Active > 0)
      /\ hk.pc = "idle" /\ record # NoRecord /\ record.state = "detached"
      /\ hk' = [Resting EXCEPT !.pc = "fetch"]
  BY DEF get_detached_disks, disturb, IInv, TypeOK
<1>2. \A t \in Tasks : task[t].pc = "idle"
  BY <1>1, Inactive
<1>3. Put
  BY <1>1, <1>2 DEF Calm, Between, Held
<1>4. hk'.pc = "fetch" /\ ~hk'.stale
  <2>1. [Resting EXCEPT !.pc = "fetch"].pc = "fetch" /\ [Resting EXCEPT !.pc = "fetch"].stale = Resting.stale
    BY RestingRound, RoundGoes
  <2> QED
    BY <1>1, <2>1, RestingRound
<1>5. Put' /\ InOrder' /\ Kept' /\ Mounts' /\ (Chain(base, record.snaps)' <=> Chain(base, record.snaps))
  BY <1>1, <1>3, SameData
<1>6. Chain(base, record.snaps)
  BY <1>1 DEF Calm, Listed
<1>7. Listed' /\ Leading'
  BY <1>4, <1>5, <1>6 DEF Listed, Leading, Put
<1> QED
  BY <1>1, <1>2, <1>4, <1>5, <1>7, LeaderCalm

\* The leader drops the record where nothing is changed by it.
LEMMA RestsCalm ==
  ASSUME Calm, hk.pc # "idle", rest, Held \/ Put, Chain(base, record.snaps),
         UNCHANGED <<cont, mounted, latest, vols, snaps, base, record, task>>
  PROVE  Calm'
<1>1. hk' = Resting /\ Resting.pc = "idle" /\ ~Resting.stale
  BY RestingRound DEF rest
<1>2. /\ InOrder' /\ Kept' /\ Mounts' /\ (Held' <=> Held) /\ (Put' <=> Put)
      /\ (Chain(base, record.snaps)' <=> Chain(base, record.snaps))
  BY SameData
<1>3. Leading' /\ Listed'
  BY <1>1, <1>2 DEF Leading, Listed
<1> QED
  BY <1>1, <1>2, <1>3, LeaderCalm

LEMMA FetchCalm ==
  ASSUME IInv, Calm, fetch_disk
  PROVE  Calm'
<1> USE DEF ec2, disk
<1>1. UNCHANGED <<cont, mounted, latest, vols, snaps, base, record, task>> /\ hk.pc = "fetch" /\ TypeOK
  BY DEF fetch_disk, IInv
<1>2. Put /\ Chain(base, record.snaps)
  BY <1>1 DEF Calm, Leading, Listed
<1>3. CASE rest
  BY <1>1, <1>2, <1>3, RestsCalm
<1>4. CASE record # NoRecord /\ hk' = [Resting EXCEPT !.pc = "scan", !.seen = record, !.todo = record.snaps, !.base = base]
  <2>1. record.snaps \in Seq(Snapshots) /\ Resting.incomplete = <<>> /\ ~Resting.stale /\ ~Resting.modified
    BY <1>1, <1>4, RecordFields DEF TypeOK, Resting
  <2>2. /\ hk'.pc = "scan" /\ hk'.todo = record.snaps /\ hk'.incomplete = <<>> /\ hk'.base = base
        /\ ~hk'.stale /\ ~hk'.modified
    BY <1>4, <2>1 DEF Resting
  <2>3. InOrder' /\ Kept' /\ Mounts' /\ Put' /\ Chain(base, record.snaps)'
    BY <1>1, <1>2, SameData
  <2>4. Newest(base, record.snaps)' /\ record'.state = "detached" /\ record' # NoRecord /\ Mapped' = {}
    BY <1>1, <1>4, <2>3 DEF Put
  <2>5. Scanning'
    <3>1. Chain(hk.base, hk.todo)'
      BY <1>1, <2>2, <2>3 DEF Chain, Exists
    <3>2. Chain(hk.base, hk.incomplete)'
      BY <1>1, <2>2, <2>3 DEF Chain, Exists
    <3>3. Newest(hk.base, hk.todo)' /\ (hk'.todo = <<>> => Newest(hk.base, hk.incomplete)')
      BY <1>1, <2>2, <2>4 DEF Newest
    <3> QED
      BY <2>2, <3>1, <3>2, <3>3 DEF Scanning
  <2>6. Leading' /\ Listed'
    BY <1>1, <2>2, <2>3, <2>4, <2>5 DEF Leading, Listed
  <2> QED
    BY <1>1, <2>2, <2>3, <2>6, LeaderCalm
<1> QED
  BY <1>3, <1>4 DEF fetch_disk

LEMMA TailOf ==
  ASSUME NEW q \in Seq(Snapshots), q # <<>>
  PROVE  /\ Len(q) \in Nat \ {0} /\ DOMAIN q = 1 .. Len(q)
         /\ \A i \in 1 .. Len(q) : q[i] \in Snapshots
         /\ Head(q) = q[1] /\ Tail(q) \in Seq(Snapshots)
         /\ Len(Tail(q)) = Len(q) - 1 /\ DOMAIN Tail(q) = 1 .. Len(q) - 1
         /\ \A i \in 1 .. Len(q) - 1 : Tail(q)[i] = q[i + 1]
         /\ (Tail(q) = <<>> <=> Len(q) = 1)
<1>1. Len(q) \in Nat \ {0} /\ DOMAIN q = 1 .. Len(q) /\ \A i \in 1 .. Len(q) : q[i] \in Snapshots
  BY EmptySeq, LenProperties, ElementOfSeq
<1>2. /\ Head(q) = q[1] /\ Tail(q) \in Seq(Snapshots) /\ Len(Tail(q)) = Len(q) - 1
      /\ \A i \in 1 .. Len(q) - 1 : Tail(q)[i] = q[i + 1]
  BY HeadTailProperties, <1>1
<1>3. DOMAIN Tail(q) = 1 .. Len(q) - 1 /\ (Tail(q) = <<>> <=> Len(q) = 1)
  <2>1. PICK t \in Seq(Snapshots) : t = Tail(q)
    BY <1>2
  <2>2. DOMAIN t = 1 .. Len(t) /\ (t # <<>> => Len(t) \in Nat \ {0}) /\ (t = <<>> => Len(t) = 0)
    BY LenProperties, EmptySeq
  <2>3. Len(t) = Len(q) - 1
    BY <1>2, <2>1
  <2> QED
    BY <1>1, <2>1, <2>2, <2>3
<1> QED
  BY <1>1, <1>2, <1>3

LEMMA AppendTo ==
  ASSUME NEW q \in Seq(Snapshots), NEW s \in Snapshots
  PROVE  /\ Append(q, s) \in Seq(Snapshots) /\ Append(q, s) # <<>>
         /\ Len(q) \in Nat /\ DOMAIN q = 1 .. Len(q) /\ DOMAIN Append(q, s) = 1 .. Len(q) + 1
         /\ Len(Append(q, s)) = Len(q) + 1
         /\ Append(q, s)[Len(q) + 1] = s /\ \A i \in 1 .. Len(q) : Append(q, s)[i] = q[i]
OBVIOUS

\* What is left of the list is in order, and ends with what the whole ended with.
LEMMA ChainTail ==
  ASSUME NEW b \in Snapshots \cup {None}, NEW q \in Seq(Snapshots), q # <<>>, Chain(b, q)
  PROVE  /\ Chain(b, Tail(q)) /\ Exists(Head(q)) /\ b < Head(q) /\ Head(q) \in Snapshots
         /\ \A i \in DOMAIN Tail(q) : Head(q) < Tail(q)[i] /\ Tail(q)[i] \in Snapshots
         /\ Newest(b, q) => snaps[Head(q)].data = latest \/ Tail(q) # <<>>
         /\ Newest(b, q) /\ Tail(q) # <<>> => \A c \in Snapshots \cup {None} : Newest(c, Tail(q))
<1> DEFINE r == Tail(q)
           n == Len(q)
<1>1. /\ n \in Nat \ {0} /\ DOMAIN q = 1 .. n
      /\ \A i \in 1 .. n : q[i] \in Snapshots
      /\ Head(q) = q[1] /\ r \in Seq(Snapshots)
      /\ Len(r) = n - 1 /\ DOMAIN r = 1 .. n - 1
      /\ \A i \in 1 .. n - 1 : r[i] = q[i + 1]
      /\ (r = <<>> <=> n = 1)
  BY TailOf
<1> HIDE DEF r, n
<1>2. /\ b # None => snaps[b].st = "done"
      /\ \A i \in 1 .. n : Exists(q[i]) /\ b < q[i] /\ \A k \in 1 .. (i - 1) : q[k] < q[i]
  BY <1>1 DEF Chain
<1>3. \A i \in 1 .. n - 1 : i + 1 \in 1 .. n /\ 1 \in 1 .. (i + 1) - 1 /\ q[1] < q[i + 1]
  BY <1>1, <1>2
<1>4. ASSUME NEW i \in 1 .. n - 1
      PROVE  Exists(r[i]) /\ b < r[i] /\ \A k \in 1 .. (i - 1) : r[k] < r[i]
  <2>1. r[i] = q[i + 1] /\ Exists(q[i + 1]) /\ b < q[i + 1]
    BY <1>1, <1>2, <1>3
  <2>2. ASSUME NEW k \in 1 .. (i - 1) PROVE r[k] < r[i]
    <3>1. k + 1 \in 1 .. (i + 1) - 1 /\ k \in 1 .. n - 1 /\ i + 1 \in 1 .. n
      BY <1>1
    <3>2. r[k] = q[k + 1] /\ q[k + 1] < q[i + 1]
      BY <1>1, <1>2, <3>1
    <3> QED
      BY <2>1, <3>2
  <2> QED
    BY <2>1, <2>2
<1>5. Chain(b, r)
  BY <1>1, <1>2, <1>4 DEF Chain
<1>6. Exists(q[1]) /\ b < q[1] /\ q[1] \in Snapshots
  BY <1>1, <1>2
<1>7. \A i \in 1 .. n - 1 : q[1] < r[i] /\ r[i] \in Snapshots
  BY <1>1, <1>3
<1>8. Newest(b, q) => snaps[q[n]].data = latest
  BY <1>1 DEF Newest, n
<1>9. r # <<>> => r[Len(r)] = q[n]
  BY <1>1
<1>10. Newest(b, q) /\ r # <<>> => \A c \in Snapshots \cup {None} : Newest(c, r)
  BY <1>8, <1>9 DEF Newest
<1> QED
  BY <1>1, <1>5, <1>6, <1>7, <1>8, <1>10 DEF r

\* And a list that a newer snapshot is added to.
LEMMA ChainAppend ==
  ASSUME NEW b \in Snapshots \cup {None}, NEW q \in Seq(Snapshots), NEW s \in Snapshots, Chain(b, q),
         Exists(s), b < s, \A i \in DOMAIN q : q[i] < s
  PROVE  Chain(b, Append(q, s))
<1> DEFINE r == Append(q, s)
<1>1. /\ Len(q) \in Nat /\ DOMAIN q = 1 .. Len(q) /\ DOMAIN r = 1 .. Len(q) + 1
      /\ r[Len(q) + 1] = s /\ \A i \in 1 .. Len(q) : r[i] = q[i]
  BY AppendTo
<1> HIDE DEF r
<1>2. ASSUME NEW i \in DOMAIN r
      PROVE  Exists(r[i]) /\ b < r[i] /\ \A k \in 1 .. (i - 1) : r[k] < r[i]
  <2>1. CASE i = Len(q) + 1
    BY <1>1, <2>1
  <2>2. CASE i \in DOMAIN q
    BY <1>1, <2>2 DEF Chain
  <2> QED
    BY <1>1, <2>1, <2>2
<1>3. Chain(b, r)
  BY <1>2 DEF Chain
<1> QED
  BY <1>3 DEF r

\* What the leader knows while it goes through the list.
LEMMA ScanFacts ==
  ASSUME IInv, Calm, hk.pc \in {"scan", "save"}
  PROVE  /\ hk \in Rounds /\ hk.todo \in Seq(Snapshots) /\ hk.incomplete \in Seq(Snapshots)
         /\ hk.base \in Snapshots \cup {None} /\ ~hk.stale /\ Mapped = {} /\ mounted = None
         /\ record # NoRecord /\ record.state = "detached"
         /\ Chain(hk.base, hk.todo) /\ Chain(hk.base, hk.incomplete)
         /\ hk.todo # <<>> => Newest(hk.base, hk.todo)
         /\ hk.todo = <<>> => Newest(hk.base, hk.incomplete)
<1>1. /\ hk \in Rounds /\ hk.todo \in Seq(Snapshots) /\ hk.incomplete \in Seq(Snapshots)
      /\ hk.base \in Snapshots \cup {None}
  BY RoundFields DEF IInv, TypeOK
<1>2. Scanning /\ record # NoRecord /\ record.state = "detached"
  BY DEF Calm, Leading
<1> QED
  BY <1>1, <1>2, LeaderAtWork DEF Scanning

\* A snapshot that is still pending is put with those to look at again.
LEMMA PendingCalm ==
  ASSUME IInv, Calm, hk.pc = "scan", hk.todo # <<>>, snaps[Head(hk.todo)].st = "pending",
         hk' = [hk EXCEPT !.todo = Tail(@), !.incomplete = Append(@, Head(hk.todo))],
         UNCHANGED <<cont, mounted, latest, vols, snaps, base, record, task>>
  PROVE  Calm'
<1> DEFINE q == hk.todo
           c == hk.incomplete
           b == hk.base
           s == Head(q)
           q2 == Tail(q)
           c2 == Append(c, s)
<1>1. /\ hk \in Rounds /\ q \in Seq(Snapshots) /\ c \in Seq(Snapshots) /\ b \in Snapshots \cup {None}
      /\ ~hk.stale /\ Mapped = {} /\ mounted = None /\ record # NoRecord /\ record.state = "detached"
      /\ Chain(b, q) /\ Chain(b, c) /\ Newest(b, q)
  BY ScanFacts
<1>2. /\ Chain(b, q2) /\ Exists(s) /\ b < s /\ s \in Snapshots
      /\ \A i \in DOMAIN q2 : s < q2[i] /\ q2[i] \in Snapshots
      /\ (snaps[s].data = latest \/ q2 # <<>>)
      /\ (q2 # <<>> => Newest(b, q2))
  BY <1>1, ChainTail
<1>3. /\ 1 \in DOMAIN q /\ q[1] = s /\ q2 \in Seq(Snapshots)
      /\ \A i \in DOMAIN q2 : i + 1 \in DOMAIN q /\ q2[i] = q[i + 1]
  BY <1>1, TailOf
<1>4. \A i \in DOMAIN c : /\ c[i] < s /\ snaps[c[i]].st = "pending" /\ c[i] \in Snapshots
                          /\ \A n \in DOMAIN q : c[i] < q[n]
  <2>1. \A i \in DOMAIN c : snaps[c[i]].st = "pending" /\ \A n \in DOMAIN q : c[i] < q[n]
    BY DEF Calm, Leading, Scanning
  <2>2. \A i \in DOMAIN c : c[i] \in Snapshots
    BY <1>1
  <2> QED
    BY <1>3, <2>1, <2>2
<1>5. Chain(b, c2)
  BY <1>1, <1>2, <1>4, ChainAppend
<1>6. /\ c2 \in Seq(Snapshots) /\ c2 # <<>> /\ Len(c2) = Len(c) + 1
      /\ Len(c) \in Nat /\ DOMAIN c = 1 .. Len(c) /\ DOMAIN c2 = 1 .. Len(c) + 1
      /\ c2[Len(c) + 1] = s /\ \A i \in 1 .. Len(c) : c2[i] = c[i]
  BY <1>1, <1>2, AppendTo
<1>7. \A i \in DOMAIN c2 : snaps[c2[i]].st = "pending" /\ \A n \in DOMAIN q2 : c2[i] < q2[n]
  <2>1. \A i \in DOMAIN c : snaps[c[i]].st = "pending" /\ \A n \in DOMAIN q2 : c[i] < q2[n]
    BY <1>3, <1>4
  <2> QED
    BY <1>2, <1>6, <2>1
<1>8. q2 = <<>> => Newest(b, c2)
  BY <1>2, <1>6 DEF Newest
<1>9. /\ hk'.pc = "scan" /\ hk'.todo = q2 /\ hk'.incomplete = c2 /\ hk'.base = b
      /\ hk'.stale = hk.stale /\ hk'.modified = hk.modified
  BY <1>1 DEF Rounds
<1> HIDE DEF q, c, b, s, q2, c2
<1>10. Scanning'
  <2>1. Chain(hk.base, hk.todo)' /\ Chain(hk.base, hk.incomplete)'
    BY <1>2, <1>5, <1>9 DEF Chain, Exists
  <2>2. \A i \in DOMAIN hk'.incomplete :
          /\ snaps'[hk'.incomplete[i]].st = "pending"
          /\ \A n \in DOMAIN hk'.todo : hk'.incomplete[i] < hk'.todo[n]
    BY <1>7, <1>9
  <2>3. IF hk'.todo = <<>> THEN Newest(hk.base, hk.incomplete)' ELSE Newest(hk.base, hk.todo)'
    BY <1>2, <1>8, <1>9 DEF Newest
  <2> QED
    BY <2>1, <2>2, <2>3 DEF Scanning
<1>11. InOrder' /\ Kept' /\ Mounts' /\ (Chain(base, record.snaps)' <=> Chain(base, record.snaps))
  BY SameData
<1>12. Leading'
  BY <1>1, <1>9, <1>10 DEF Leading, Calm, Newest, Mapped, b
<1>13. Listed'
  BY <1>9, <1>11 DEF Listed, Calm
<1> QED
  BY <1>1, <1>9, <1>11, <1>12, <1>13, LeaderCalm

\* A snapshot that is finished replaces the one to restore from: those before it are
\* finished too, so none is left to look at again.
LEMMA DoneCalm ==
  ASSUME IInv, Calm, hk.pc = "scan", hk.todo # <<>>, snaps[Head(hk.todo)].st = "done",
         snaps' = [x \in Snapshots |-> IF x = hk.base THEN [snaps[x] EXCEPT !.st = "deleted"] ELSE snaps[x]],
         hk' = [hk EXCEPT !.todo = Tail(@), !.base = Head(hk.todo), !.modified = TRUE],
         UNCHANGED <<cont, mounted, latest, vols, base, record, task>>
  PROVE  Calm'
<1> DEFINE q == hk.todo
           c == hk.incomplete
           b == hk.base
           s == Head(q)
           q2 == Tail(q)
<1>1. /\ hk \in Rounds /\ q \in Seq(Snapshots) /\ c \in Seq(Snapshots) /\ b \in Snapshots \cup {None}
      /\ ~hk.stale /\ Mapped = {} /\ mounted = None /\ record # NoRecord /\ record.state = "detached"
      /\ Chain(b, q) /\ Newest(b, q)
  BY ScanFacts
<1>2. /\ Chain(b, q2) /\ b < s /\ s \in Snapshots
      /\ \A i \in DOMAIN q2 : s < q2[i] /\ q2[i] \in Snapshots
      /\ (snaps[s].data = latest \/ q2 # <<>>)
      /\ (q2 # <<>> => Newest(s, q2))
  BY <1>1, ChainTail
<1>3. 1 \in DOMAIN q /\ q[1] = s /\ q2 \in Seq(Snapshots)
  BY <1>1, TailOf
<1>4. DOMAIN c = {}
  <2>1. SUFFICES ASSUME NEW i \in DOMAIN c PROVE FALSE
    OBVIOUS
  <2>2. snaps[c[i]].st = "pending" /\ c[i] < s
    BY <1>3 DEF Calm, Leading, Scanning
  <2>3. c[i] \in Snapshots
    BY <1>1
  <2>4. snaps[s].st = "done"
    OBVIOUS
  <2> HIDE DEF c, s
  <2> QED
    BY <1>2, <2>2, <2>3, <2>4 DEF Calm, InOrder
<1>5. c = <<>>
  <2>1. PICK e \in Seq(Snapshots) : e = c
    BY <1>1
  <2>2. DOMAIN e = 1 .. Len(e) /\ (e # <<>> => Len(e) \in Nat \ {0})
    BY EmptySeq, LenProperties
  <2>3. e # <<>> => 1 \in DOMAIN e
    BY <2>2
  <2> QED
    BY <1>4, <2>1, <2>3
<1>6. /\ hk'.pc = "scan" /\ hk'.todo = q2 /\ hk'.incomplete = c /\ hk'.base = s
      /\ hk'.stale = hk.stale /\ hk'.modified
  BY <1>1 DEF Rounds
<1>7. snaps[s].st = "done" /\ (b # None => snaps[b].st = "done")
  BY <1>1 DEF Chain
<1>8. /\ \A x \in Snapshots : x # b => snaps'[x] = snaps[x]
      /\ \A x \in Snapshots : x = b => snaps'[x] = [snaps[x] EXCEPT !.st = "deleted"]
  OBVIOUS
<1>9. \A x \in Snapshots : /\ x = b => snaps'[x].st = "deleted"
                           /\ snaps'[x].data = snaps[x].data
  <2> SUFFICES ASSUME NEW x \in Snapshots
               PROVE  (x = b => snaps'[x].st = "deleted") /\ snaps'[x].data = snaps[x].data
    OBVIOUS
  <2> HIDE DEF b
  <2>1. snaps[x] \in EC2Snapshots
    BY DEF IInv, TypeOK, EC2Snapshots
  <2>2. /\ [snaps[x] EXCEPT !.st = "deleted"].st = "deleted"
        /\ [snaps[x] EXCEPT !.st = "deleted"].data = snaps[x].data
    BY <2>1 DEF EC2Snapshots
  <2> QED
    BY <1>8, <2>2
<1>10. record.vol \in Volumes
  BY <1>1, RecordFields DEF IInv, TypeOK
<1> HIDE DEF q, c, b, s, q2
<1>11. snaps'[s] = snaps[s] /\ \A i \in DOMAIN q2 : snaps'[q2[i]] = snaps[q2[i]]
  <2>1. s \in Int /\ b \in Int /\ s # b
    BY <1>1, <1>2 DEF Snapshots, None
  <2>2. ASSUME NEW i \in DOMAIN q2 PROVE q2[i] \in Snapshots /\ q2[i] # b
    <3>1. q2[i] \in Snapshots /\ s < q2[i] /\ q2[i] \in Int
      BY <1>2 DEF Snapshots
    <3> QED
      BY <1>2, <2>1, <3>1
  <2> QED
    BY <1>2, <1>8, <2>1, <2>2
<1>12. Scanning'
  <2>1. Chain(hk.base, hk.todo)'
    <3>1. hk'.base # None => snaps'[hk'.base].st = "done"
      BY <1>6, <1>7, <1>11
    <3>2. \A i \in DOMAIN q2 : Exists(q2[i]) /\ \A k \in 1 .. (i - 1) : q2[k] < q2[i]
      BY <1>2 DEF Chain
    <3> QED
      BY <1>2, <1>6, <1>11, <3>1, <3>2 DEF Chain, Exists
  <2>2. Chain(hk.base, hk.incomplete)'
    BY <1>4, <1>6, <1>7, <1>11 DEF Chain
  <2>3. IF hk'.todo = <<>> THEN Newest(hk.base, hk.incomplete)' ELSE Newest(hk.base, hk.todo)'
    <3>1. CASE q2 = <<>>
      <4>1. s # None
        BY <1>2, NoneIsNot
      <4> QED
        BY <1>2, <1>5, <1>6, <1>11, <3>1, <4>1 DEF Newest
    <3>2. CASE q2 # <<>>
      <4>1. q2[Len(q2)] \in Snapshots
        BY <1>3, <3>2, TailOf
      <4>2. snaps[q2[Len(q2)]].data = latest
        BY <1>2, <3>2 DEF Newest
      <4> QED
        BY <1>6, <1>9, <3>2, <4>1, <4>2 DEF Newest
    <3> QED
      BY <1>6, <3>1, <3>2
  <2> QED
    BY <1>4, <1>6, <2>1, <2>2, <2>3 DEF Scanning
<1>13. Kept' /\ Mounts'
  BY <1>1 DEF Calm, Kept, Mounts
<1>14. InOrder'
  <2> SUFFICES ASSUME NEW r \in Snapshots, NEW u \in Snapshots, r < u
               PROVE  /\ snaps'[r].st = "no" => snaps'[u].st = "no"
                      /\ snaps'[r].st = "pending" => snaps'[u].st \in {"no", "pending"}
    BY DEF InOrder
  <2>1. /\ snaps[r].st = "no" => snaps[u].st = "no"
        /\ snaps[r].st = "pending" => snaps[u].st \in {"no", "pending"}
    BY DEF Calm, InOrder
  <2>2. CASE r = b
    BY <1>9, <2>2
  <2>3. CASE u = b
    BY <1>7, <1>8, <2>1, <2>3, NoneIsNot DEF Snapshots
  <2>4. CASE r # b /\ u # b
    BY <1>8, <2>1, <2>4
  <2> QED
    BY <2>2, <2>3, <2>4
<1>15. Leading' /\ Listed'
  BY <1>1, <1>6, <1>12 DEF Leading, Listed, Mapped
<1> QED
  BY <1>1, <1>6, <1>13, <1>14, <1>15, LeaderCalm

LEMMA UpdateSnapshotCalm ==
  ASSUME IInv, Calm, update_snapshot
  PROVE  Calm'
<1> USE DEF ec2, disk
<1>1. /\ UNCHANGED <<cont, mounted, latest, vols, base, record, task>>
      /\ hk.pc = "scan" /\ hk.todo # <<>>
  BY DEF update_snapshot
<1>2. Chain(hk.base, hk.todo) /\ hk.todo \in Seq(Snapshots) /\ hk.base \in Snapshots \cup {None}
  BY <1>1, ScanFacts
<1>3. Exists(Head(hk.todo)) /\ (hk.base # None => Exists(hk.base))
  <2>1. PICK q \in Seq(Snapshots), b \in Snapshots \cup {None} : q = hk.todo /\ b = hk.base
    BY <1>2
  <2>2. Exists(Head(q))
    BY <1>1, <1>2, <2>1, ChainTail
  <2>3. b # None => Exists(b)
    BY <1>2, <2>1 DEF Chain, Exists
  <2> QED
    BY <2>1, <2>2, <2>3
<1>4. \/ /\ snaps[Head(hk.todo)].st = "pending"
         /\ hk' = [hk EXCEPT !.todo = Tail(@), !.incomplete = Append(@, Head(hk.todo))]
         /\ UNCHANGED snaps
      \/ /\ snaps[Head(hk.todo)].st = "done"
         /\ snaps' = [x \in Snapshots |-> IF x = hk.base THEN [snaps[x] EXCEPT !.st = "deleted"] ELSE snaps[x]]
         /\ hk' = [hk EXCEPT !.todo = Tail(@), !.base = Head(hk.todo), !.modified = TRUE]
  BY <1>3 DEF update_snapshot
<1> QED
  BY <1>1, <1>4, PendingCalm, DoneCalm

LEMMA SaveSessCalm ==
  ASSUME IInv, Calm, save_sess_props
  PROVE  Calm'
<1> USE DEF ec2, disk
<1>1. /\ UNCHANGED <<cont, mounted, latest, vols, snaps, record, task>> /\ base' = hk.base
      /\ hk.pc = "scan" /\ hk.todo = <<>> /\ hk' = [hk EXCEPT !.pc = "save"]
  BY DEF save_sess_props
<1>2. /\ hk \in Rounds /\ hk.incomplete \in Seq(Snapshots)
      /\ ~hk.stale /\ Mapped = {} /\ mounted = None
      /\ record # NoRecord /\ record.state = "detached"
      /\ Chain(hk.base, hk.todo) /\ Chain(hk.base, hk.incomplete)
      /\ Newest(hk.base, hk.incomplete)
  BY <1>1, ScanFacts
<1>3. /\ hk'.pc = "save" /\ hk'.todo = hk.todo /\ hk'.incomplete = hk.incomplete /\ hk'.base = hk.base
      /\ hk'.stale = hk.stale
  BY <1>1, <1>2 DEF Rounds
<1>4. Scanning'
  BY <1>1, <1>2, <1>3 DEF Scanning, Chain, Exists, Newest
<1>5. Leading' /\ Listed'
  BY <1>1, <1>2, <1>3, <1>4 DEF Leading, Listed, Mapped
<1>6. InOrder' /\ Kept' /\ Mounts'
  BY <1>1, <1>2, SameSnapshots DEF Kept, Mounts, Calm
<1> QED
  BY <1>1, <1>2, <1>3, <1>5, <1>6, LeaderCalm

\* No task holds a copy of the record: none becomes stale.
LEMMA NoCopies ==
  ASSUME \A t \in Tasks : task[t] = Idle,
         task' = [x \in Tasks |-> [task[x] EXCEPT !.stale = task[x].seen # NoRecord]]
  PROVE  \A t \in Tasks : task'[t] = task[t]
<1>1. [Idle EXCEPT !.stale = Idle.seen # NoRecord] = Idle
  BY IdleJob, NotStale
<1>2. \A t \in Tasks : task'[t] = [task[t] EXCEPT !.stale = task[t].seen # NoRecord]
  OBVIOUS
<1> QED
  BY <1>1, <1>2

LEMMA SaveIncompleteCalm ==
  ASSUME IInv, Calm, save_incomplete
  PROVE  Calm'
<1> USE DEF ec2, disk
<1>1. UNCHANGED <<cont, mounted, latest, vols, snaps, base>> /\ hk.pc = "save"
  BY DEF save_incomplete
<1>2. /\ hk \in Rounds /\ hk.incomplete \in Seq(Snapshots)
      /\ ~hk.stale /\ Mapped = {} /\ mounted = None
      /\ record # NoRecord /\ record.state = "detached"
      /\ hk.todo = <<>> /\ base = hk.base
      /\ Chain(hk.base, hk.todo) /\ Chain(hk.base, hk.incomplete)
      /\ Newest(hk.base, hk.incomplete)
  BY <1>1, ScanFacts DEF Calm, Leading
<1> DEFINE rec == [record EXCEPT !.snaps = hk.incomplete]
           h == [hk EXCEPT !.pc = "scan", !.seen = rec, !.modified = FALSE]
<1>3. /\ record' = rec /\ hk' = h
      /\ task' = [x \in Tasks |-> [task[x] EXCEPT !.stale = task[x].seen # NoRecord]]
  BY <1>2 DEF save_incomplete
<1>4. record \in Records
  BY <1>2 DEF IInv, TypeOK
<1>5. /\ rec \in Records /\ rec.vol = record.vol /\ rec.snaps = hk.incomplete /\ rec.state = "detached"
  BY <1>2, <1>4 DEF Records
<1>6. rec # NoRecord
  BY <1>5, RecordFields
<1> HIDE DEF rec
<1>7. /\ h.pc = "scan" /\ h.todo = hk.todo /\ h.incomplete = hk.incomplete /\ h.base = hk.base
      /\ h.stale = hk.stale /\ ~h.modified
  BY <1>2 DEF Rounds
<1> HIDE DEF h
<1>8. \A t \in Tasks : task'[t] = task[t]
  BY <1>1, <1>3, LeaderAtWork, NoCopies
<1>9. Scanning'
  BY <1>1, <1>2, <1>3, <1>7 DEF Scanning, Chain, Exists, Newest
<1>10. Newest(base, record.snaps)' /\ Chain(base, record.snaps)'
  BY <1>1, <1>2, <1>3, <1>5 DEF Chain, Exists, Newest
<1>11. Leading' /\ Listed'
  BY <1>1, <1>2, <1>3, <1>5, <1>6, <1>7, <1>9, <1>10 DEF Leading, Listed, Mapped
<1>12. InOrder' /\ Kept' /\ Mounts'
  BY <1>1, <1>2, <1>3, <1>5, <1>6, SameSnapshots DEF Kept, Mounts, Calm
<1> QED
  BY <1>1, <1>2, <1>3, <1>7, <1>8, <1>11, <1>12, LeaderCalm

LEMMA KeepDiskCalm ==
  ASSUME IInv, Calm, keep_disk
  PROVE  Calm'
<1>1. /\ UNCHANGED <<cont, mounted, latest, vols, snaps, base, record, task>> /\ rest
      /\ hk.pc = "scan" /\ ~hk.modified
  BY DEF keep_disk, Scanned, ec2, disk
<1>2. Put /\ Chain(base, record.snaps)
  BY <1>1 DEF Calm, Leading, Listed, Put
<1> QED
  BY <1>1, <1>2, RestsCalm

\* The record goes when the snapshot to restore from has the last edit.
LEMMA DeleteInfoCalm ==
  ASSUME IInv, Calm, delete_disk_info
  PROVE  Calm'
<1> USE DEF ec2, disk
<1>1. /\ UNCHANGED <<cont, mounted, latest, vols, snaps, base>> /\ record' = NoRecord
      /\ hk.pc = "scan" /\ hk.todo = <<>> /\ ~hk.modified /\ hk.incomplete = <<>>
      /\ hk' = [hk EXCEPT !.pc = "delete"]
      /\ task' = [x \in Tasks |-> [task[x] EXCEPT !.stale = task[x].seen # NoRecord]]
  BY DEF delete_disk_info, Scanned, Unused
<1>2. /\ hk \in Rounds /\ ~hk.stale /\ Mapped = {} /\ mounted = None
      /\ base = hk.base /\ Newest(hk.base, hk.incomplete) /\ Chain(base, record.snaps)
  BY <1>1, ScanFacts DEF Calm, Leading, Listed
<1>3. base # None /\ snaps[base].data = latest /\ snaps[base].st = "done"
  BY <1>1, <1>2 DEF Newest, Chain
<1>4. hk'.pc = "delete" /\ hk'.stale = hk.stale
  BY <1>1, <1>2, RoundGoes
<1>5. \A t \in Tasks : task'[t] = task[t]
  BY <1>1, LeaderAtWork, NoCopies
<1>6. record'.snaps = <<>>
  BY <1>1 DEF NoRecord
<1>7. Chain(base, record.snaps)'
  BY <1>1, <1>3, <1>6 DEF Chain
<1>8. Leading' /\ Listed'
  BY <1>1, <1>2, <1>4, <1>7 DEF Leading, Listed, Mapped
<1>9. InOrder' /\ Kept' /\ Mounts'
  BY <1>1, <1>2, <1>3, SameSnapshots DEF Kept, Mounts
<1> QED
  BY <1>1, <1>2, <1>4, <1>5, <1>8, <1>9, LeaderCalm

LEMMA DeleteVolumeCalm ==
  ASSUME IInv, Calm, delete_volume
  PROVE  Calm'
<1> USE DEF ec2, disk
<1>1. /\ UNCHANGED <<cont, latest, snaps, base, record, task>> /\ TypeOK
      /\ hk.pc = "delete" /\ hk' = Resting
  BY DEF delete_volume, rest, IInv
<1>2. Mapped = {} /\ mounted = None /\ record = NoRecord /\ Chain(base, record.snaps)
  BY <1>1, LeaderAtWork DEF Calm, Leading, Listed
<1>3. mounted' = None
  BY <1>2 DEF delete_volume
<1>4. hk.seen # NoRecord /\ hk.seen \in Records
  BY <1>1, RoundFields DEF IInv, Fetched, TypeOK
<1>5. PICK v \in Volumes : v = hk.seen.vol
  BY <1>4, RecordFields
<1> DEFINE r == [vols[v] EXCEPT !.st = "deleted", !.dev = None]
<1>6. vols[v] \in EC2Volumes
  BY <1>1 DEF TypeOK, EC2Volumes
<1>7. r \in EC2Volumes /\ r.st = "deleted"
  BY <1>6 DEF EC2Volumes
<1>8. vols' = [vols EXCEPT ![v] = r]
  BY <1>5 DEF delete_volume
<1> HIDE DEF r
<1>9. vols'[v] = r /\ \A x \in Volumes : x # v => vols'[x] = vols[x]
  BY <1>1, <1>7, <1>8, OneVolume
<1>10. Mapped' = {}
  BY <1>2, <1>7, <1>9 DEF Mapped
<1>11. Put' /\ InOrder' /\ Kept' /\ Mounts' /\ Chain(base, record.snaps)'
  BY <1>1, <1>2, <1>3, <1>10, SameSnapshots DEF Put, Kept, Mounts, Calm, Chain, Exists
<1>12. hk'.pc = "idle" /\ ~hk'.stale
  BY <1>1, RestingRound
<1>13. Leading' /\ Listed'
  BY <1>11, <1>12 DEF Leading, Listed
<1> QED
  BY <1>1, <1>11, <1>12, <1>13, LeaderCalm

-----------------------------------------------------------------------------
(* What happens around the threads, undisturbed.                           *)

LEMMA SessionCalm ==
  ASSUME IInv, Calm, refresh_disk_use_status \/ session_starts \/ container_exits
  PROVE  Calm'
<1>1. /\ UNCHANGED <<latest, vols, snaps, record, base, task, hk>>
      /\ mounted' = None \/ (mounted' = mounted /\ cont' = cont) \/ (mounted' = mounted /\ cont # "running")
  BY DEF refresh_disk_use_status, session_starts, container_exits, ec2, disk
<1>2. Held' <=> Held
  BY <1>1 DEF Held, Mapped
<1>3. Put' <=> Put
  BY <1>1 DEF Put, Mapped, Newest
<1>4. Chain(base, record.snaps)' <=> Chain(base, record.snaps)
  BY <1>1 DEF Chain, Exists
<1>5. Mounts' /\ (mounted = None => mounted' = None)
  BY <1>1, <1>2 DEF Calm, Mounts
<1>6. InOrder' /\ Kept' /\ Alone'
  BY <1>1, SameSnapshots DEF Calm, Kept, Alone
<1>7. Attaching'
  BY <1>1, <1>2, <1>3, <1>5 DEF Calm, Attaching, attach, Mapped
<1>8. ASSUME NEW t \in Releasers PROVE Detaching(t)'
  <2>1. Saved(task[t].snap)' <=> Saved(task[t].snap)
    BY <1>1 DEF Saved, Exists
  <2>2. Detaching(t)
    BY DEF Calm
  <2>3. Mapped' = Mapped
    BY <1>1 DEF Mapped
  <2> QED
    BY <1>1, <1>2, <1>3, <1>5, <2>1, <2>2, <2>3 DEF Detaching
<1>9. Scanning' <=> Scanning
  BY <1>1 DEF Scanning, Chain, Exists, Newest
<1>10. Leading'
  BY <1>1, <1>3, <1>9 DEF Calm, Leading, Mapped, Newest
<1>11. Listed' /\ Between'
  BY <1>1, <1>2, <1>3, <1>4 DEF Calm, Listed, Between
<1> QED
  BY <1>5, <1>6, <1>7, <1>8, <1>10, <1>11 DEF Calm

\* An edit goes to the volume that is mounted, which is the recorded one.
LEMMA WriteCalmly ==
  ASSUME IInv, Calm, session_writes
  PROVE  Calm'
<1> USE DEF ec2, disk
<1> DEFINE v == record.vol
           r == [vols[v] EXCEPT !.data = latest + 1]
<1>1. /\ UNCHANGED <<cont, mounted, snaps, record, base, task, hk>> /\ mounted # None
      /\ TypeOK /\ latest \in Nat /\ latest' = latest + 1
  BY DEF session_writes, IInv, TypeOK
<1>2. Held /\ mounted = v /\ cont = "running"
  BY <1>1 DEF Calm, Mounts
<1>3. v \in Volumes /\ record # NoRecord
  BY <1>1, <1>2, RecordFields DEF TypeOK, Held
<1>4. vols' = [vols EXCEPT ![v] = r]
  BY <1>2 DEF session_writes
<1>5. vols[v] \in EC2Volumes
  BY <1>1, <1>3 DEF TypeOK, EC2Volumes
<1>6. r.data = latest + 1 /\ r.st = vols[v].st /\ r.dev = vols[v].dev
  BY <1>5 DEF EC2Volumes
<1> HIDE DEF r
<1>7. vols'[v] = r /\ \A x \in Volumes : x # v => vols'[x] = vols[x]
  BY <1>1, <1>3, <1>4 DEF TypeOK
<1>8. \A x \in Volumes : vols'[x].st = vols[x].st /\ vols'[x].dev = vols[x].dev
  BY <1>3, <1>6, <1>7
<1>9. Mapped' = Mapped /\ Mapped # {}
  BY <1>2, <1>8 DEF Mapped, Held
<1>10. Held' /\ InOrder' /\ Kept' /\ Mounts'
  BY <1>1, <1>2, <1>3, <1>6, <1>7, <1>9, SameSnapshots DEF Held, Kept, Mounts
<1>11. hk.pc = "idle" /\ ~Put
  BY <1>9 DEF Calm, Leading, Put
<1>12. Alone'
  BY <1>1 DEF Calm, Alone
<1>13. Attaching'
  BY <1>1, <1>10, <1>11 DEF Calm, Attaching, attach
<1>14. ASSUME NEW t \in Releasers PROVE Detaching(t)'
  <2>1. task[t].pc = "look" \/ task[t].pc \notin {"look", "release", "backup", "detach", "detached", "remove"}
    BY <1>1 DEF Calm, Detaching
  <2>2. task[t].pc = "look" => task[t].dev = vols[v].dev
    BY DEF Calm, Detaching
  <2> QED
    BY <1>1, <1>3, <1>8, <1>10, <2>1, <2>2 DEF Detaching
<1>15. Leading'
  BY <1>1, <1>11 DEF Leading
<1>16. Chain(base, record.snaps)'
  BY <1>1, <1>11 DEF Calm, Listed, Chain, Exists
<1>17. Listed' /\ Between'
  BY <1>10, <1>16 DEF Listed, Between
<1> QED
  BY <1>10, <1>12, <1>13, <1>14, <1>15, <1>17 DEF Calm

\* A list stays in order when one of its snapshots finishes.
LEMMA ChainFinishes ==
  ASSUME NEW b \in Snapshots \cup {None}, NEW q \in Seq(Snapshots),
         \A x \in Snapshots : /\ Exists(x) => Exists(x)'
                              /\ snaps[x].st = "done" => snaps'[x].st = "done"
                              /\ snaps'[x].data = snaps[x].data,
         latest' = latest
  PROVE  (Chain(b, q) => Chain(b, q)') /\ (Newest(b, q) <=> Newest(b, q)')
<1>1. DOMAIN q = 1 .. Len(q) /\ \A i \in DOMAIN q : q[i] \in Snapshots
  BY LenProperties, ElementOfSeq
<1>2. q # <<>> => q[Len(q)] \in Snapshots
  BY TailOf
<1> QED
  BY <1>1, <1>2 DEF Chain, Newest

LEMMA SnapshotCalm ==
  ASSUME IInv, Calm, snapshot_completes, disturbed' = 0
  PROVE  Calm'
<1> USE DEF ec2, disk
<1>1. /\ UNCHANGED <<cont, mounted, latest, vols, record, base, task, hk>> /\ TypeOK
      /\ hk.pc # "scan"
  BY DEF snapshot_completes, disturb, IInv, TypeOK
<1>2. PICK s \in Snapshots : /\ snaps[s].st = "pending" /\ \A r \in 1 .. (s - 1) : snaps[r].st # "pending"
                             /\ snaps' = [snaps EXCEPT ![s] = [@ EXCEPT !.st = "done"]]
  BY DEF snapshot_completes
<1> DEFINE n == [snaps[s] EXCEPT !.st = "done"]
<1>3. n.st = "done" /\ n.data = snaps[s].data
  BY <1>1 DEF TypeOK
<1>4. snaps' = [snaps EXCEPT ![s] = n]
  BY <1>2
<1> HIDE DEF n
<1>5. snaps'[s] = n /\ \A x \in Snapshots : x # s => snaps'[x] = snaps[x]
  BY <1>1, <1>4 DEF TypeOK
<1>6. \A x \in Snapshots : /\ Exists(x) => Exists(x)'
                           /\ snaps[x].st = "done" => snaps'[x].st = "done"
                           /\ snaps'[x].data = snaps[x].data
  BY <1>3, <1>5 DEF Exists
<1>7. PICK b \in Snapshots \cup {None} : b = base
  BY <1>1 DEF TypeOK
<1>8. PICK q \in Seq(Snapshots) : q = record.snaps
  <2>1. NoRecord.snaps = <<>>
    BY DEF NoRecord
  <2>2. record.snaps \in Seq(Snapshots)
    BY <1>1, <2>1, RecordFields, EmptySeq DEF TypeOK
  <2> QED
    BY <2>2
<1>9. (Chain(b, q) => Chain(b, q)') /\ (Newest(b, q) <=> Newest(b, q)')
  BY <1>1, <1>6, ChainFinishes
<1>10. /\ Chain(base, record.snaps) => Chain(base, record.snaps)'
       /\ Newest(base, record.snaps) <=> Newest(base, record.snaps)'
  BY <1>1, <1>7, <1>8, <1>9 DEF Chain, Newest, Exists
<1>11. (Held' <=> Held) /\ Mapped' = Mapped
  BY <1>1 DEF Held, Mapped
<1>12. Put' <=> Put
  BY <1>1, <1>10, <1>11 DEF Put
<1>13. Mounts' /\ Alone'
  BY <1>1, <1>11 DEF Calm, Mounts, Alone
<1>14. Kept'
  BY <1>1, <1>6, <1>7 DEF Calm, Kept
<1>15. InOrder'
  <2> SUFFICES ASSUME NEW r \in Snapshots, NEW u \in Snapshots, r < u
               PROVE  /\ snaps'[r].st = "no" => snaps'[u].st = "no"
                      /\ snaps'[r].st = "pending" => snaps'[u].st \in {"no", "pending"}
    BY DEF InOrder
  <2>1. /\ snaps[r].st = "no" => snaps[u].st = "no"
        /\ snaps[r].st = "pending" => snaps[u].st \in {"no", "pending"}
    BY DEF Calm, InOrder
  <2>2. u = s => snaps[r].st # "pending"
    BY <1>2 DEF Snapshots
  <2> QED
    BY <1>2, <1>3, <1>5, <2>1, <2>2
<1>16. Attaching'
  BY <1>1, <1>11, <1>12 DEF Calm, Attaching, attach
<1>17. ASSUME NEW t \in Releasers PROVE Detaching(t)'
  <2>1. task[t] \in Jobs
    BY <1>1, Attaches DEF TypeOK
  <2>2. Saved(task[t].snap) => Saved(task[t].snap)'
    BY <1>1, <1>6, <2>1, JobFields DEF Saved
  <2> QED
    BY <1>1, <1>11, <1>12, <2>2 DEF Calm, Detaching
<1>18. Leading'
  <2>1. CASE hk.pc = "save"
    <3>1. /\ hk.base \in Snapshots \cup {None} /\ hk.todo = <<>> /\ hk.incomplete \in Seq(Snapshots)
          /\ hk.todo \in Seq(Snapshots)
          /\ Chain(hk.base, hk.todo) /\ Chain(hk.base, hk.incomplete) /\ Newest(hk.base, hk.incomplete)
      BY <2>1, ScanFacts DEF Calm, Leading
    <3>2. PICK c \in Snapshots \cup {None}, i \in Seq(Snapshots), d \in Seq(Snapshots) :
            c = hk.base /\ i = hk.incomplete /\ d = hk.todo
      BY <3>1
    <3>3. Chain(c, i)' /\ Newest(c, i)' /\ Chain(c, d)'
      BY <1>1, <1>6, <3>1, <3>2, ChainFinishes
    <3>4. Chain(hk.base, hk.incomplete)' /\ Newest(hk.base, hk.incomplete)' /\ Chain(hk.base, hk.todo)'
      BY <1>1, <3>2, <3>3 DEF Chain, Newest, Exists
    <3>5. Scanning'
      BY <1>1, <3>1, <3>4 DEF Scanning
    <3> QED
      BY <1>1, <1>11, <2>1, <3>5 DEF Calm, Leading
  <2>2. CASE hk.pc # "save"
    BY <1>1, <1>11, <1>12, <2>2 DEF Calm, Leading
  <2> QED
    BY <2>1, <2>2
<1>19. Listed' /\ Between'
  BY <1>1, <1>10, <1>11, <1>12 DEF Calm, Listed, Between
<1> QED
  BY <1>13, <1>14, <1>15, <1>16, <1>17, <1>18, <1>19 DEF Calm

LEMMA DayCalm ==
  ASSUME IInv, Calm, day_passes
  PROVE  Calm'
<1> USE DEF ec2, disk
<1>1. /\ UNCHANGED <<cont, mounted, latest, vols, snaps, base, task, hk>>
      /\ record \in Records /\ record' = [record EXCEPT !.old = TRUE]
  BY DEF day_passes, IInv, TypeOK
<1>2. /\ record' \in Records /\ record'.vol = record.vol /\ record'.snaps = record.snaps
      /\ record'.state = record.state
  BY <1>1 DEF Records
<1>3. record # NoRecord /\ record' # NoRecord
  BY <1>1, <1>2, RecordFields
<1>4. (Held' <=> Held) /\ Mapped' = Mapped
  BY <1>1, <1>2, <1>3 DEF Held, Mapped
<1>5. /\ Newest(base, record.snaps)' <=> Newest(base, record.snaps)
      /\ Chain(base, record.snaps)' <=> Chain(base, record.snaps)
  BY <1>1, <1>2 DEF Newest, Chain, Exists
<1>6. Put' <=> Put
  BY <1>2, <1>3, <1>4, <1>5 DEF Put
<1>7. InOrder' /\ Kept' /\ Mounts' /\ Alone'
  BY <1>1, <1>2, <1>3, <1>4, SameSnapshots DEF Calm, Kept, Mounts, Alone
<1>8. Attaching'
  BY <1>1, <1>2, <1>3, <1>4, <1>6 DEF Calm, Attaching, attach
<1>9. ASSUME NEW t \in Releasers PROVE Detaching(t)'
  <2>1. Saved(task[t].snap)' <=> Saved(task[t].snap)
    BY <1>1, <1>2 DEF Saved, Exists
  <2>2. Detaching(t)
    BY DEF Calm
  <2> QED
    BY <1>1, <1>2, <1>3, <1>4, <1>6, <2>1, <2>2 DEF Detaching
<1>10. Scanning' <=> Scanning
  BY <1>1 DEF Scanning, Chain, Exists, Newest
<1>11. Leading'
  BY <1>1, <1>2, <1>3, <1>4, <1>5, <1>6, <1>10 DEF Calm, Leading
<1>12. Listed' /\ Between'
  BY <1>1, <1>4, <1>5, <1>6 DEF Calm, Listed, Between
<1> QED
  BY <1>7, <1>8, <1>9, <1>11, <1>12 DEF Calm

-----------------------------------------------------------------------------
(* The last edit is kept.                                                  *)

LEMMA StaysCalm ==
  ASSUME IInv, Calm, disturbed' = 0, [Next]_vars
  PROVE  Calm'
<1>1. CASE UNCHANGED vars
  BY <1>1 DEF vars, ec2, disk, Calm, Alone, InOrder, Kept, Mounts, Attaching, attach, Leading, Listed,
     Between, Detaching, Saved, Scanning, Chain, Exists, Newest, Held, Put, Mapped
<1>2. CASE do_cluster_housekeeping
  BY <1>2, ListCalm, FetchCalm, UpdateSnapshotCalm, SaveSessCalm, SaveIncompleteCalm, KeepDiskCalm,
     DeleteInfoCalm, DeleteVolumeCalm DEF do_cluster_housekeeping
<1>3. ASSUME NEW t \in Releasers, release(t) PROVE Calm'
  BY <1>3, SaveDetachingCalm, BackupCalm, DetachVolumeCalm, SaveDetachedCalm DEF release
<1>4. ~fail
  BY DEF fail, disturb, IInv, TypeOK
<1> QED
  BY <1>1, <1>2, <1>3, <1>4, SessionCalm, AttachStartCalm, ReserveCalm, CreateCalm, AttachVolumeCalm,
     SaveAttachingCalm, MountCalm, SaveAttachedCalm, DetachStartCalm, CleanupCalm, RemoveCalm,
     NodeStartCalm, OrphanedCalm, WriteCalmly, SnapshotCalm, DayCalm DEF Next

\* What got in the way is never forgotten.
LEMMA NeverForgotten ==
  ASSUME IInv, [Next]_vars, disturbed' = 0
  PROVE  disturbed = 0
<1>1. disturbed \in Nat
  BY DEF IInv, TypeOK
<1>2. disturbed' = disturbed \/ disturbed' = disturbed + 1
  <2>1. CASE UNCHANGED vars
    BY <2>1 DEF vars
  <2>2. CASE do_cluster_housekeeping
    BY <1>1, <2>2 DEF do_cluster_housekeeping, get_detached_disks, fetch_disk, update_snapshot, save_sess_props,
       save_incomplete, keep_disk, delete_disk_info, delete_volume, disturb
  <2>3. ASSUME NEW t \in Releasers, release(t) PROVE disturbed' = disturbed
    BY <2>3 DEF release, save_detaching, backup, detach_volume, save_detached
  <2>4. CASE \/ refresh_disk_use_status \/ reserve_disk_id \/ create_new_volume \/ attach_volume \/ save_attaching
             \/ mount_host_device \/ save_attached \/ remove_container \/ orphaned
             \/ session_starts \/ container_exits \/ session_writes \/ day_passes
    BY <2>4 DEF refresh_disk_use_status, reserve_disk_id, create_new_volume, attach_volume, save_attaching,
       mount_host_device, save_attached, remove_container, orphaned, session_starts, container_exits,
       session_writes, day_passes
  <2>5. CASE do_task_attach \/ do_task_detach \/ do_node_housekeeping \/ snapshot_completes \/ fail
    <3>1. PICK happens : disturb(happens)
      BY <2>5, Zenon DEF do_task_attach, do_task_detach, do_node_housekeeping, snapshot_completes, fail, Start
    <3> QED
      BY <1>1, <3>1 DEF disturb
  <2>6. CASE before_delete
    <3>1. PICK happens : disturb(happens)
      BY <2>6, Zenon DEF before_delete
    <3> QED
      BY <1>1, <3>1 DEF disturb
  <2> QED
    BY <2>1, <2>2, <2>3, <2>4, <2>5, <2>6 DEF Next
<1> QED
  BY <1>1, <1>2

Undisturbed == disturbed = 0 => Calm

LEMMA InitiallyCalm == Init => Calm
<1> SUFFICES ASSUME Init PROVE Calm
  OBVIOUS
<1>1. /\ Idle.pc = "idle" /\ ~Idle.stale /\ Idle.backup /\ Resting.pc = "idle" /\ ~Resting.stale
      /\ NoRecord.snaps = <<>>
  BY IdleJob, RestingRound DEF Idle, NoRecord
<1>2. \A t \in Tasks : task[t] = Idle
  BY DEF Init
<1>3. Mapped = {}
  BY DEF Init, Mapped
<1>4. Alone
  BY <1>1, <1>2 DEF Init, Alone
<1>5. InOrder /\ Kept /\ Mounts
  BY DEF Init, InOrder, Kept, Mounts
<1>6. Put /\ Chain(base, record.snaps)
  BY <1>1, <1>3 DEF Init, Put, Chain
<1>7. Attaching
  BY <1>1, <1>2, Attaches DEF Attaching, attach
<1>8. ASSUME NEW t \in Releasers PROVE Detaching(t)
  BY <1>1, <1>2, Attaches DEF Detaching
<1>9. Leading /\ Listed /\ Between
  BY <1>1, <1>6 DEF Init, Leading, Listed, Between
<1> QED
  BY <1>4, <1>5, <1>6, <1>7, <1>8, <1>9 DEF Calm

LEMMA InvariantCalm == Spec => []Undisturbed
<1>1. Init => Undisturbed
  BY InitiallyCalm DEF Undisturbed
<1>2. IInv /\ Undisturbed /\ [Next]_vars => Undisturbed'
  BY StaysCalm, NeverForgotten DEF Undisturbed
<1> QED
  BY <1>1, <1>2, Invariant, PTL DEF Spec

\* If nothing gets in the way, the user's last edit is what the next session gets, at
\* every step of attaching, releasing and housekeeping.
THEOREM LastEditKept == Spec => []LatestKept
<1>1. IInv /\ Undisturbed => LatestKept
  <2> SUFFICES ASSUME IInv, Undisturbed, disturbed = 0, task["attach"].pc = "idle"
               PROVE  Restored = latest
    BY DEF LatestKept
  <2>1. Calm
    BY DEF Undisturbed
  <2>2. record = NoRecord /\ base # None => Exists(base)
    <3>1. record = NoRecord => Chain(base, record.snaps)
      BY <2>1 DEF Calm, Leading, Listed
    <3> QED
      BY <3>1 DEF Chain, Exists
  <2> QED
    BY <2>1, <2>2 DEF Calm, Kept, Restored
<1> QED
  BY <1>1, Invariant, InvariantCalm, PTL

=============================================================================
