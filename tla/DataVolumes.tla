---------------------------- MODULE DataVolumes ----------------------------
(***************************************************************************)
(* The EBS data volume of one user (plugins/vol_ebs): the tasks that       *)
(* attach it to a running session and detach it again, the cleanup of the  *)
(* session, the housekeeping of the instance, which releases volumes whose *)
(* session is gone, and the housekeeping of the leader, which turns        *)
(* finished snapshots into the one to restore from and deletes the volume  *)
(* a day after its last use.                                               *)
(*                                                                         *)
(* The disk state is a DynamoDB record.  boto saves a fetched record only  *)
(* if it is still as it was fetched, and raises otherwise; deleting one    *)
(* has no such condition.  A fetch and the save right after it are one     *)
(* step.  An exception ends the task it happens in.                        *)
(***************************************************************************)
EXTENDS Integers, Sequences, FiniteSets, FiniteSetsExt

CONSTANTS
  MAX_DISKS,
  MaxVolumes, MaxSnapshots, MaxEdits,   \* bounds
  MaxDisturbances                       \* and on what gets in the way, see disturb

ASSUME BoundsAssumption == {MAX_DISKS, MaxVolumes, MaxSnapshots, MaxEdits, MaxDisturbances} \subseteq Nat

Devices   == 1 .. MAX_DISKS
Volumes   == 1 .. MaxVolumes
Snapshots == 1 .. MaxSnapshots
None      == 0
Releasers == {"detach", "cleanup", "node"}
Tasks     == Releasers \cup {"attach"}
States    == {"attaching", "attached", "detaching", "detached"}
Records   == [vol : Volumes, state : States, snaps : Seq(Snapshots), old : BOOLEAN]
NoRecord  == [vol |-> None, state |-> "detached", snaps |-> <<>>, old |-> FALSE]

VARIABLES
  cont,         \* the session's container: none, running or stopped
  mounted,      \* the volume mounted in it, or None
  latest,       \* number of the user's last edit on a data volume
  vols,         \* EC2: [st : no, free, attached, deleted; dev; data]
  snaps,        \* EC2: [st : no, pending, done, deleted; data]
  used,         \* DISK_USE_STATUS
  reserved,     \* DISK_RESERVE_TIME
  record,       \* JBoxDiskState
  base,         \* snapshot_id of JBoxSessionProps, None for the template
  task,         \* the threads of JBoxd that work on this volume
  hk,           \* where the leader is with the record
  disturbed     \* how often something got in the way so far

ec2  == <<vols, snaps>>
disk == <<used, reserved>>
vars == <<cont, mounted, latest, ec2, disk, record, base, task, hk, disturbed>>

Idle == [pc |-> "idle", dev |-> None, vol |-> None, snap |-> None,
         seen |-> NoRecord, stale |-> FALSE, backup |-> TRUE]
Resting == [pc |-> "idle", seen |-> NoRecord, stale |-> FALSE, todo |-> <<>>,
            incomplete |-> <<>>, base |-> None, modified |-> FALSE]

Steps     == {"reserve", "create", "attach", "save", "mount", "mounted",
              "look", "release", "backup", "detach", "detached", "remove"}
Jobs      == [pc : {"idle"} \cup Steps, dev : Devices \cup {None}, vol : Volumes \cup {None},
              snap : Snapshots \cup {None}, seen : Records \cup {NoRecord}, stale : BOOLEAN, backup : BOOLEAN]
Rounds    == [pc : {"idle", "fetch", "scan", "save", "delete"}, seen : Records \cup {NoRecord}, stale : BOOLEAN,
              todo : Seq(Snapshots), incomplete : Seq(Snapshots), base : Snapshots \cup {None}, modified : BOOLEAN]

TypeOK ==
  /\ cont \in {"none", "running", "stopped"} /\ mounted \in Volumes \cup {None} /\ latest \in 0 .. MaxEdits
  /\ vols \in [Volumes -> [st : {"no", "free", "attached", "deleted"}, dev : Devices \cup {None}, data : 0 .. MaxEdits]]
  /\ snaps \in [Snapshots -> [st : {"no", "pending", "done", "deleted"}, data : 0 .. MaxEdits]]
  /\ reserved \subseteq Devices /\ used \subseteq Devices
  /\ record \in Records \cup {NoRecord} /\ base \in Snapshots \cup {None}
  /\ task \in [Tasks -> Jobs] /\ hk \in Rounds /\ disturbed \in 0 .. MaxDisturbances

Init ==
  /\ cont = "none" /\ mounted = None /\ latest = 0
  /\ vols = [v \in Volumes |-> [st |-> "no", dev |-> None, data |-> 0]]
  /\ snaps = [s \in Snapshots |-> [st |-> "no", data |-> 0]]
  /\ used = {} /\ reserved = {}
  /\ record = NoRecord /\ base = None
  /\ task = [t \in Tasks |-> Idle] /\ hk = Resting
  /\ disturbed = 0

Busy     == {t \in Tasks : task[t].pc # "idle"}
Active   == Cardinality(Busy) + IF hk.pc = "idle" THEN 0 ELSE 1

\* Two threads at work at once, a call that fails, a restart, a release without a
\* backup, a snapshot that completes while the leader goes through the record.
disturb(happens) == /\ disturbed' = disturbed + IF happens THEN 1 ELSE 0
                    /\ disturbed' <= MaxDisturbances
Start(t) == task[t].pc = "idle" /\ disturb(Active > 0)
end(t)   == task' = [task EXCEPT ![t] = Idle]
goto(t, pc) == task' = [task EXCEPT ![t] = [@ EXCEPT !.pc = pc]]

\* The record is written by task t, which goes on with next; copies others have are stale.
write(rec, t, next) ==
  /\ record' = rec
  /\ task' = [x \in Tasks |-> IF x = t THEN next
                              ELSE [task[x] EXCEPT !.stale = task[x].seen # NoRecord]]
  /\ hk' = [hk EXCEPT !.stale = hk.seen # NoRecord]

set_state(rec, st) == [rec EXCEPT !.state = st, !.old = FALSE]

Mapped      == {v \in Volumes : vols[v].st = "attached"}
MappedAt(d) == {v \in Mapped : vols[v].dev = d}
Exists(s)   == snaps[s].st \in {"pending", "done"}

-----------------------------------------------------------------------------
(* Devices.                                                                *)

\* A survey, with the reservations kept whose two minutes are not over.
refresh_disk_use_status ==
  /\ \E kept \in SUBSET reserved : reserved' = kept /\ used' = kept \cup {vols[v].dev : v \in Mapped}
  /\ UNCHANGED <<cont, mounted, latest, ec2, record, base, task, hk, disturbed>>

\* The attach task: nothing to do if a volume of the user is mapped here.
do_task_attach ==
  /\ Start("attach") /\ cont # "none" /\ Mapped = {}
  /\ \E s \in Snapshots : snaps[s].st = "no"   \* bound: the volume can be released again
  /\ goto("attach", "reserve")
  /\ UNCHANGED <<cont, mounted, latest, ec2, disk, record, base, hk>>

\* A device, and the record of the user's disk if there is one.
reserve_disk_id ==
  /\ task["attach"].pc = "reserve"
  /\ LET d == Min(Devices \ used) IN
     IF Devices \subseteq used
     THEN end("attach") /\ UNCHANGED disk
     ELSE /\ used' = used \cup {d} /\ reserved' = reserved \cup {d}
          /\ task' = [task EXCEPT !["attach"] = [@ EXCEPT !.pc = IF record = NoRecord THEN "create" ELSE "attach",
                                       !.dev = d, !.vol = record.vol, !.seen = record, !.stale = FALSE]]
  /\ UNCHANGED <<cont, mounted, latest, ec2, record, base, hk, disturbed>>

create_new_volume ==
  /\ task["attach"].pc = "create"
  /\ IF base # None /\ ~Exists(base)
     THEN end("attach") /\ UNCHANGED vols
     ELSE \E v \in Volumes :
            /\ vols[v].st = "no" /\ \A w \in 1 .. (v - 1) : vols[w].st # "no"
            /\ vols' = [vols EXCEPT ![v] = [@ EXCEPT !.st = "free", !.data = IF base = None THEN 0 ELSE snaps[base].data]]
            /\ task' = [task EXCEPT !["attach"] = [@ EXCEPT !.pc = "attach", !.vol = v]]
  /\ UNCHANGED <<cont, mounted, latest, snaps, disk, record, base, hk, disturbed>>

ensure_volume_available(v) == vols[v].st \in {"free", "attached"}

attach_free_volume(v, d) ==
  vols[v].st = "free" /\ MappedAt(d) = {} /\ vols' = [vols EXCEPT ![v] = [@ EXCEPT !.st = "attached", !.dev = d]]

\* A volume that is attached already stays where it is.
attach_volume ==
  /\ task["attach"].pc = "attach"
  /\ LET v == task["attach"].vol
         d == task["attach"].dev
     IN  \/ attach_free_volume(v, d) /\ goto("attach", "save")
         \/ vols[v].st = "attached" /\ goto("attach", "save") /\ UNCHANGED vols
         \/ /\ ensure_volume_available(v) => vols[v].st = "free" /\ MappedAt(d) # {}
            /\ end("attach") /\ UNCHANGED vols
  /\ UNCHANGED <<cont, mounted, latest, snaps, disk, record, base, hk, disturbed>>

\* Mutant: the record is only ever updated.
save_no_record ==
  /\ task["attach"].pc = "save"
  /\ IF task["attach"].stale
     THEN end("attach") /\ UNCHANGED <<record, hk>>
     ELSE write([record EXCEPT !.state = "attaching"], "attach", [task["attach"] EXCEPT !.pc = "mount"])
  /\ UNCHANGED <<cont, mounted, latest, ec2, disk, base, disturbed>>

\* Mutant: written without a look at what has become of the record.
save_unconditional ==
  /\ task["attach"].pc = "save"
  /\ LET rec == IF record = NoRecord THEN [NoRecord EXCEPT !.vol = task["attach"].vol] ELSE record
     IN  write([rec EXCEPT !.state = "attaching"], "attach", [task["attach"] EXCEPT !.pc = "mount"])
  /\ UNCHANGED <<cont, mounted, latest, ec2, disk, base, disturbed>>

\* The record is created, or set to attaching.
save_attaching ==
  /\ task["attach"].pc = "save"
  /\ IF task["attach"].stale
     THEN end("attach") /\ UNCHANGED <<record, hk>>
     ELSE LET rec == IF record = NoRecord THEN [NoRecord EXCEPT !.vol = task["attach"].vol] ELSE record
          IN  write([rec EXCEPT !.state = "attaching"], "attach", [task["attach"] EXCEPT !.pc = "mount"])
  /\ UNCHANGED <<cont, mounted, latest, ec2, disk, base, disturbed>>

\* mount_host_device raises when it fails: its error message does.
mount_host_device ==
  /\ task["attach"].pc = "mount"
  /\ IF cont = "running" /\ Mapped # {} /\ mounted = None
     THEN \E v \in Mapped : mounted' = v /\ goto("attach", "mounted")
     ELSE end("attach") /\ UNCHANGED mounted
  /\ UNCHANGED <<cont, latest, ec2, disk, record, base, hk, disturbed>>

save_attached ==
  /\ task["attach"].pc = "mounted"
  /\ IF record = NoRecord THEN end("attach") /\ UNCHANGED <<record, hk>>
     ELSE write([record EXCEPT !.state = "attached"], "attach", Idle)
  /\ UNCHANGED <<cont, mounted, latest, ec2, disk, base, disturbed>>

-----------------------------------------------------------------------------
(* Release.                                                                *)

Releasing(t, v, backup) ==
  [task EXCEPT ![t] = [Idle EXCEPT !.pc = "release", !.dev = vols[v].dev, !.backup = backup]]

\* The detach task.  What is not mounted cannot be unmounted, which raises.
do_task_detach ==
  /\ Start("detach") /\ cont # "none"
  /\ \/ \E v \in Mapped : /\ cont = "running" => mounted = v
                          /\ mounted' = None /\ task' = Releasing("detach", v, TRUE)
                          /\ UNCHANGED <<record, hk>>
     \/ /\ Mapped = {} /\ cont = "running" /\ record # NoRecord /\ record.state # "detached"
        /\ write(set_state(record, "detached"), "detach", Idle)
        /\ UNCHANGED mounted
  /\ UNCHANGED <<cont, latest, ec2, disk, base>>

\* The container is stopped and deleted, after its disks are released.  One
\* that cannot be started again is deleted without a backup.
before_delete ==
  /\ task["cleanup"].pc = "idle" /\ cont # "none"
  /\ cont' = "stopped" /\ mounted' = None
  /\ \E backup \in BOOLEAN :
       /\ backup \/ cont = "stopped"
       /\ disturb(Active > 0 \/ ~backup)
       /\ \/ \E v \in Mapped : task' = Releasing("cleanup", v, backup)
          \/ Mapped = {} /\ goto("cleanup", "remove")
  /\ UNCHANGED <<latest, ec2, disk, record, base, hk>>

remove_container ==
  /\ task["cleanup"].pc = "remove"
  /\ cont' = "none" /\ end("cleanup")
  /\ UNCHANGED <<mounted, latest, ec2, disk, record, base, hk, disturbed>>

\* The instance lists its volumes, and then looks for the session of each.
do_node_housekeeping ==
  /\ Start("node") /\ \E v \in Mapped : task' = [Releasing("node", v, TRUE) EXCEPT !["node"] = [@ EXCEPT !.pc = "look"]]
  /\ UNCHANGED <<cont, mounted, latest, ec2, disk, record, base, hk>>

orphaned ==
  /\ task["node"].pc = "look"
  /\ IF cont = "none" THEN goto("node", "release") ELSE end("node")
  /\ UNCHANGED <<cont, mounted, latest, ec2, disk, record, base, hk, disturbed>>

save_detaching(t) ==
  /\ task[t].pc = "release"
  /\ IF record = NoRecord THEN end(t) /\ UNCHANGED <<record, hk>>
     ELSE LET rec == set_state(record, "detaching")
          IN  write(rec, t, [task[t] EXCEPT !.pc = "backup", !.seen = rec, !.stale = FALSE])
  /\ UNCHANGED <<cont, mounted, latest, ec2, disk, base, disturbed>>

\* Of whatever is at the device by now; not waited for.
backup(t) ==
  /\ task[t].pc = "backup"
  /\ IF task[t].backup /\ MappedAt(task[t].dev) # {}
     THEN \E v \in MappedAt(task[t].dev), s \in Snapshots :
            /\ snaps[s].st = "no" /\ \A r \in 1 .. (s - 1) : snaps[r].st # "no"
            /\ snaps' = [snaps EXCEPT ![s] = [st |-> "pending", data |-> vols[v].data]]
            /\ task' = [task EXCEPT ![t] = [@ EXCEPT !.pc = "detach", !.snap = s]]
     ELSE goto(t, "detach") /\ UNCHANGED snaps
  /\ UNCHANGED <<cont, mounted, latest, vols, disk, record, base, hk, disturbed>>

detach_volume(t) ==
  /\ task[t].pc = "detach"
  /\ IF MappedAt(task[t].dev) = {} THEN end(t) /\ UNCHANGED <<vols, mounted>>
     ELSE \E v \in MappedAt(task[t].dev) :
            /\ vols' = [vols EXCEPT ![v] = [@ EXCEPT !.st = "free", !.dev = None]]
            /\ mounted' = IF mounted = v THEN None ELSE mounted
            /\ goto(t, "detached")
  /\ UNCHANGED <<cont, latest, snaps, disk, record, base, hk, disturbed>>

\* Mutant: the snapshot is not entered in the record.
save_detached_only(t) ==
  /\ task[t].pc = "detached"
  /\ LET next == IF t = "cleanup" THEN [Idle EXCEPT !.pc = "remove"] ELSE Idle IN
     IF task[t].stale THEN end(t) /\ UNCHANGED <<record, hk>>
     ELSE write(set_state(record, "detached"), t, next)
  /\ UNCHANGED <<cont, mounted, latest, ec2, disk, base, disturbed>>

save_detached(t) ==
  /\ task[t].pc = "detached"
  /\ LET next == IF t = "cleanup" THEN [Idle EXCEPT !.pc = "remove"] ELSE Idle IN
     IF task[t].stale THEN end(t) /\ UNCHANGED <<record, hk>>
     ELSE write([record EXCEPT !.state = "detached", !.old = FALSE,
                               !.snaps = IF task[t].snap = None THEN @ ELSE Append(@, task[t].snap)], t, next)
  /\ UNCHANGED <<cont, mounted, latest, ec2, disk, base, disturbed>>

release(t) == save_detaching(t) \/ backup(t) \/ detach_volume(t) \/ save_detached(t)

-----------------------------------------------------------------------------
(* Housekeeping of the leader.                                             *)

rest == hk' = Resting

\* The keys of detached disks are listed, and their records fetched one by one.
get_detached_disks ==
  /\ hk.pc = "idle" /\ record # NoRecord /\ record.state = "detached"
  /\ disturb(Active > 0)
  /\ hk' = [Resting EXCEPT !.pc = "fetch"]
  /\ UNCHANGED <<cont, mounted, latest, ec2, disk, record, base, task>>

fetch_disk ==
  /\ hk.pc = "fetch"
  /\ IF record = NoRecord THEN rest
     ELSE hk' = [Resting EXCEPT !.pc = "scan", !.seen = record, !.todo = record.snaps, !.base = base]
  /\ UNCHANGED <<cont, mounted, latest, ec2, disk, record, base, task, disturbed>>

\* A finished snapshot replaces the one to restore from, which is deleted.
update_snapshot ==
  /\ hk.pc = "scan" /\ hk.todo # <<>>
  /\ LET s == Head(hk.todo) IN
     \/ /\ snaps[s].st = "pending"
        /\ hk' = [hk EXCEPT !.todo = Tail(@), !.incomplete = Append(@, s)]
        /\ UNCHANGED snaps
     \/ /\ snaps[s].st = "done" /\ (hk.base # None => Exists(hk.base))
        /\ snaps' = [x \in Snapshots |-> IF x = hk.base THEN [snaps[x] EXCEPT !.st = "deleted"] ELSE snaps[x]]
        /\ hk' = [hk EXCEPT !.todo = Tail(@), !.base = s, !.modified = TRUE]
     \/ /\ ~Exists(s) \/ (snaps[s].st = "done" /\ hk.base # None /\ ~Exists(hk.base))
        /\ rest /\ UNCHANGED snaps
  /\ UNCHANGED <<cont, mounted, latest, vols, disk, record, base, task, disturbed>>

save_sess_props ==
  /\ hk.pc = "scan" /\ hk.todo = <<>> /\ hk.modified
  /\ base' = hk.base /\ hk' = [hk EXCEPT !.pc = "save"]
  /\ UNCHANGED <<cont, mounted, latest, ec2, disk, record, task, disturbed>>

\* Mutant: the snapshots that are finished stay in the record.
save_all ==
  /\ hk.pc = "save"
  /\ hk' = [hk EXCEPT !.pc = "scan", !.modified = FALSE]
  /\ UNCHANGED <<cont, mounted, latest, ec2, disk, record, base, task, disturbed>>

save_incomplete ==
  /\ hk.pc = "save"
  /\ IF hk.stale THEN rest /\ UNCHANGED <<record, task>>
     ELSE LET rec == [record EXCEPT !.snaps = hk.incomplete] IN
          /\ record' = rec
          /\ task' = [x \in Tasks |-> [task[x] EXCEPT !.stale = task[x].seen # NoRecord]]
          /\ hk' = [hk EXCEPT !.pc = "scan", !.seen = rec, !.modified = FALSE]
  /\ UNCHANGED <<cont, mounted, latest, ec2, disk, base, disturbed>>

Scanned == hk.pc = "scan" /\ hk.todo = <<>> /\ ~hk.modified
Unused  == hk.incomplete = <<>> /\ hk.seen.old

keep_disk ==
  /\ Scanned /\ ~Unused /\ rest
  /\ UNCHANGED <<cont, mounted, latest, ec2, disk, record, base, task, disturbed>>

\* The record goes first, whatever it says by now.
delete_disk_info ==
  /\ Scanned /\ Unused
  /\ record' = NoRecord /\ hk' = [hk EXCEPT !.pc = "delete"]
  /\ task' = [x \in Tasks |-> [task[x] EXCEPT !.stale = task[x].seen # NoRecord]]
  /\ UNCHANGED <<cont, mounted, latest, ec2, disk, base, disturbed>>

\* Then the volume, wherever it is attached.
delete_volume ==
  /\ hk.pc = "delete"
  /\ vols' = [vols EXCEPT ![hk.seen.vol] = [@ EXCEPT !.st = "deleted", !.dev = None]]
  /\ mounted' = IF mounted = hk.seen.vol THEN None ELSE mounted
  /\ rest
  /\ UNCHANGED <<cont, latest, snaps, disk, record, base, task, disturbed>>

do_cluster_housekeeping ==
  \/ get_detached_disks \/ fetch_disk \/ update_snapshot \/ save_sess_props \/ save_incomplete
  \/ keep_disk \/ delete_disk_info \/ delete_volume

-----------------------------------------------------------------------------
(* What happens around them.                                               *)

session_starts ==
  /\ cont \in {"none", "stopped"} /\ task["cleanup"].pc = "idle" /\ cont' = "running"
  /\ UNCHANGED <<mounted, latest, ec2, disk, record, base, task, hk, disturbed>>

container_exits ==
  /\ cont = "running" /\ cont' = "stopped" /\ mounted' = None
  /\ UNCHANGED <<latest, ec2, disk, record, base, task, hk, disturbed>>

session_writes ==
  /\ mounted # None /\ latest < MaxEdits
  /\ latest' = latest + 1 /\ vols' = [vols EXCEPT ![mounted] = [@ EXCEPT !.data = latest + 1]]
  /\ UNCHANGED <<cont, mounted, snaps, disk, record, base, task, hk, disturbed>>

\* Snapshots finish in the order they were taken.
snapshot_completes ==
  /\ \E s \in Snapshots : /\ snaps[s].st = "pending" /\ \A r \in 1 .. (s - 1) : snaps[r].st # "pending"
                          /\ snaps' = [snaps EXCEPT ![s] = [@ EXCEPT !.st = "done"]]
  /\ disturb(hk.pc = "scan")
  /\ UNCHANGED <<cont, mounted, latest, vols, disk, record, base, task, hk>>

day_passes ==
  /\ record # NoRecord /\ ~record.old /\ record' = [record EXCEPT !.old = TRUE]
  /\ UNCHANGED <<cont, mounted, latest, ec2, disk, base, task, hk, disturbed>>

\* A call fails, or JBoxd is restarted: what a thread was doing stays half done.
fail ==
  /\ disturb(TRUE)
  /\ \/ \E t \in Busy : end(t) /\ UNCHANGED hk
     \/ hk.pc # "idle" /\ rest /\ UNCHANGED task
  /\ UNCHANGED <<cont, mounted, latest, ec2, disk, record, base>>

Next ==
  \/ refresh_disk_use_status \/ do_task_attach \/ reserve_disk_id \/ create_new_volume
  \/ attach_volume \/ save_attaching \/ mount_host_device \/ save_attached
  \/ do_task_detach \/ before_delete \/ remove_container \/ do_node_housekeeping \/ orphaned
  \/ \E t \in Releasers : release(t)
  \/ do_cluster_housekeeping
  \/ session_starts \/ container_exits \/ session_writes \/ snapshot_completes \/ day_passes \/ fail

Spec == Init /\ [][Next]_vars

\* Threads go on, housekeeping is periodic, Amazon finishes a snapshot, days pass.
Fairness ==
  /\ \A t \in Releasers : WF_vars(release(t))
  /\ WF_vars(reserve_disk_id \/ create_new_volume \/ attach_volume \/ save_attaching
             \/ mount_host_device \/ save_attached)
  /\ WF_vars(remove_container) /\ WF_vars(orphaned) /\ SF_vars(do_node_housekeeping)
  /\ SF_vars(get_detached_disks)
  /\ WF_vars(fetch_disk \/ update_snapshot \/ save_sess_props \/ save_incomplete
             \/ keep_disk \/ delete_disk_info \/ delete_volume)
  /\ SF_vars(snapshot_completes) /\ WF_vars(day_passes)
FairSpec == Spec /\ Fairness

-----------------------------------------------------------------------------
(* Properties.                                                             *)

\* The record of a disk names a volume that exists, whatever fails or overlaps: else
\* the user is locked out of the data volume (reserve_disk_id only ever takes the
\* recorded one).  A task that attaches what the leader is deleting holds a stale
\* copy of the record, which it cannot save.
RecordNamesVolume == record # NoRecord => vols[record.vol].st \in {"free", "attached"}

\* What create_new_volume or attach_volume would give the user.
Restored == IF record # NoRecord THEN vols[record.vol].data
            ELSE IF base # None /\ Exists(base) THEN snaps[base].data ELSE 0

\* What the next session gets, from the volume or, once that is deleted, from the
\* snapshot that replaced it, is the user's last edit, at every step of release and
\* housekeeping, if nothing gets in the way.
LatestKept == disturbed = 0 /\ task["attach"].pc = "idle" => Restored = latest

\* A user who stays away costs nothing but a snapshot in the end: every volume is
\* detached, backed up and deleted by the housekeeping, if nothing gets in the way.
Reclaimed ==
  [](disturbed = 0) /\ <>[](cont = "none")
    => <>[](record = NoRecord /\ \A v \in Volumes : vols[v].st \in {"no", "deleted"})

=============================================================================
