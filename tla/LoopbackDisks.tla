--------------------------- MODULE LoopbackDisks ---------------------------
(***************************************************************************)
(* The pool of loopback disks that hold the home folders of the sessions   *)
(* of one instance (vol_loopback/loopback.py, with the parts of            *)
(* jbox_volume.py and volmgr.py it uses), as the threads of JBoxd drive    *)
(* it.                                                                     *)
(*                                                                         *)
(* A disk is in use while a container mounts it.  JBoxd does not record    *)
(* that: it keeps DISK_USE_STATUS in memory and recomputes it from Docker  *)
(* now and then, under a lock.  A thread that takes a disk reserves it for *)
(* 120 seconds, which covers the time until the container that mounts it   *)
(* exists.  A disk that was blanked and filled from the home image carries *)
(* a marker with the time of that image; a marked disk is handed to a user *)
(* as it is.                                                               *)
(*                                                                         *)
(* Of a disk the model keeps whose private files are on it, which home     *)
(* image it was filled from, and the marker.  JBoxd may crash at any       *)
(* moment; containers and disks survive.                                   *)
(***************************************************************************)
EXTENDS Integers, FiniteSets

CONSTANTS
  Users,        \* users with a session on this instance
  MAX_DISKS,    \* number of disks
  MaxImage,     \* bound: versions of the home image
  Timely,       \* a reservation outlives the work it covers
  DockerFails   \* a call to Docker may fail while the disks are surveyed

Disks  == 0 .. MAX_DISKS - 1
NoDisk == -1

\* Home images are numbered by their time; 0 is no image, and no marker.
Images == 0 .. MaxImage

\* The threads that bring free disks up to date.
UPDATE     == "CMD_UPDATE_USER_HOME_IMAGE"
REFRESH    == "CMD_REFRESH_DISKS"
Refreshers == {UPDATE, REFRESH}

\* One thread at a time works on the session of a user (JBoxd).
Workers == Users \cup Refreshers

\* Whoever runs refresh_disk_use_status: a launch, or publish_perf_counters.
Perf == "publish_perf_counters"
Free == "free"

ASSUME UsersAssumption == Users \cap (Refreshers \cup {Perf, Free}) = {}

ASSUME BoundsAssumption ==
  /\ MAX_DISKS \in Nat
  /\ MaxImage \in Nat \ {0}
  /\ Timely \in BOOLEAN
  /\ DockerFails \in BOOLEAN

VARIABLES
  DISK_USE_STATUS,    \* disks recorded as used
  DISK_RESERVE_TIME,  \* disks with a reservation that has not expired
  LOCK,               \* who is recomputing DISK_USE_STATUS
  listed,             \* containers <<user, disk>> still to be inspected
  surveyed,           \* whether the containers have been listed
  mounted,            \* mounted[u]: the disk in the container of u
  pc,                 \* pc[w]: what worker w does next
  disk,               \* disk[w]: the disk worker w works on
  begin_idx,          \* begin_idx[r]: where the search of refresher r resumes
  image,              \* the home image in use
  files,              \* files[d]: users whose files are on disk d
  content,            \* content[d]: the image disk d was filled from
  marker              \* marker[d]: the image named by the marker of d

statusVars == <<DISK_USE_STATUS, DISK_RESERVE_TIME>>
sweepVars  == <<LOCK, listed, surveyed>>
workVars   == <<pc, disk, begin_idx>>
diskVars   == <<files, content, marker>>
vars       == <<statusVars, sweepVars, workVars, diskVars, mounted, image>>

Stages == {"idle", "sweep", "reserve", "check", "wipe", "fill", "stamp",
           "restore", "create", "backup", "remove", "fetch", "unreserve"}

TypeOK ==
  /\ DISK_USE_STATUS \subseteq Disks
  /\ DISK_RESERVE_TIME \subseteq Disks
  /\ LOCK \in Users \cup {Perf, Free}
  /\ listed \subseteq Users \X Disks
  /\ surveyed \in BOOLEAN
  /\ mounted \in [Users -> Disks \cup {NoDisk}]
  /\ pc \in [Workers -> Stages]
  /\ disk \in [Workers -> Disks \cup {NoDisk}]
  /\ begin_idx \in [Refreshers -> 0 .. MAX_DISKS]
  /\ image \in Images
  /\ files \in [Disks -> SUBSET Users]
  /\ content \in [Disks -> Images]
  /\ marker \in [Disks -> Images]

Init ==
  /\ DISK_USE_STATUS = {} /\ DISK_RESERVE_TIME = {}
  /\ LOCK = Free /\ listed = {} /\ surveyed = FALSE
  /\ mounted = [u \in Users |-> NoDisk]
  /\ pc = [w \in Workers |-> "idle"]
  /\ disk = [w \in Workers |-> NoDisk]
  /\ begin_idx = [r \in Refreshers |-> 0]
  /\ image = 1
  /\ files = [d \in Disks |-> {}]
  /\ content = [d \in Disks |-> 0]
  /\ marker = [d \in Disks |-> 0]

\* Worker w goes from stage a to stage b.
step(w, a, b) == pc[w] = a /\ pc' = [pc EXCEPT ![w] = b]

\* The thread of w ends, and its local variables with it.
finish(w) == /\ pc' = [pc EXCEPT ![w] = "idle"]
             /\ disk' = [disk EXCEPT ![w] = NoDisk]
             /\ begin_idx' = [r \in Refreshers |-> IF r = w THEN 0 ELSE begin_idx[r]]

-----------------------------------------------------------------------------
(* refresh_disk_use_status.                                                *)

\* Mutant: nothing is taken back; what was recorded as used stays so.
sweep_adds_only(w) ==
  /\ LOCK = Free
  /\ w = Perf \/ (w \in Users /\ pc[w] = "sweep")
  /\ LOCK' = w
  /\ DISK_USE_STATUS' = DISK_USE_STATUS \cup DISK_RESERVE_TIME
  /\ UNCHANGED <<DISK_RESERVE_TIME, listed, surveyed, workVars, diskVars, mounted, image>>

\* Mutant: the containers are listed before the lock is taken.
sweep_lists_first(w) ==
  /\ LOCK = Free
  /\ w = Perf \/ (w \in Users /\ pc[w] = "sweep")
  /\ \/ /\ ~surveyed
        /\ listed' = {c \in Users \X Disks : mounted[c[1]] = c[2]}
        /\ surveyed' = TRUE
        /\ UNCHANGED <<LOCK, DISK_USE_STATUS>>
     \/ /\ surveyed
        /\ LOCK' = w
        /\ DISK_USE_STATUS' = DISK_RESERVE_TIME
        /\ UNCHANGED <<listed, surveyed>>
  /\ UNCHANGED <<DISK_RESERVE_TIME, workVars, diskVars, mounted, image>>

\* The lock is taken; the disks with a reservation count as used, and the
\* others as free until a container is found to mount them.
sweep_reset(w) ==
  /\ LOCK = Free
  /\ w = Perf \/ (w \in Users /\ pc[w] = "sweep")
  /\ LOCK' = w
  /\ DISK_USE_STATUS' = DISK_RESERVE_TIME
  /\ UNCHANGED <<DISK_RESERVE_TIME, listed, surveyed, workVars, diskVars, mounted, image>>

\* SessContainer.session_containers: the containers, running or not.
sweep_list ==
  /\ LOCK # Free /\ ~surveyed
  /\ listed' = {c \in Users \X Disks : mounted[c[1]] = c[2]}
  /\ surveyed' = TRUE
  /\ UNCHANGED <<LOCK, statusVars, workVars, diskVars, mounted, image>>

\* One container is inspected and its disk marked as used, which ends the
\* reservation.  A container that is gone, or that Docker fails to inspect,
\* uses no disk (_get_disk_ids_used).
sweep_inspect(u, d) ==
  /\ surveyed /\ LOCK # Free /\ <<u, d>> \in listed
  /\ listed' = listed \ {<<u, d>>}
  /\ \/ /\ mounted[u] = d
        /\ DISK_USE_STATUS' = DISK_USE_STATUS \cup {d}
        /\ DISK_RESERVE_TIME' = DISK_RESERVE_TIME \ {d}
     \/ /\ mounted[u] # d \/ DockerFails
        /\ UNCHANGED statusVars
  /\ UNCHANGED <<LOCK, surveyed, workVars, diskVars, mounted, image>>

\* The lock is released; a launch goes on to reserve a disk.
sweep_end ==
  /\ surveyed /\ LOCK # Free /\ listed = {}
  /\ LOCK' = Free
  /\ surveyed' = FALSE
  /\ pc' = IF LOCK = Perf THEN pc ELSE [pc EXCEPT ![LOCK] = "reserve"]
  /\ UNCHANGED <<listed, statusVars, disk, begin_idx, diskVars, mounted, image>>

\* Listing the containers raises: the lock is released, and a launch fails.
sweep_raise ==
  /\ DockerFails
  /\ LOCK # Free /\ ~surveyed
  /\ LOCK' = Free
  /\ pc' = IF LOCK = Perf THEN pc ELSE [pc EXCEPT ![LOCK] = "idle"]
  /\ UNCHANGED <<listed, surveyed, statusVars, disk, begin_idx, diskVars, mounted, image>>

-----------------------------------------------------------------------------
(* Reservations.                                                           *)

\* Mutant: the search goes one past the last disk.
unused_one_past(from) == {d \in from .. MAX_DISKS : d \notin DISK_USE_STATUS}

\* The disks _get_unused_disk_id may find from begin_idx on.
unused_disks(from) == {d \in Disks : d >= from /\ d \notin DISK_USE_STATUS}

from_idx(w) == IF w \in Refreshers THEN begin_idx[w] ELSE 0

\* _reserve_disk_id: the first unused disk is marked as used, and reserved.
\* Without one a launch raises, and a refresher is done.
reserve_disk_id(w) ==
  LET unused == unused_disks(from_idx(w))
  IN /\ pc[w] = "reserve"
     /\ LOCK = Free
     /\ \/ /\ unused = {}
           /\ finish(w)
           /\ UNCHANGED statusVars
        \/ \E d \in unused :
             /\ \A e \in unused : d <= e
             /\ DISK_USE_STATUS' = DISK_USE_STATUS \cup {d}
             /\ DISK_RESERVE_TIME' = DISK_RESERVE_TIME \cup {d}
             /\ disk' = [disk EXCEPT ![w] = d]
             /\ pc' = [pc EXCEPT ![w] = IF w \in Users THEN "check" ELSE "wipe"]
             /\ UNCHANGED begin_idx
     /\ UNCHANGED <<sweepVars, diskVars, mounted, image>>

\* _unreserve_disk_id: the refresher frees the disk and goes on to the next.
unreserve_disk_id(r) ==
  /\ step(r, "unreserve", "reserve")
  /\ LOCK = Free
  /\ DISK_USE_STATUS' = DISK_USE_STATUS \ {disk[r]}
  /\ DISK_RESERVE_TIME' = DISK_RESERVE_TIME \ {disk[r]}
  /\ begin_idx' = [begin_idx EXCEPT ![r] = disk[r] + 1]
  /\ disk' = [disk EXCEPT ![r] = NoDisk]
  /\ UNCHANGED <<sweepVars, diskVars, mounted, image>>

\* The 120 seconds of a reservation are over (_is_reserved).  If Timely, the
\* disk is in a container by then, or nobody works on it any more.
expire(d) ==
  /\ d \in DISK_RESERVE_TIME
  /\ Timely => \A w \in Workers : disk[w] = d => w \in Users /\ mounted[w] = d
  /\ DISK_RESERVE_TIME' = DISK_RESERVE_TIME \ {d}
  /\ UNCHANGED <<DISK_USE_STATUS, sweepVars, workVars, diskVars, mounted, image>>

-----------------------------------------------------------------------------
(* Blanking and filling a disk: refresh_disk.                              *)

\* ensure_delete deletes everything below the disk's path, in the order of
\* the directory: until it is done the marker or the files may be left.
ensure_delete(w) ==
  LET d == disk[w]
  IN /\ pc[w] = "wipe"
     /\ \/ /\ files' = [files EXCEPT ![d] = {}]
           /\ UNCHANGED <<marker, content, pc>>
        \/ /\ marker' = [marker EXCEPT ![d] = 0]
           /\ UNCHANGED <<files, content, pc>>
        \/ /\ files' = [files EXCEPT ![d] = {}]
           /\ marker' = [marker EXCEPT ![d] = 0]
           /\ content' = [content EXCEPT ![d] = 0]
           /\ pc' = [pc EXCEPT ![w] = "fill"]
     /\ UNCHANGED <<statusVars, sweepVars, disk, begin_idx, mounted, image>>

launching(w) == w \in Users /\ mounted[w] = NoDisk

\* Mutant: the marker is written whether or not the disk is going to be used.
restore_and_mark(w) ==
  /\ step(w, "fill", IF launching(w) THEN "restore" ELSE "stamp")
  /\ content' = [content EXCEPT ![disk[w]] = image]
  /\ marker' = [marker EXCEPT ![disk[w]] = image]
  /\ UNCHANGED <<statusVars, sweepVars, disk, begin_idx, files, mounted, image>>

\* restore_user_home and setup_instance_config.  A launch does not mark the
\* disk (mark_refreshed=False); everybody else does.
restore_user_home(w) ==
  /\ step(w, "fill", IF launching(w) THEN "restore" ELSE "stamp")
  /\ content' = [content EXCEPT ![disk[w]] = image]
  /\ UNCHANGED <<statusVars, sweepVars, disk, begin_idx, files, marker, mounted, image>>

\* mark_refreshed writes the time of the image in use at this moment.
mark_refreshed(w) ==
  /\ step(w, "stamp", IF w \in Users THEN "remove" ELSE "unreserve")
  /\ marker' = [marker EXCEPT ![disk[w]] = image]
  /\ UNCHANGED <<statusVars, sweepVars, disk, begin_idx, files, content, mounted, image>>

-----------------------------------------------------------------------------
(* Launching a session: get_disk_for_user.                                 *)

\* launch_session for a user without a container.
launch_session(u) ==
  /\ mounted[u] = NoDisk
  /\ step(u, "idle", "sweep")
  /\ UNCHANGED <<statusVars, sweepVars, disk, begin_idx, diskVars, mounted, image>>

is_refreshed(d) == marker[d] # 0 /\ marker[d] >= image

\* Mutant: the marker stays on a disk that is handed to a user.
check_keeps_marker(u) ==
  /\ step(u, "check", IF is_refreshed(disk[u]) THEN "restore" ELSE "wipe")
  /\ UNCHANGED <<statusVars, sweepVars, disk, begin_idx, diskVars, mounted, image>>

\* A disk that is up to date is taken as it is and loses its marker
\* (unmark_refreshed); another is blanked and filled first.
check_refreshed(u) ==
  LET d == disk[u]
  IN /\ pc[u] = "check"
     /\ \/ /\ is_refreshed(d)
           /\ marker' = [marker EXCEPT ![d] = 0]
           /\ pc' = [pc EXCEPT ![u] = "restore"]
        \/ /\ ~is_refreshed(d)
           /\ pc' = [pc EXCEPT ![u] = "wipe"]
           /\ UNCHANGED marker
     /\ UNCHANGED <<statusVars, sweepVars, disk, begin_idx, files, content, mounted, image>>

\* restore unpacks the backup of the user onto the disk.
restore(u) ==
  /\ step(u, "restore", "create")
  /\ files' = [files EXCEPT ![disk[u]] = @ \cup {u}]
  /\ UNCHANGED <<statusVars, sweepVars, disk, begin_idx, content, marker, mounted, image>>

\* Docker creates the container with the disk mounted; the launch is over.
create_container(u) ==
  /\ pc[u] = "create"
  /\ mounted' = [mounted EXCEPT ![u] = disk[u]]
  /\ finish(u)
  /\ UNCHANGED <<statusVars, sweepVars, diskVars, image>>

\* The user works in the session; a stopped container may be started again.
session_writes(u) ==
  /\ mounted[u] # NoDisk /\ pc[u] = "idle"
  /\ files' = [files EXCEPT ![mounted[u]] = @ \cup {u}]
  /\ UNCHANGED <<statusVars, sweepVars, workVars, content, marker, mounted, image>>

-----------------------------------------------------------------------------
(* Deleting a session's container: delete, before_delete, release.         *)

\* The container is stopped and its disk looked up: released with a backup,
\* without one, or not at all when Docker fails (get_disk_from_container).
delete(u) ==
  /\ mounted[u] # NoDisk
  /\ \/ step(u, "idle", "backup")
     \/ step(u, "idle", "wipe")
     \/ DockerFails /\ step(u, "idle", "remove")
  /\ disk' = [disk EXCEPT ![u] = mounted[u]]
  /\ UNCHANGED <<statusVars, sweepVars, begin_idx, diskVars, mounted, image>>

\* Mutant: the container is removed before its disk is released.
remove_first(u) ==
  /\ pc[u] = "backup"
  /\ mounted' = [mounted EXCEPT ![u] = NoDisk]
  /\ pc' = [pc EXCEPT ![u] = "wipe"]
  /\ UNCHANGED <<statusVars, sweepVars, disk, begin_idx, diskVars, image>>

\* _backup: the tar is written and the disk cleared; refresh_disk follows.
backup(u) ==
  /\ step(u, "backup", "wipe")
  /\ files' = [files EXCEPT ![disk[u]] = {}]
  /\ marker' = [marker EXCEPT ![disk[u]] = 0]
  /\ content' = [content EXCEPT ![disk[u]] = 0]
  /\ UNCHANGED <<statusVars, sweepVars, disk, begin_idx, mounted, image>>

\* Docker removes the container.
remove_container(u) ==
  /\ pc[u] = "remove"
  /\ mounted' = [mounted EXCEPT ![u] = NoDisk]
  /\ finish(u)
  /\ UNCHANGED <<statusVars, sweepVars, diskVars, image>>

-----------------------------------------------------------------------------
(* Keeping free disks up to date.                                          *)

\* CMD_UPDATE_USER_HOME_IMAGE: fetch the image, then refresh the free disks.
update_user_home_image ==
  \/ /\ step(UPDATE, "idle", "fetch")
     /\ UNCHANGED <<statusVars, sweepVars, disk, begin_idx, diskVars, mounted, image>>
  \/ /\ step(UPDATE, "fetch", "reserve")
     /\ image' \in {i \in Images : i \in {image, image + 1}}
     /\ UNCHANGED <<statusVars, sweepVars, disk, begin_idx, diskVars, mounted>>

\* CMD_REFRESH_DISKS does nothing while an update is under way.
refresh_disks ==
  /\ pc[UPDATE] = "idle"
  /\ step(REFRESH, "idle", "reserve")
  /\ UNCHANGED <<statusVars, sweepVars, disk, begin_idx, diskVars, mounted, image>>

-----------------------------------------------------------------------------
(* Failures.                                                               *)

\* A step of w's thread raises, and jboxd_method ends the thread.  What it
\* did to the disk and its reservation stay.
raise(w) ==
  /\ pc[w] \notin {"idle", "sweep"}
  /\ finish(w)
  /\ UNCHANGED <<statusVars, sweepVars, diskVars, mounted, image>>

\* JBoxd dies and is started again; configure recomputes DISK_USE_STATUS
\* before there are threads, and run may find an image newer than the
\* configured one.
restart ==
  /\ DISK_RESERVE_TIME' = {}
  /\ LET inUse == {mounted[u] : u \in Users} \ {NoDisk}
     IN IF DockerFails THEN DISK_USE_STATUS' \in SUBSET inUse
                       ELSE DISK_USE_STATUS' = inUse
  /\ LOCK' = Free /\ listed' = {} /\ surveyed' = FALSE
  /\ pc' = [w \in Workers |-> "idle"]
  /\ disk' = [w \in Workers |-> NoDisk]
  /\ begin_idx' = [r \in Refreshers |-> 0]
  /\ image' \in {1, image}
  /\ UNCHANGED <<diskVars, mounted>>

-----------------------------------------------------------------------------
survey   == \/ sweep_list
            \/ sweep_end
            \/ sweep_raise
            \/ \E u \in Users, d \in Disks : sweep_inspect(u, d)

launch(u) == \/ launch_session(u)
             \/ check_refreshed(u)
             \/ restore(u)
             \/ create_container(u)

cleanup(u) == delete(u) \/ backup(u) \/ remove_container(u)

refresh_disk(w) == ensure_delete(w) \/ restore_user_home(w) \/ mark_refreshed(w)

Next ==
  \/ \E w \in Users \cup {Perf} : sweep_reset(w)
  \/ survey
  \/ \E d \in Disks : expire(d)
  \/ \E w \in Workers : reserve_disk_id(w) \/ refresh_disk(w) \/ raise(w)
  \/ \E u \in Users : launch(u) \/ session_writes(u) \/ cleanup(u)
  \/ \E r \in Refreshers : unreserve_disk_id(r)
  \/ update_user_home_image \/ refresh_disks
  \/ restart

Spec == Init /\ [][Next]_vars

\* Time passes, publish_perf_counters runs every five minutes with the
\* periodic tasks, and the recomputation comes to its end.
Fairness ==
  /\ \A d \in Disks : WF_vars(expire(d))
  /\ SF_vars(sweep_reset(Perf))
  /\ WF_vars(survey)

FairSpec == Spec /\ Fairness

-----------------------------------------------------------------------------
(* Properties.                                                             *)

Holders(d) == {w \in Workers : disk[w] = d \/ (w \in Users /\ mounted[w] = d)}

\* A disk is held by one session or maintenance thread at a time: LoopbackDisks
\* implements DiskPool (reserve_disk_id, refresh_disk_use_status).
Held == [d \in Disks |-> Holders(d)]
Pool == INSTANCE DiskPool WITH Actors <- Workers, held <- Held
ImplementsDiskPool == Pool!Spec

\* The files of one user are never on the disk given to another, whatever
\* failed or crashed before (check_refreshed, refresh_disk).
NoForeignFiles ==
  \A u \in Users, d \in Disks :
    mounted[u] = d \/ (disk[u] = d /\ pc[u] \in {"restore", "create"}) => files[d] \subseteq {u}

\* refresh_disk_use_status updates the status of all disks by iterating
\* through all containers: outside it, a disk in a container counts as used.
MountedDiskUsed ==
  LOCK = Free => \A u \in Users : mounted[u] # NoDisk => mounted[u] \in DISK_USE_STATUS

\* A disk nobody uses becomes available again, even when the thread that had
\* reserved it failed (expire, refresh_disk_use_status).
DisksReclaimed ==
  \A d \in Disks : Holders(d) = {} ~> d \notin DISK_USE_STATUS \/ Holders(d) # {}
=============================================================================
