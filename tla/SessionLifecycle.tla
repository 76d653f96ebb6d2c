-------------------------- MODULE SessionLifecycle --------------------------
(***************************************************************************)
(* The session of one user on one instance: the container it runs in, the  *)
(* files in its home folder, and their backup (interactive/                *)
(* sess_container.py, jbox_container.py, jbox_volume.py, and the handlers  *)
(* of JBox that log a user in and out and receive the pings of the open    *)
(* notebook page).                                                         *)
(*                                                                         *)
(* JBox decides and JBoxd does.  JBox, one thread, pushes commands on a    *)
(* queue: launch the session, clean up this container.  JBoxd runs each in *)
(* a thread (JBoxd.tla), so a launch and a cleanup of one session may      *)
(* overlap; a launch waits for a cleanup it can see.  The two processes    *)
(* keep their tables apart: PINGS and VALID_CONTAINERS are those of JBox.  *)
(*                                                                         *)
(* Docker lets one container at a time have the name of the session, so    *)
(* the newest container is the only one that may exist.  Files are         *)
(* abstracted to the edits made by the user: 1 .. work.  A home folder and *)
(* a backup are sets of edits.                                             *)
(***************************************************************************)
EXTENDS Naturals, Sequences

CONSTANTS
  Bucket,    \* whether there is a bucket store
  Expires,   \* whether sessions may exceed the time limit (interactive.expire)
  Faults,    \* what may go wrong, see Kinds
  Quick,     \* a cleanup starts in JBoxd only before or after a launch
  Patient,   \* a backup ends before the launch that waits for it gives up
  None,      \* no backup, or no record
  MaxConts,  \* bound: containers created
  MaxEdits,  \* bound: edits made
  MaxInbox   \* bound: commands queued at JBoxd

\* JBox or JBoxd dies, Docker or the bucket store returns an error, the disk
\* is too small for the backup, the container stops by itself.
Kinds == {"jbox", "jboxd", "docker", "bucket", "space", "exit"}

ASSUME SwitchesAssumption ==
  /\ Bucket \in BOOLEAN /\ Expires \in BOOLEAN
  /\ Quick \in BOOLEAN /\ Patient \in BOOLEAN
  /\ Faults \subseteq Kinds

ASSUME BoundsAssumption == MaxConts \in Nat /\ MaxEdits \in Nat /\ MaxInbox \in Nat

Edits   == 1 .. MaxEdits
Conts   == 1 .. MaxConts
NoCont  == 0
Backups == {None} \cup SUBSET Edits

\* Commands: CMD_LAUNCH_SESSION, or CMD_BACKUP_CLEANUP of a container.
Launch   == 0
Commands == {Launch} \cup Conts

ASSUME NoneAssumption == \A b \in SUBSET Edits : b # None

VARIABLES
  inbox,             \* commands pushed and not yet received by JBoxd
  last,              \* the newest container
  cont,              \* its state in Docker
  home,              \* the edits on its disk
  tar,               \* the backup in the local folder
  s3,                \* the backup in the bucket store
  work,              \* edits made so far
  lpc, lcid, lhome,  \* the launch thread: stage, container, restored files
  cpc,               \* cpc[c]: stage of the cleanup thread of container c
  PINGS,             \* JBox: the last ping recorded for the session
  VALID_CONTAINERS,  \* JBox: the container cached for the session
  mpc, mcid,         \* JBox: maintenance under way, and what it listed
  user, cookie,      \* the browser, and the container its cookie names
  attended           \* whether the user has been here within the timeout

dockerVars  == <<last, cont, home, work>>
backupVars  == <<tar, s3>>
launchVars  == <<lpc, lcid, lhome>>
jboxVars    == <<PINGS, VALID_CONTAINERS, mpc, mcid>>
userVars    == <<user, cookie, attended>>
vars == <<inbox, dockerVars, backupVars, launchVars, cpc, jboxVars, userVars>>

LaunchStages  == {"idle", "wait", "look", "restore", "create", "start", "abort", "discard", "perf"}
CleanupStages == {"idle", "stop", "delete", "tar", "clear", "push", "refresh", "remove"}

TypeOK ==
  /\ inbox \in Seq(Commands)
  /\ last \in Conts \cup {NoCont}
  /\ cont \in {"gone", "created", "running", "stopped"}
  /\ work \in 0 .. MaxEdits
  /\ home \subseteq Edits /\ lhome \subseteq Edits
  /\ tar \in Backups /\ s3 \in Backups
  /\ lpc \in LaunchStages
  /\ lcid \in Conts \cup {NoCont}
  /\ cpc \in [Conts -> CleanupStages]
  /\ PINGS \in {"none", "fresh", "stale"}
  /\ VALID_CONTAINERS \in Conts \cup {NoCont}
  /\ mpc \in {"idle", "inspect"}
  /\ mcid \in Conts \cup {NoCont}
  /\ user \in {"away", "loading", "in"}
  /\ cookie \in Conts \cup {NoCont}
  /\ attended \in {"no", "recorded", "since"}

Init ==
  /\ inbox = <<>>
  /\ last = NoCont /\ cont = "gone" /\ home = {} /\ work = 0
  /\ tar = None /\ s3 = None
  /\ lpc = "idle" /\ lcid = NoCont /\ lhome = {}
  /\ cpc = [c \in Conts |-> "idle"]
  /\ PINGS = "none" /\ VALID_CONTAINERS = NoCont /\ mpc = "idle" /\ mcid = NoCont
  /\ user = "away" /\ cookie = NoCont /\ attended = "no"

exists(c) == c = last /\ cont # "gone"
is_running == cont = "running"

-----------------------------------------------------------------------------
(* JBox.  Its handlers and its maintenance run in one thread.              *)

push(cmd) == Len(inbox) < MaxInbox /\ inbox' = Append(inbox, cmd)

\* try_launch_container.  With a running container, or when the instance
\* accepts sessions, the launch is pushed; else a stopped container is cleaned
\* up and the user is sent to another instance.  To reload the page is to close
\* it and to open it.
try_launch_container ==
  /\ mpc = "idle" /\ user = "away"
  /\ VALID_CONTAINERS' = NoCont
  /\ \/ /\ push(Launch)
        /\ user' = "loading"
        /\ attended' = "since"
     \/ /\ cont # "gone" /\ ~is_running
        /\ push(last)
        /\ UNCHANGED <<user, attended>>
  /\ UNCHANGED <<cookie, dockerVars, backupVars, launchVars, cpc, PINGS, mpc, mcid>>

\* do_monitor_loading: the page is shown once the container runs, and an error
\* when it does not for too long.
do_monitor_loading ==
  /\ mpc = "idle" /\ user = "loading"
  /\ \/ /\ is_running
        /\ user' = "in"
        /\ cookie' = last
        /\ attended' = "since"
     \/ /\ ~is_running
        /\ user' = "away"
        /\ UNCHANGED <<cookie, attended>>
  /\ UNCHANGED <<inbox, dockerVars, backupVars, launchVars, cpc, jboxVars>>

\* is_valid_container: against the cached container, or else against the
\* container of that name, which is cached then.
is_valid_container ==
  LET c == IF VALID_CONTAINERS # NoCont THEN VALID_CONTAINERS ELSE last
  IN c = cookie /\ exists(c) /\ is_running

\* PingHandler.get, every 15 seconds.  The page logs out after five failures.
ping ==
  /\ mpc = "idle" /\ user = "in"
  /\ VALID_CONTAINERS' = IF VALID_CONTAINERS = NoCont /\ cont # "gone"
                         THEN last ELSE VALID_CONTAINERS
  /\ \/ /\ is_valid_container
        /\ PINGS' = "fresh"
        /\ attended' = "recorded"
        /\ UNCHANGED user
     \/ /\ ~is_valid_container
        /\ attended' = IF cookie = last THEN "since" ELSE attended
        /\ user' \in {"in", "away"}
        /\ UNCHANGED PINGS
  /\ UNCHANGED <<inbox, cookie, dockerVars, backupVars, launchVars, cpc, mpc, mcid>>

\* AdminHandler.handle_if_logout.
handle_if_logout ==
  /\ mpc = "idle" /\ user = "in"
  /\ cont # "gone"
  /\ VALID_CONTAINERS' = NoCont
  /\ push(last)
  /\ user' = "away"
  /\ UNCHANGED <<cookie, attended, dockerVars, backupVars, launchVars, cpc, PINGS, mpc, mcid>>

\* maintain, first: the containers are listed.
maintain_list ==
  /\ mpc = "idle"
  /\ mpc' = "inspect"
  /\ mcid' = IF cont = "gone" THEN NoCont ELSE last
  /\ UNCHANGED <<PINGS, VALID_CONTAINERS, inbox, dockerVars, backupVars, launchVars, cpc, userVars>>

\* A record of this moment is not older than what the user did before.
recorded_now == IF attended = "since" THEN "recorded" ELSE attended
unrecorded   == IF attended = "recorded" THEN "since" ELSE attended

inactive == is_running /\ PINGS = "stale"

\* Mutant: a container without a ping record does not get one.
maintain_no_record ==
  /\ mpc = "inspect"
  /\ mpc' = "idle"
  /\ \/ /\ ~exists(mcid)
        /\ PINGS' = "none"
        /\ VALID_CONTAINERS' = NoCont
        /\ attended' = unrecorded
        /\ UNCHANGED inbox
     \/ /\ exists(mcid)
        /\ VALID_CONTAINERS' = mcid
        /\ (inactive /\ push(mcid)) \/ (~inactive /\ UNCHANGED inbox)
        /\ UNCHANGED <<PINGS, attended>>
  /\ UNCHANGED <<mcid, user, cookie, dockerVars, backupVars, launchVars, cpc>>

\* maintain, then: each is inspected.  One without a ping record gets one, one
\* beyond the limit or inactive is cleaned up; one that is gone is ignored.
maintain ==
  /\ mpc = "inspect"
  /\ mpc' = "idle"
  /\ \/ /\ ~exists(mcid)
        /\ PINGS' = "none"
        /\ VALID_CONTAINERS' = NoCont
        /\ attended' = unrecorded
        /\ UNCHANGED inbox
     \/ /\ exists(mcid)
        /\ PINGS' = IF PINGS = "none" /\ is_running THEN "fresh" ELSE PINGS
        /\ attended' = IF PINGS = "none" /\ is_running THEN recorded_now ELSE attended
        /\ VALID_CONTAINERS' = mcid
        /\ \/ (inactive \/ (Expires /\ cont # "created")) /\ push(mcid)
           \/ ~inactive /\ UNCHANGED inbox
  /\ UNCHANGED <<mcid, user, cookie, dockerVars, backupVars, launchVars, cpc>>

\* JBox is started anew.
jbox_restart ==
  /\ "jbox" \in Faults
  /\ PINGS' = "none" /\ VALID_CONTAINERS' = NoCont /\ mpc' = "idle" /\ mcid' = NoCont
  /\ attended' = unrecorded
  /\ UNCHANGED <<inbox, user, cookie, dockerVars, backupVars, launchVars, cpc>>

-----------------------------------------------------------------------------
(* The user, and time.                                                     *)

\* The user, or a program of the user, changes files.
edit ==
  /\ is_running /\ work < MaxEdits
  /\ work' = work + 1
  /\ home' = home \cup {work + 1}
  /\ UNCHANGED <<inbox, last, cont, backupVars, launchVars, cpc, jboxVars, userVars>>

close_browser ==
  /\ user # "away"
  /\ user' = "away"
  /\ UNCHANGED <<inbox, cookie, attended, dockerVars, backupVars, launchVars, cpc, jboxVars>>

\* The timeout has passed since the recorded ping.  An open page would have
\* sent another one meanwhile, which is not recorded only if it is not valid.
ping_ages ==
  /\ PINGS = "fresh"
  /\ attended = "recorded" => user = "away"
  /\ user = "in" => ~is_valid_container
  /\ PINGS' = "stale"
  /\ attended' = IF attended = "recorded" THEN "no" ELSE attended
  /\ UNCHANGED <<inbox, user, cookie, dockerVars, backupVars, launchVars, cpc, VALID_CONTAINERS, mpc, mcid>>

\* The timeout has passed since the user was here, after the recorded ping.
user_lapses ==
  /\ user = "away" /\ attended = "since" /\ PINGS # "fresh"
  /\ attended' = "no"
  /\ UNCHANGED <<inbox, user, cookie, dockerVars, backupVars, launchVars, cpc, jboxVars>>

container_exits ==
  /\ "exit" \in Faults
  /\ is_running
  /\ cont' = "stopped"
  /\ UNCHANGED <<inbox, last, home, work, backupVars, launchVars, cpc, jboxVars, userVars>>

-----------------------------------------------------------------------------
(* JBoxd: receiving a command.                                             *)

cleaning(c) == cpc[c] # "idle"
launching   == lpc \notin {"idle", "wait"}

\* Mutant: a launch is dropped, instead of waiting, while a cleanup runs.
receive_drops ==
  /\ inbox # <<>>
  /\ inbox' = Tail(inbox)
  /\ \/ /\ Head(inbox) = Launch
        /\ lpc' = IF lpc = "idle" /\ \A c \in Conts : ~cleaning(c) THEN "wait" ELSE lpc
        /\ UNCHANGED cpc
     \/ /\ Head(inbox) # Launch
        /\ Quick => ~launching
        /\ cpc' = [cpc EXCEPT ![Head(inbox)] = IF @ = "idle" THEN "stop" ELSE @]
        /\ UNCHANGED lpc
  /\ UNCHANGED <<lcid, lhome, dockerVars, backupVars, jboxVars, userVars>>

\* A command is dropped while a thread of the same signature is active.
receive ==
  /\ inbox # <<>>
  /\ inbox' = Tail(inbox)
  /\ \/ /\ Head(inbox) = Launch
        /\ lpc' = IF lpc = "idle" THEN "wait" ELSE lpc
        /\ UNCHANGED cpc
     \/ /\ Head(inbox) # Launch
        /\ Quick => ~launching
        /\ cpc' = [cpc EXCEPT ![Head(inbox)] = IF @ = "idle" THEN "stop" ELSE @]
        /\ UNCHANGED lpc
  /\ UNCHANGED <<lcid, lhome, dockerVars, backupVars, jboxVars, userVars>>

-----------------------------------------------------------------------------
(* JBoxd: launch_session.                                                  *)

\* The launch thread goes from stage a to stage b.
to(a, b) == lpc = a /\ lpc' = b

\* Mutant: the launch does not wait.
wait_forgotten ==
  /\ to("wait", "look")
  /\ UNCHANGED <<inbox, lcid, lhome, dockerVars, backupVars, cpc, jboxVars, userVars>>

\* _wait_for_session_backup: wait while a cleanup of the container of that
\* name is scheduled.  After 15 attempts the launch goes on regardless.
wait_for_session_backup ==
  /\ to("wait", "look")
  /\ Patient => ~(cont # "gone" /\ cleaning(last))
  /\ UNCHANGED <<inbox, lcid, lhome, dockerVars, backupVars, cpc, jboxVars, userVars>>

\* launch_by_name: a container of that name is used again, whatever its state.
launch_by_name ==
  /\ \/ /\ cont # "gone"
        /\ to("look", "start")
        /\ lcid' = last
     \/ /\ cont = "gone"
        /\ to("look", "restore")
        /\ UNCHANGED lcid
     \/ /\ "docker" \in Faults  \* the disks or the containers are not listed
        /\ to("look", "idle")
        /\ UNCHANGED lcid
  /\ UNCHANGED <<inbox, lhome, dockerVars, backupVars, cpc, jboxVars, userVars>>

\* restore: the copy in the bucket store, if there is one, replaces the local
\* one, and the local file is removed again after it was unpacked.
pulled == Bucket /\ s3 # None

restore ==
  LET src   == IF pulled THEN s3 ELSE tar
      saved == IF src = None THEN {} ELSE src
  IN /\ \/ /\ to("restore", "create")
           /\ \/ lhome' = saved
              \/ "space" \in Faults /\ lhome' \in SUBSET saved
           /\ tar' = IF pulled THEN None ELSE tar
        \/ /\ "bucket" \in Faults /\ Bucket
           /\ to("restore", "idle")
           /\ UNCHANGED <<lhome, tar>>
     /\ UNCHANGED <<inbox, lcid, dockerVars, s3, cpc, jboxVars, userVars>>

\* Mutant: one container more than there may be.
create_one_past ==
  /\ to("create", "start")
  /\ last <= MaxConts
  /\ last' = last + 1 /\ lcid' = last + 1
  /\ cont' = "created"
  /\ home' = lhome
  /\ UNCHANGED <<inbox, lhome, work, backupVars, cpc, jboxVars, userVars>>

\* _create_new: Docker refuses a second container of the same name.
create_new ==
  /\ \/ /\ cont = "gone" /\ last < MaxConts
        /\ to("create", "start")
        /\ last' = last + 1 /\ lcid' = last + 1
        /\ cont' = "created"
        /\ home' = lhome
     \/ /\ cont # "gone" \/ "docker" \in Faults
        /\ to("create", "idle")
        /\ UNCHANGED <<last, lcid, cont, home>>
  /\ UNCHANGED <<inbox, lhome, work, backupVars, cpc, jboxVars, userVars>>

\* start, unless it is running already.  When Docker fails the container is
\* deleted without a backup.
start ==
  /\ \/ /\ exists(lcid)
        /\ to("start", "perf")
        /\ cont' = "running"
     \/ /\ exists(lcid) /\ ~is_running /\ "docker" \in Faults
        /\ to("start", "abort")
        /\ UNCHANGED cont
     \/ /\ ~exists(lcid)
        /\ to("start", "idle")
        /\ UNCHANGED cont
  /\ UNCHANGED <<inbox, last, home, work, lcid, lhome, backupVars, cpc, jboxVars, userVars>>

\* delete(backup=False): kill, blank the disk, ...
abort ==
  /\ \/ /\ exists(lcid)
        /\ to("abort", "discard")
        /\ cont' = "stopped"
        /\ home' = {}
     \/ /\ ~exists(lcid)
        /\ to("abort", "idle")
        /\ UNCHANGED <<cont, home>>
  /\ UNCHANGED <<inbox, last, work, lcid, lhome, backupVars, cpc, jboxVars, userVars>>

\* ... and remove the container, which Docker refuses if it is running.
discard ==
  /\ to("discard", "idle")
  /\ cont' = IF exists(lcid) /\ ~is_running THEN "gone" ELSE cont
  /\ UNCHANGED <<inbox, last, home, work, lcid, lhome, backupVars, cpc, jboxVars, userVars>>

\* publish_perf_counters, while a further launch is still dropped.
publish_perf_counters ==
  /\ to("perf", "idle")
  /\ UNCHANGED <<inbox, lcid, lhome, dockerVars, backupVars, cpc, jboxVars, userVars>>

-----------------------------------------------------------------------------
(* JBoxd: backup_and_cleanup of container c.                               *)

\* The cleanup thread of c goes from stage a to stage b.
go(c, a, b) == cpc[c] = a /\ cpc' = [cpc EXCEPT ![c] = b]

\* What is on the disk that c was given.  When another launch has deleted c
\* meanwhile, the disk is blank or given away, maybe to the newest container.
disk_of(c)   == IF c = last THEN {home} ELSE {home, {}}
blanked(c)   == IF c = last THEN {{}} ELSE {home, {}}

stop(c) ==
  /\ \/ /\ exists(c)
        /\ go(c, "stop", "delete")
        /\ cont' = IF is_running THEN "stopped" ELSE cont
     \/ /\ ~exists(c) \/ "docker" \in Faults
        /\ go(c, "stop", "idle")
        /\ UNCHANGED cont
  /\ UNCHANGED <<inbox, last, home, work, backupVars, launchVars, jboxVars, userVars>>

\* delete kills a container that is running again, and before_delete looks for
\* its disk: there is none if Docker fails (get_disk_from_container).
delete(c) ==
  /\ \/ /\ exists(c)
        /\ go(c, "delete", "tar") \/ ("docker" \in Faults /\ go(c, "delete", "remove"))
        /\ cont' = IF is_running THEN "stopped" ELSE cont
     \/ /\ ~exists(c) \/ "docker" \in Faults
        /\ go(c, "delete", "idle")
        /\ UNCHANGED cont
  /\ UNCHANGED <<inbox, last, home, work, backupVars, launchVars, jboxVars, userVars>>

\* Mutant: the disk is cleared before the tar is written.
backup_clears_first(c) ==
  /\ go(c, "tar", "clear")
  /\ home' \in blanked(c)
  /\ tar' = home'
  /\ UNCHANGED <<inbox, last, cont, work, s3, launchVars, jboxVars, userVars>>

\* _backup: the local tar is written, ...
backup(c) ==
  /\ go(c, "tar", "clear")
  /\ tar' \in disk_of(c)
  /\ UNCHANGED <<inbox, dockerVars, s3, launchVars, jboxVars, userVars>>

\* ... the disk is cleared, ...
clear_volume(c) ==
  /\ go(c, "clear", "push")
  /\ home' \in blanked(c)
  /\ UNCHANGED <<inbox, last, cont, work, backupVars, launchVars, jboxVars, userVars>>

\* ... and the tar is moved to the bucket store, if there is one.
push_to_bucketstore(c) ==
  /\ \/ /\ tar # None
        /\ go(c, "push", "refresh")
        /\ IF Bucket THEN s3' = tar /\ tar' = None ELSE UNCHANGED backupVars
     \/ /\ tar = None \/ (Bucket /\ "bucket" \in Faults)
        /\ go(c, "push", "idle")
        /\ UNCHANGED backupVars
  /\ UNCHANGED <<inbox, dockerVars, launchVars, jboxVars, userVars>>

\* refresh_disk blanks the disk again and fills it from the home image.
refresh_disk(c) ==
  /\ go(c, "refresh", "remove")
  /\ home' \in blanked(c)
  /\ UNCHANGED <<inbox, last, cont, work, backupVars, launchVars, jboxVars, userVars>>

\* Docker removes the container, unless it is running.
remove_container(c) ==
  /\ go(c, "remove", "idle")
  /\ \/ /\ exists(c) /\ ~is_running
        /\ cont' = "gone"
     \/ /\ ~exists(c) \/ is_running \/ "docker" \in Faults
        /\ UNCHANGED cont
  /\ UNCHANGED <<inbox, last, home, work, backupVars, launchVars, jboxVars, userVars>>

\* JBoxd dies.  Commands it had received are lost; a copy being pulled, or a
\* tar being written, is left as it is.
jboxd_restart ==
  /\ "jboxd" \in Faults
  /\ lpc' = "idle" /\ lcid' = NoCont /\ lhome' = {}
  /\ cpc' = [c \in Conts |-> "idle"]
  /\ inbox' \in {SubSeq(inbox, i, Len(inbox)) : i \in 1 .. Len(inbox) + 1}
  /\ tar' \in {tar} \cup (IF lpc = "restore" /\ pulled THEN {s3} ELSE {})
                    \cup (IF \E c \in Conts : cpc[c] = "tar" THEN SUBSET home ELSE {})
  /\ UNCHANGED <<dockerVars, s3, jboxVars, userVars>>

-----------------------------------------------------------------------------
launch_session == \/ wait_for_session_backup
                  \/ launch_by_name
                  \/ restore
                  \/ create_new
                  \/ start
                  \/ abort
                  \/ discard
                  \/ publish_perf_counters

backup_and_cleanup(c) == \/ stop(c)
                         \/ delete(c)
                         \/ backup(c)
                         \/ clear_volume(c)
                         \/ push_to_bucketstore(c)
                         \/ refresh_disk(c)
                         \/ remove_container(c)

jbox == \/ try_launch_container
        \/ do_monitor_loading
        \/ ping
        \/ handle_if_logout
        \/ maintain_list
        \/ maintain

Next ==
  \/ jbox \/ jbox_restart
  \/ edit \/ close_browser \/ ping_ages \/ user_lapses \/ container_exits
  \/ receive \/ launch_session \/ jboxd_restart
  \/ \E c \in Conts : backup_and_cleanup(c)

Spec == Init /\ [][Next]_vars

\* JBoxd's threads run, maintenance runs every five minutes and is not broken
\* off, and time passes.
Fairness ==
  /\ WF_vars(receive)
  /\ WF_vars(launch_session)
  /\ \A c \in Conts : WF_vars(backup_and_cleanup(c))
  /\ SF_vars(maintain_list) /\ SF_vars(maintain)
  /\ WF_vars(ping_ages) /\ WF_vars(user_lapses)

FairSpec == Spec /\ Fairness

-----------------------------------------------------------------------------
(* Properties.                                                             *)

Made == 1 .. work

\* Whenever the container runs, the home folder in it holds all the user ever
\* did, through any number of cleanups, restores and restarts (restore,
\* _backup, _wait_for_session_backup).
SeesOwnFiles == is_running => home = Made

\* At any moment all the user ever did is in one place: on the disk of the
\* container, in the local backup, or in the bucket store.
NoLostWork == \/ cont # "gone" /\ home = Made
              \/ tar = Made
              \/ s3 = Made
              \/ work = 0

\* Whatever fails, a step of a cleanup that takes edits off the disk leaves
\* them in a backup (_backup, refresh_disk).
ClearedIsSaved ==
  [][\A c \in Conts : cpc'[c] # cpc[c] =>
       \A e \in home \ home' : \E b \in {tar', s3'} : b # None /\ e \in b]_vars

\* A launch that was pushed has a running container at some later moment, also
\* when it waits for a cleanup or is dropped in favour of another launch (up to
\* the bound on containers).
LaunchSucceeds ==
  (\E i \in DOMAIN inbox : inbox[i] = Launch)
     ~> (is_running \/ (last = MaxConts /\ cont = "gone"))

\* The session of a user who left is cleaned up, and all of it is in a backup,
\* unless the user comes back.
AbandonedIsSaved ==
  (is_running /\ attended = "no")
     ~> (attended # "no" \/ (cont = "gone" /\ Made \in {tar, s3}))

=============================================================================
