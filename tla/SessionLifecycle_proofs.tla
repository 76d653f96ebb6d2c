----------------------- MODULE SessionLifecycle_proofs -----------------------
(***************************************************************************)
(* Proofs about SessionLifecycle for any number of containers, edits and   *)
(* commands: type correctness whatever fails; and, when cleanups keep      *)
(* clear of launches and the bucket store works, that no work is ever lost *)
(* and that a running session holds all of it; and, whatever fails, that a *)
(* cleanup clears nothing that is not in a backup.                         *)
(***************************************************************************)
EXTENDS SessionLifecycle, TLAPS

-----------------------------------------------------------------------------
(* Type correctness.                                                       *)

LEMMA InitTypeOK == Init => TypeOK
<1> SUFFICES ASSUME Init
             PROVE  TypeOK
  OBVIOUS
<1>1. inbox \in Seq(Commands) /\ 0 \in 0 .. MaxEdits
  BY BoundsAssumption DEF Init
<1>2. cpc \in [Conts -> CleanupStages]
  BY DEF Init, CleanupStages
<1> QED BY <1>1, <1>2 DEF Init, TypeOK, LaunchStages, Backups

\* The newest container, when it exists, may be named in a command.
LEMMA ExistingIsCommand ==
  ASSUME TypeOK, NEW c \in Conts \cup {NoCont}
  PROVE  c \in Commands
BY DEF Commands, Launch, NoCont

LEMMA PushTypeOK ==
  ASSUME TypeOK, NEW cmd \in Commands, push(cmd)
  PROVE  inbox' \in Seq(Commands)
BY DEF TypeOK, push

\* What JBox does (try_launch_container, maintain, PingHandler, ...).
LEMMA JBoxTypeOK ==
  ASSUME TypeOK, jbox \/ jbox_restart
  PROVE  TypeOK'
<1> USE DEF TypeOK, dockerVars, backupVars, launchVars, jboxVars, userVars
<1>0. /\ Launch \in Commands /\ last \in Commands /\ mcid \in Commands
      /\ NoCont \in Conts \cup {NoCont}
  BY ExistingIsCommand DEF Commands
<1>1. CASE try_launch_container
  <2>1. inbox' \in Seq(Commands)
    BY <1>0, <1>1, PushTypeOK DEF try_launch_container
  <2> QED BY <1>1, <2>1 DEF try_launch_container
<1>2. CASE do_monitor_loading
  BY <1>2 DEF do_monitor_loading
<1>3. CASE ping
  BY <1>3 DEF ping
<1>4. CASE handle_if_logout
  <2>1. inbox' \in Seq(Commands)
    BY <1>0, <1>4, PushTypeOK DEF handle_if_logout
  <2> QED BY <1>4, <2>1 DEF handle_if_logout
<1>5. CASE maintain_list
  BY <1>5 DEF maintain_list
<1>6. CASE maintain
  <2>1. inbox' \in Seq(Commands)
    BY <1>0, <1>6, PushTypeOK DEF maintain
  <2>2. attended' \in {"no", "recorded", "since"}
    BY <1>6 DEF maintain, unrecorded, recorded_now
  <2>3. PINGS' \in {"none", "fresh", "stale"} /\ VALID_CONTAINERS' \in Conts \cup {NoCont}
    BY <1>6 DEF maintain
  <2>4. mpc' = "idle" /\ UNCHANGED <<mcid, user, cookie, dockerVars, backupVars, launchVars, cpc>>
    BY <1>6 DEF maintain
  <2> QED BY <2>1, <2>2, <2>3, <2>4
<1>7. CASE jbox_restart
  BY <1>7 DEF jbox_restart, unrecorded
<1> QED BY <1>1, <1>2, <1>3, <1>4, <1>5, <1>6, <1>7 DEF jbox

\* What the user does, and the passing of time.
LEMMA UserTypeOK ==
  ASSUME TypeOK, edit \/ close_browser \/ ping_ages \/ user_lapses \/ container_exits
  PROVE  TypeOK'
<1> USE DEF TypeOK, dockerVars, backupVars, launchVars, jboxVars, userVars
<1>1. CASE edit
  <2>1. work + 1 \in Edits /\ work + 1 \in 0 .. MaxEdits
    BY <1>1, BoundsAssumption DEF edit, Edits
  <2> QED BY <1>1, <2>1 DEF edit
<1>2. CASE close_browser
  BY <1>2 DEF close_browser
<1>3. CASE ping_ages
  BY <1>3 DEF ping_ages
<1>4. CASE user_lapses
  BY <1>4 DEF user_lapses
<1>5. CASE container_exits
  BY <1>5 DEF container_exits
<1> QED BY <1>1, <1>2, <1>3, <1>4, <1>5

\* JBoxd receives a command, or dies.
LEMMA ReceiveTypeOK ==
  ASSUME TypeOK, receive \/ jboxd_restart
  PROVE  TypeOK'
<1> USE DEF TypeOK, dockerVars, backupVars, launchVars, jboxVars, userVars
<1>1. CASE receive
  <2>1. inbox' \in Seq(Commands)
    BY <1>1 DEF receive
  <2>2. lpc' \in LaunchStages
    BY <1>1 DEF receive, LaunchStages
  <2>3. cpc' \in [Conts -> CleanupStages]
    BY <1>1 DEF receive, CleanupStages
  <2> QED BY <1>1, <2>1, <2>2, <2>3 DEF receive
<1>2. CASE jboxd_restart
  <2>1. inbox' \in Seq(Commands)
    <3>1. PICK i \in 1 .. Len(inbox) + 1 : inbox' = SubSeq(inbox, i, Len(inbox))
      BY <1>2 DEF jboxd_restart
    <3>2. \A k \in i .. Len(inbox) : inbox[k] \in Commands
      OBVIOUS
    <3> QED BY <3>1, <3>2
  <2>2. tar' \in Backups
    BY <1>2 DEF jboxd_restart, Backups
  <2>3. cpc' \in [Conts -> CleanupStages]
    BY <1>2 DEF jboxd_restart, CleanupStages
  <2> QED BY <1>2, <2>1, <2>2, <2>3 DEF jboxd_restart, LaunchStages
<1> QED BY <1>1, <1>2

\* The steps of a launch (launch_session).
LEMMA LaunchTypeOK ==
  ASSUME TypeOK, launch_session
  PROVE  TypeOK'
<1> USE DEF TypeOK, dockerVars, backupVars, launchVars, jboxVars, userVars
<1>1. CASE wait_for_session_backup
  BY <1>1 DEF wait_for_session_backup, to, LaunchStages
<1>2. CASE launch_by_name
  BY <1>2 DEF launch_by_name, to, LaunchStages
<1>3. CASE restore
  <2>1. lpc' \in LaunchStages
    BY <1>3 DEF restore, to, LaunchStages
  <2>2. lhome' \subseteq Edits
    BY <1>3 DEF restore, pulled, Backups
  <2>3. tar' \in Backups
    BY <1>3 DEF restore, Backups
  <2> QED BY <1>3, <2>1, <2>2, <2>3 DEF restore
<1>4. CASE create_new
  <2>1. last < MaxConts => last + 1 \in Conts
    BY BoundsAssumption DEF Conts, NoCont
  <2> QED BY <1>4, <2>1 DEF create_new, to, LaunchStages
<1>5. CASE start
  BY <1>5 DEF start, exists, is_running, to, LaunchStages
<1>6. CASE abort
  <2>1. lpc' \in LaunchStages /\ cont' \in {"gone", "created", "running", "stopped"} /\ home' \subseteq Edits
    BY <1>6 DEF abort, to, LaunchStages
  <2>2. UNCHANGED <<inbox, last, work, lcid, lhome, backupVars, cpc, jboxVars, userVars>>
    BY <1>6 DEF abort
  <2> QED BY <2>1, <2>2
<1>7. CASE discard
  <2>1. lpc' \in LaunchStages /\ cont' \in {"gone", "created", "running", "stopped"}
    BY <1>7 DEF discard, to, LaunchStages
  <2>2. UNCHANGED <<inbox, last, home, work, lcid, lhome, backupVars, cpc, jboxVars, userVars>>
    BY <1>7 DEF discard
  <2> QED BY <2>1, <2>2
<1>8. CASE publish_perf_counters
  BY <1>8 DEF publish_perf_counters, to, LaunchStages
<1> QED BY <1>1, <1>2, <1>3, <1>4, <1>5, <1>6, <1>7, <1>8 DEF launch_session

\* The steps of a cleanup (backup_and_cleanup).
LEMMA CleanupTypeOK ==
  ASSUME TypeOK, NEW c \in Conts, backup_and_cleanup(c)
  PROVE  TypeOK'
<1> USE DEF TypeOK, dockerVars, backupVars, launchVars, jboxVars, userVars
<1>0. ASSUME NEW a, NEW b \in CleanupStages, go(c, a, b)
      PROVE  cpc' \in [Conts -> CleanupStages]
  BY <1>0 DEF go
<1>1. disk_of(c) \subseteq SUBSET Edits /\ blanked(c) \subseteq SUBSET Edits
  BY DEF disk_of, blanked
<1>2. CASE stop(c)
  BY <1>0, <1>2 DEF stop, exists, is_running, CleanupStages
<1>3. CASE delete(c)
  BY <1>0, <1>3 DEF delete, exists, is_running, CleanupStages
<1>4. CASE backup(c)
  <2>1. tar' \in Backups
    BY <1>1, <1>4 DEF backup, Backups
  <2> QED BY <1>0, <1>4, <2>1 DEF backup, CleanupStages
<1>5. CASE clear_volume(c)
  BY <1>0, <1>1, <1>5 DEF clear_volume, CleanupStages
<1>6. CASE push_to_bucketstore(c)
  <2>1. tar' \in Backups /\ s3' \in Backups
    BY <1>6 DEF push_to_bucketstore, Backups
  <2> QED BY <1>0, <1>6, <2>1 DEF push_to_bucketstore, CleanupStages
<1>7. CASE refresh_disk(c)
  BY <1>0, <1>1, <1>7 DEF refresh_disk, CleanupStages
<1>8. CASE remove_container(c)
  BY <1>0, <1>8 DEF remove_container, exists, is_running, CleanupStages
<1> QED BY <1>2, <1>3, <1>4, <1>5, <1>6, <1>7, <1>8 DEF backup_and_cleanup

LEMMA NextTypeOK == TypeOK /\ [Next]_vars => TypeOK'
<1> SUFFICES ASSUME TypeOK, [Next]_vars
             PROVE  TypeOK'
  OBVIOUS
<1>1. CASE Next
  BY <1>1, JBoxTypeOK, UserTypeOK, ReceiveTypeOK, LaunchTypeOK, CleanupTypeOK DEF Next
<1>2. CASE UNCHANGED vars
  BY <1>2 DEF TypeOK, vars, dockerVars, backupVars, launchVars, jboxVars, userVars
<1> QED BY <1>1, <1>2

\* Every behaviour is type correct, whatever fails and however launches and
\* cleanups overlap.
THEOREM TypeCorrect == Spec => []TypeOK
<1>1. Init => TypeOK
  BY InitTypeOK
<1>2. TypeOK /\ [Next]_vars => TypeOK'
  BY NextTypeOK
<1> QED BY <1>1, <1>2, PTL DEF Spec

-----------------------------------------------------------------------------
(* The inductive invariant of the safety theorems.                         *)

\* No fault but a restart of JBox and a container that exits; cleanups do not
\* start during a launch, and a launch does not go on during a cleanup.
Undisturbed == Quick /\ Patient /\ Faults \subseteq {"jbox", "exit"}

\* What restore would find.
Saved == IF pulled THEN s3 ELSE IF tar = None THEN {} ELSE tar

\* Commands and cleanups are of containers that have been created; beyond its
\* first step a cleanup is of the one container that exists.
CleanupsAreOfLast ==
  /\ cont # "gone" => last \in Conts
  /\ \A i \in DOMAIN inbox : inbox[i] <= last
  /\ \A c \in Conts : cpc[c] # "idle" => c <= last
  /\ \A c \in Conts : cpc[c] \notin {"idle", "stop"} => exists(c)

\* A launch past its wait and a cleanup exclude each other.
Exclusive == launching /\ cont # "gone" => cpc[last] = "idle"

\* Where the launch is, there is no container yet, or there is the one it made.
LaunchInv ==
  /\ lpc \in {"restore", "create"} => cont = "gone"
  /\ lpc = "create" => lhome = Made
  /\ lpc = "start" => exists(lcid)
  /\ lpc \notin {"abort", "discard"}

\* Without a container all work is in the backup; with one it is on the disk
\* until the tar is written, then in the tar until that is pushed, and then in
\* the backup again.
WorkInv ==
  /\ cont = "gone" => Saved = Made
  /\ cont # "gone" =>
       /\ cpc[last] \in {"idle", "stop", "delete", "tar", "clear"} => home = Made
       /\ cpc[last] \in {"clear", "push"} => tar = Made
       /\ cpc[last] \in {"refresh", "remove"} => Saved = Made
       /\ cpc[last] \in {"tar", "clear", "push", "refresh", "remove"} => ~is_running

SafeInv == TypeOK /\ CleanupsAreOfLast /\ Exclusive /\ LaunchInv /\ WorkInv

-----------------------------------------------------------------------------
(* The invariant is inductive.                                             *)

LEMMA NothingFails ==
  ASSUME Undisturbed
  PROVE  \A f \in {"docker", "bucket", "space", "jboxd"} : f \notin Faults
BY DEF Undisturbed

LEMMA InitSafeInv == Init => SafeInv
<1> SUFFICES ASSUME Init
             PROVE  SafeInv
  OBVIOUS
<1>1. TypeOK
  BY InitTypeOK
<1>2. CleanupsAreOfLast /\ Exclusive /\ LaunchInv
  BY DEF Init, CleanupsAreOfLast, Exclusive, launching, LaunchInv
<1>3. Made = {}
  BY DEF Init, Made
<1>4. WorkInv
  BY <1>3 DEF Init, WorkInv, Saved, pulled
<1> QED BY <1>1, <1>2, <1>4 DEF SafeInv

\* A step that leaves containers, files and threads alone, but may append the
\* cleanup of an existing container or a launch to the queue.
LEMMA AsideSafeInv ==
  ASSUME SafeInv, TypeOK', UNCHANGED <<dockerVars, backupVars, launchVars, cpc>>,
         \/ UNCHANGED inbox
         \/ \E cmd \in {last, Launch} : push(cmd)
  PROVE  SafeInv'
<1> USE DEF SafeInv, dockerVars, backupVars, launchVars
<1>1. \A i \in DOMAIN inbox' : inbox'[i] <= last'
  <2>1. CASE UNCHANGED inbox
    BY <2>1 DEF CleanupsAreOfLast
  <2>2. ASSUME NEW cmd \in {last, Launch}, push(cmd)
        PROVE  \A i \in DOMAIN inbox' : inbox'[i] <= last'
    <3>1. last \in Nat /\ cmd <= last
      BY BoundsAssumption DEF TypeOK, Conts, NoCont, Launch
    <3> QED BY <2>2, <3>1 DEF push, TypeOK, CleanupsAreOfLast
  <2> QED BY <2>1, <2>2
<1>2. CleanupsAreOfLast'
  BY <1>1 DEF CleanupsAreOfLast, exists
<1>3. Exclusive' /\ LaunchInv' /\ WorkInv'
  BY DEF Exclusive, launching, LaunchInv, WorkInv, Saved, pulled, exists, is_running, Made
<1> QED BY <1>2, <1>3

LEMMA JBoxSafeInv ==
  ASSUME SafeInv, TypeOK', jbox \/ jbox_restart
  PROVE  SafeInv'
<1>1. UNCHANGED <<dockerVars, backupVars, launchVars, cpc>>
  BY DEF jbox, jbox_restart, try_launch_container, do_monitor_loading, ping,
         handle_if_logout, maintain_list, maintain, jboxVars
<1>2. \/ UNCHANGED inbox
      \/ \E cmd \in {last, Launch} : push(cmd)
  BY DEF jbox, jbox_restart, try_launch_container, do_monitor_loading, ping,
         handle_if_logout, maintain_list, maintain, exists
<1> QED BY <1>1, <1>2, AsideSafeInv

\* Edits are made on a running container, which no cleanup has got hold of.
LEMMA UserSafeInv ==
  ASSUME SafeInv, TypeOK', edit \/ close_browser \/ ping_ages \/ user_lapses \/ container_exits
  PROVE  SafeInv'
<1>1. CASE edit
  <2>1. home' = Made'
    <3>1. home = Made
      BY <1>1 DEF edit, SafeInv, WorkInv, is_running, TypeOK, CleanupStages, CleanupsAreOfLast
    <3>2. Made' = Made \cup {work + 1}
      BY <1>1 DEF edit, Made, SafeInv, TypeOK
    <3> QED BY <1>1, <3>1, <3>2 DEF edit
  <2>2. cpc[last] \in {"idle", "stop", "delete"}
    BY <1>1 DEF edit, SafeInv, WorkInv, is_running, TypeOK, CleanupStages, CleanupsAreOfLast
  <2>3. CleanupsAreOfLast' /\ Exclusive' /\ LaunchInv'
    BY <1>1 DEF edit, SafeInv, CleanupsAreOfLast, Exclusive, launching, LaunchInv, exists,
                is_running, launchVars
  <2>4. WorkInv'
    BY <1>1, <2>1, <2>2 DEF edit, WorkInv, is_running
  <2> QED BY <2>3, <2>4 DEF SafeInv
<1>2. CASE close_browser \/ ping_ages \/ user_lapses
  <2>1. UNCHANGED <<inbox, dockerVars, backupVars, launchVars, cpc>>
    BY <1>2 DEF close_browser, ping_ages, user_lapses
  <2> QED BY <2>1, AsideSafeInv
<1>3. CASE container_exits
  <2>1. CleanupsAreOfLast' /\ Exclusive' /\ LaunchInv'
    BY <1>3 DEF container_exits, SafeInv, CleanupsAreOfLast, Exclusive, launching, LaunchInv,
                exists, is_running, launchVars, Made
  <2>2. WorkInv'
    BY <1>3 DEF container_exits, SafeInv, WorkInv, is_running, Saved, pulled, backupVars, Made
  <2> QED BY <2>1, <2>2 DEF SafeInv
<1> QED BY <1>1, <1>2, <1>3

\* A cleanup is started only while no launch is past its wait.
LEMMA ReceiveSafeInv ==
  ASSUME Undisturbed, SafeInv, TypeOK', receive
  PROVE  SafeInv'
<1> USE DEF SafeInv, dockerVars, backupVars, launchVars
<1>0. \A i \in DOMAIN inbox' : inbox'[i] <= last
  BY DEF receive, TypeOK, CleanupsAreOfLast
<1>1. CASE Head(inbox) = Launch
  <2>1. /\ UNCHANGED <<cpc, last, cont, home, work, tar, s3, lcid, lhome>>
        /\ lpc' = IF lpc = "idle" THEN "wait" ELSE lpc
    BY <1>1 DEF receive
  <2>2. CleanupsAreOfLast' /\ Exclusive' /\ LaunchInv'
    BY <1>0, <2>1 DEF CleanupsAreOfLast, Exclusive, launching, LaunchInv, exists, Made
  <2>3. WorkInv'
    BY <2>1 DEF WorkInv, Saved, pulled, is_running, Made
  <2> QED BY <2>2, <2>3
<1>2. CASE Head(inbox) # Launch
  <2> DEFINE c == Head(inbox)
  <2>1. c \in Conts /\ c <= last
    BY <1>2 DEF receive, TypeOK, CleanupsAreOfLast, Commands
  <2>2. UNCHANGED <<dockerVars, backupVars, launchVars>> /\ ~launching
    BY <1>2 DEF receive, Undisturbed
  <2>3. cpc' = [cpc EXCEPT ![c] = IF @ = "idle" THEN "stop" ELSE @]
    BY <1>2 DEF receive
  <2>4. /\ cpc'[c] = IF cpc[c] = "idle" THEN "stop" ELSE cpc[c]
        /\ \A d \in Conts \ {c} : cpc'[d] = cpc[d]
    BY <2>1, <2>3 DEF TypeOK
  <2> HIDE DEF c
  <2>5. CleanupsAreOfLast' /\ Exclusive' /\ LaunchInv'
    BY <1>0, <2>1, <2>2, <2>4 DEF CleanupsAreOfLast, Exclusive, launching, LaunchInv, exists, Made
  <2>6. WorkInv'
    BY <2>1, <2>2, <2>4 DEF WorkInv, Saved, pulled, is_running, Made, CleanupsAreOfLast
  <2> QED BY <2>5, <2>6
<1> QED BY <1>1, <1>2

\* While a launch is past its wait no cleanup has got hold of its container.
LEMMA LaunchSafeInv ==
  ASSUME Undisturbed, SafeInv, TypeOK', launch_session
  PROVE  SafeInv'
<1> USE NothingFails DEF SafeInv, dockerVars, backupVars, launchVars, to
<1>1. CASE wait_for_session_backup
  <2>1. UNCHANGED <<inbox, dockerVars, backupVars, lcid, lhome, cpc>> /\ lpc = "wait" /\ lpc' = "look"
    BY <1>1 DEF wait_for_session_backup
  <2>2. cont # "gone" => cpc[last] = "idle"
    BY <1>1 DEF wait_for_session_backup, Undisturbed, cleaning
  <2>3. CleanupsAreOfLast' /\ Exclusive' /\ LaunchInv' /\ WorkInv'
    BY <2>1, <2>2 DEF CleanupsAreOfLast, Exclusive, LaunchInv, WorkInv, exists, is_running,
                      Saved, pulled, Made
  <2> QED BY <2>3
<1>2. CASE launch_by_name
  <2>1. UNCHANGED <<inbox, dockerVars, backupVars, lhome, cpc>> /\ lpc = "look"
    BY <1>2 DEF launch_by_name
  <2>2. \/ cont # "gone" /\ lpc' = "start" /\ lcid' = last
        \/ cont = "gone" /\ lpc' = "restore" /\ lcid' = lcid
    BY <1>2 DEF launch_by_name
  <2>3. CleanupsAreOfLast' /\ Exclusive' /\ LaunchInv' /\ WorkInv'
    BY <2>1, <2>2 DEF CleanupsAreOfLast, Exclusive, launching, LaunchInv, WorkInv, exists,
                      is_running, Saved, pulled, Made
  <2> QED BY <2>3
<1>3. CASE restore
  <2>1. /\ UNCHANGED <<inbox, dockerVars, s3, lcid, cpc>>
        /\ lpc = "restore" /\ lpc' = "create"
        /\ lhome' = Saved
        /\ tar' = IF pulled THEN None ELSE tar
    BY <1>3 DEF restore, Saved, pulled
  <2>2. cont = "gone" /\ Saved = Made /\ Saved' = Saved
    BY <2>1 DEF LaunchInv, WorkInv, Saved, pulled
  <2>3. CleanupsAreOfLast' /\ Exclusive' /\ LaunchInv' /\ WorkInv'
    BY <2>1, <2>2 DEF CleanupsAreOfLast, Exclusive, LaunchInv, WorkInv, exists, Made
  <2> QED BY <2>3
<1>4. CASE create_new
  <2>1. /\ UNCHANGED <<inbox, lhome, work, backupVars, cpc>>
        /\ lpc = "create" /\ lpc' = "start" /\ cont = "gone"
        /\ last' = last + 1 /\ lcid' = last + 1 /\ cont' = "created" /\ home' = lhome
    BY <1>4 DEF create_new, LaunchInv
  <2>2. last \in Nat /\ last' \in Conts /\ \A c \in Conts : c <= last => c <= last' /\ c # last'
    BY <2>1, BoundsAssumption DEF TypeOK, Conts, NoCont
  <2>3. cpc'[last'] = "idle"
    BY <2>1, <2>2 DEF CleanupsAreOfLast
  <2>4. \A i \in DOMAIN inbox' : inbox'[i] <= last'
    <3>1. \A n \in Commands : n <= last => n <= last'
      BY <2>1, <2>2 DEF Commands, Conts, Launch
    <3>2. \A i \in DOMAIN inbox : inbox[i] \in Commands
      BY DEF TypeOK
    <3> QED BY <2>1, <3>1, <3>2 DEF CleanupsAreOfLast
  <2>5. CleanupsAreOfLast' /\ Exclusive' /\ LaunchInv'
    BY <2>1, <2>2, <2>3, <2>4 DEF CleanupsAreOfLast, Exclusive, LaunchInv, exists
  <2>6. WorkInv'
    BY <2>1, <2>3 DEF WorkInv, LaunchInv, Made
  <2> QED BY <2>5, <2>6
<1>5. CASE start
  <2>1. /\ UNCHANGED <<inbox, last, home, work, lcid, lhome, backupVars, cpc>>
        /\ lpc = "start" /\ lpc' = "perf" /\ cont' = "running" /\ cont # "gone" /\ lcid = last
    BY <1>5 DEF start, LaunchInv, exists
  <2>2. cpc[last] = "idle"
    BY <2>1 DEF Exclusive, launching
  <2>3. CleanupsAreOfLast' /\ Exclusive' /\ LaunchInv' /\ WorkInv'
    BY <2>1, <2>2 DEF CleanupsAreOfLast, Exclusive, LaunchInv, WorkInv, exists, Made
  <2> QED BY <2>3
<1>6. CASE abort \/ discard
  BY <1>6 DEF abort, discard, LaunchInv
<1>7. CASE publish_perf_counters
  <2>1. UNCHANGED <<inbox, dockerVars, backupVars, lcid, lhome, cpc>> /\ lpc' = "idle"
    BY <1>7 DEF publish_perf_counters
  <2>2. CleanupsAreOfLast' /\ Exclusive' /\ LaunchInv' /\ WorkInv'
    BY <2>1 DEF CleanupsAreOfLast, Exclusive, launching, LaunchInv, WorkInv, exists, is_running,
                Saved, pulled, Made
  <2> QED BY <2>2
<1> QED BY <1>1, <1>2, <1>3, <1>4, <1>5, <1>6, <1>7 DEF launch_session

\* A cleanup thread past its first step has the container to itself.
LEMMA CleanupHolds ==
  ASSUME SafeInv, NEW c \in Conts, cpc[c] # "idle", exists(c)
  PROVE  /\ c = last /\ cont # "gone" /\ ~launching
         /\ \A d \in Conts \ {c} : cpc[d] \in {"idle", "stop"}
<1>1. c = last /\ cont # "gone"
  BY DEF exists
<1>2. ~launching
  BY <1>1 DEF SafeInv, Exclusive
<1>3. \A d \in Conts \ {c} : cpc[d] \in {"idle", "stop"}
  BY <1>1 DEF SafeInv, CleanupsAreOfLast, exists
<1> QED BY <1>1, <1>2, <1>3

\* A cleanup takes the work from the disk to the tar and from there to the
\* bucket store, and every step leaves it in one of them.
LEMMA CleanupSafeInv ==
  ASSUME Undisturbed, SafeInv, TypeOK', NEW c \in Conts, backup_and_cleanup(c)
  PROVE  SafeInv'
<1> USE NothingFails DEF SafeInv
<1>1. ASSUME NEW a, NEW b, go(c, a, b)
      PROVE  cpc[c] = a /\ cpc'[c] = b /\ \A d \in Conts \ {c} : cpc'[d] = cpc[d]
  BY <1>1 DEF go, TypeOK
<1>2. CASE stop(c) /\ ~exists(c)
  <2>1. UNCHANGED <<inbox, last, cont, home, work, backupVars, launchVars>> /\ go(c, "stop", "idle")
    BY <1>2 DEF stop
  <2>2. cpc'[c] = "idle" /\ \A d \in Conts \ {c} : cpc'[d] = cpc[d]
    BY <1>1, <2>1
  <2>3. cont # "gone" => last \in Conts \ {c}
    BY <1>2 DEF exists, CleanupsAreOfLast
  <2>4. CleanupsAreOfLast' /\ Exclusive' /\ LaunchInv'
    BY <2>1, <2>2, <2>3 DEF CleanupsAreOfLast, Exclusive, launching, LaunchInv, exists, launchVars, Made
  <2>5. WorkInv'
    BY <2>1, <2>2, <2>3 DEF WorkInv, Saved, pulled, is_running, Made, backupVars
  <2> QED BY <2>4, <2>5
<1>3. CASE ~(stop(c) /\ ~exists(c))
  <2>1. exists(c) /\ cpc[c] # "idle" /\ UNCHANGED <<last, work, launchVars, inbox>>
    <3>1. cpc[c] \notin {"idle", "stop"} => exists(c)
      BY DEF CleanupsAreOfLast
    <3> QED BY <1>3, <3>1 DEF backup_and_cleanup, stop, delete, backup, clear_volume,
              push_to_bucketstore, refresh_disk, remove_container, go, dockerVars
  <2>2. /\ c = last /\ cont # "gone" /\ ~launching
        /\ \A d \in Conts \ {c} : cpc[d] \in {"idle", "stop"}
    BY <2>1, CleanupHolds
  <2>3. \A d \in Conts \ {c} : cpc'[d] = cpc[d]
    BY <1>1 DEF backup_and_cleanup, stop, delete, backup, clear_volume,
              push_to_bucketstore, refresh_disk, remove_container
  <2>4. Exclusive'
    BY <2>1, <2>2 DEF Exclusive, launching, launchVars
  <2>5. LaunchInv'
    BY <2>1, <2>2 DEF LaunchInv, launching, launchVars
  <2>6. CASE stop(c)
    <3>1. /\ UNCHANGED <<home, tar, s3>> /\ cont' # "gone"
          /\ cpc[c] = "stop" /\ cpc'[c] = "delete"
      BY <1>1, <2>1, <2>2, <2>6 DEF stop, backupVars
    <3>2. CleanupsAreOfLast'
      BY <2>1, <2>2, <2>3, <3>1 DEF CleanupsAreOfLast, exists
    <3>3. WorkInv'
      BY <2>1, <2>2, <3>1 DEF WorkInv, Made
    <3> QED BY <2>4, <2>5, <3>2, <3>3
  <2>7. CASE delete(c)
    <3>1. /\ UNCHANGED <<home, tar, s3>> /\ cont' \notin {"gone", "running"}
          /\ cpc[c] = "delete" /\ cpc'[c] = "tar"
      BY <1>1, <2>1, <2>2, <2>7 DEF delete, backupVars, is_running
    <3>2. CleanupsAreOfLast'
      BY <2>1, <2>2, <2>3, <3>1 DEF CleanupsAreOfLast, exists
    <3>3. WorkInv'
      BY <2>1, <2>2, <3>1 DEF WorkInv, Made, is_running
    <3> QED BY <2>4, <2>5, <3>2, <3>3
  <2>8. CASE backup(c)
    <3>1. /\ UNCHANGED <<home, cont, s3>> /\ tar' = home
          /\ cpc[c] = "tar" /\ cpc'[c] = "clear"
      BY <1>1, <2>2, <2>8 DEF backup, disk_of, dockerVars
    <3>2. CleanupsAreOfLast'
      BY <2>1, <2>2, <2>3, <3>1 DEF CleanupsAreOfLast, exists
    <3>3. WorkInv'
      BY <2>1, <2>2, <3>1 DEF WorkInv, Made, is_running
    <3> QED BY <2>4, <2>5, <3>2, <3>3
  <2>9. CASE clear_volume(c)
    <3>1. /\ UNCHANGED <<cont, tar, s3>>
          /\ cpc[c] = "clear" /\ cpc'[c] = "push"
      BY <1>1, <2>9 DEF clear_volume, backupVars
    <3>2. CleanupsAreOfLast'
      BY <2>1, <2>2, <2>3, <3>1 DEF CleanupsAreOfLast, exists
    <3>3. WorkInv'
      BY <2>1, <2>2, <3>1 DEF WorkInv, Made, is_running
    <3> QED BY <2>4, <2>5, <3>2, <3>3
  <2>10. CASE push_to_bucketstore(c)
    <3>1. tar = Made /\ cpc[c] = "push" /\ tar # None
      <4>1. cpc[c] = "push"
        BY <1>1, <2>10 DEF push_to_bucketstore
      <4>2. tar = Made
        BY <2>2, <4>1 DEF WorkInv
      <4>3. Made \in SUBSET Edits
        BY BoundsAssumption DEF Made, Edits, TypeOK
      <4> QED BY <4>1, <4>2, <4>3, NoneAssumption
    <3>2. /\ UNCHANGED cont /\ cpc'[c] = "refresh"
          /\ IF Bucket THEN s3' = tar /\ tar' = None ELSE UNCHANGED <<tar, s3>>
      BY <1>1, <2>10, <3>1 DEF push_to_bucketstore, dockerVars, backupVars
    <3>3. CleanupsAreOfLast'
      BY <2>1, <2>2, <2>3, <3>2 DEF CleanupsAreOfLast, exists
    <3>4. Saved' = Made /\ Made' = Made
      BY <2>1, <3>1, <3>2 DEF Saved, pulled, Made
    <3>5. WorkInv'
      BY <2>1, <2>2, <3>1, <3>2, <3>4 DEF WorkInv, is_running
    <3> QED BY <2>4, <2>5, <3>3, <3>5
  <2>11. CASE refresh_disk(c)
    <3>1. /\ UNCHANGED <<cont, tar, s3>>
          /\ cpc[c] = "refresh" /\ cpc'[c] = "remove"
      BY <1>1, <2>11 DEF refresh_disk, backupVars
    <3>2. CleanupsAreOfLast'
      BY <2>1, <2>2, <2>3, <3>1 DEF CleanupsAreOfLast, exists
    <3>3. WorkInv'
      BY <2>1, <2>2, <3>1 DEF WorkInv, Made, is_running, Saved, pulled
    <3> QED BY <2>4, <2>5, <3>2, <3>3
  <2>12. CASE remove_container(c)
    <3>1. /\ UNCHANGED <<tar, s3>>
          /\ cpc[c] = "remove" /\ cpc'[c] = "idle"
      BY <1>1, <2>12 DEF remove_container, backupVars
    <3>2. cont' = "gone"
      BY <2>1, <2>2, <2>12, <3>1 DEF remove_container, WorkInv
    <3>3. CleanupsAreOfLast'
      BY <2>1, <2>2, <2>3, <3>1, <3>2 DEF CleanupsAreOfLast, exists
    <3>4. WorkInv'
      BY <2>1, <2>2, <3>1, <3>2 DEF WorkInv, Made, Saved, pulled
    <3> QED BY <2>4, <2>5, <3>3, <3>4
  <2> QED BY <2>6, <2>7, <2>8, <2>9, <2>10, <2>11, <2>12 DEF backup_and_cleanup
<1> QED BY <1>2, <1>3

LEMMA NextSafeInv == Undisturbed /\ SafeInv /\ [Next]_vars => SafeInv'
<1> SUFFICES ASSUME Undisturbed, SafeInv, [Next]_vars
             PROVE  SafeInv'
  OBVIOUS
<1>1. TypeOK'
  BY NextTypeOK DEF SafeInv
<1>2. CASE Next
  <2>1. ~jboxd_restart
    BY NothingFails DEF jboxd_restart
  <2> QED BY <1>1, <1>2, <2>1, JBoxSafeInv, UserSafeInv, ReceiveSafeInv, LaunchSafeInv,
             CleanupSafeInv DEF Next
<1>3. CASE UNCHANGED vars
  <2>1. UNCHANGED <<inbox, dockerVars, backupVars, launchVars, cpc>>
    BY <1>3 DEF vars
  <2> QED BY <1>1, <2>1, AsideSafeInv
<1> QED BY <1>2, <1>3

THEOREM SafeInvariance == ASSUME Undisturbed PROVE Spec => []SafeInv
<1>1. Init => SafeInv
  BY InitSafeInv
<1>2. SafeInv /\ [Next]_vars => SafeInv'
  BY NextSafeInv
<1> QED BY <1>1, <1>2, PTL DEF Spec

\* The disk of a session, the local tar and the bucket store: at any moment one
\* of them holds all the user ever did (_backup, restore, _create_new).
THEOREM WorkKept == ASSUME Undisturbed PROVE Spec => []NoLostWork
<1>1. SafeInv => NoLostWork
  <2> SUFFICES ASSUME SafeInv
               PROVE  NoLostWork
    OBVIOUS
  <2>1. Saved = Made => tar = Made \/ s3 = Made \/ work = 0
    <3>1. Made = {} => work = 0
      BY DEF Made, SafeInv, TypeOK
    <3> QED BY <3>1 DEF Saved
  <2>2. cont # "gone" =>
          cpc[last] \in {"idle", "stop", "delete", "tar", "clear", "push", "refresh", "remove"}
    BY DEF SafeInv, CleanupsAreOfLast, TypeOK, CleanupStages
  <2> QED BY <2>1, <2>2 DEF NoLostWork, SafeInv, WorkInv
<1> QED BY <1>1, SafeInvariance, PTL

\* A running session shows all the user ever did, however often it was cleaned
\* up and launched again (_wait_for_session_backup, restore, _backup).
THEOREM OwnFilesSeen == ASSUME Undisturbed PROVE Spec => []SeesOwnFiles
<1>1. SafeInv => SeesOwnFiles
  <2> SUFFICES ASSUME SafeInv, is_running
               PROVE  home = Made
    BY DEF SeesOwnFiles
  <2>1. cont # "gone" /\ cpc[last] \in CleanupStages
    BY DEF is_running, SafeInv, CleanupsAreOfLast, TypeOK
  <2> QED BY <2>1 DEF SafeInv, WorkInv, CleanupStages
<1> QED BY <1>1, SafeInvariance, PTL

-----------------------------------------------------------------------------
(* What holds whatever fails: a cleanup clears nothing that is not saved.   *)

\* Launches and cleanups keep clear of each other, and that is all.
Ordered == Quick /\ Patient

\* What a cleanup that is about to clear the disk has in the tar, and what it
\* has left on the disk afterwards.
BackupInv ==
  cont # "gone" =>
    /\ cpc[last] = "clear" => tar = home
    /\ cpc[last] \in {"push", "refresh"} => home = {}
    /\ cpc[last] \in {"tar", "clear", "push", "refresh"} => ~is_running

FaultInv == TypeOK /\ CleanupsAreOfLast /\ Exclusive /\ BackupInv

LEMMA InitFaultInv == Init => FaultInv
<1> SUFFICES ASSUME Init
             PROVE  FaultInv
  OBVIOUS
<1>1. TypeOK
  BY InitTypeOK
<1>2. CleanupsAreOfLast /\ Exclusive /\ BackupInv
  BY DEF Init, CleanupsAreOfLast, Exclusive, launching, BackupInv
<1> QED BY <1>1, <1>2 DEF FaultInv

\* What JBox and the user do.
LEMMA OutsideFaultInv ==
  ASSUME FaultInv, TypeOK', UNCHANGED <<last, tar, lpc, cpc>>,
         \/ UNCHANGED inbox
         \/ \E cmd \in {last, Launch} : push(cmd),
         \/ UNCHANGED <<cont, home>>
         \/ is_running /\ cont' # "gone"
  PROVE  FaultInv'
<1> USE DEF FaultInv
<1>1. \A i \in DOMAIN inbox' : inbox'[i] <= last
  <2>1. CASE UNCHANGED inbox
    BY <2>1 DEF CleanupsAreOfLast
  <2>2. ASSUME NEW cmd \in {last, Launch}, push(cmd)
        PROVE  \A i \in DOMAIN inbox' : inbox'[i] <= last
    <3>1. last \in Nat /\ cmd <= last
      BY BoundsAssumption DEF TypeOK, Conts, NoCont, Launch
    <3> QED BY <2>2, <3>1 DEF push, TypeOK, CleanupsAreOfLast
  <2> QED BY <2>1, <2>2
<1>2. CleanupsAreOfLast'
  BY <1>1 DEF CleanupsAreOfLast, exists, is_running
<1>3. Exclusive'
  BY DEF Exclusive, launching, is_running
<1>4. BackupInv'
  BY DEF BackupInv, is_running
<1> QED BY <1>2, <1>3, <1>4

LEMMA ReceiveFaultInv ==
  ASSUME Ordered, FaultInv, TypeOK', receive \/ jboxd_restart
  PROVE  FaultInv'
<1> USE DEF FaultInv
<1>1. CASE receive /\ Head(inbox) = Launch
  <2>1. /\ UNCHANGED <<cpc, last, cont, home, tar>>
        /\ lpc' = IF lpc = "idle" THEN "wait" ELSE lpc
    BY <1>1 DEF receive, dockerVars, backupVars
  <2>2. \A i \in DOMAIN inbox' : inbox'[i] <= last
    BY <1>1 DEF receive, TypeOK, CleanupsAreOfLast
  <2>3. CleanupsAreOfLast' /\ Exclusive'
    BY <2>1, <2>2 DEF CleanupsAreOfLast, Exclusive, launching, exists
  <2>4. BackupInv'
    BY <2>1 DEF BackupInv, is_running
  <2> QED BY <2>3, <2>4
<1>2. CASE receive /\ Head(inbox) # Launch
  <2> DEFINE c == Head(inbox)
  <2>1. c \in Conts /\ c <= last
    BY <1>2 DEF receive, TypeOK, CleanupsAreOfLast, Commands
  <2>2. UNCHANGED <<last, cont, home, tar, lpc>> /\ ~launching
    BY <1>2 DEF receive, Ordered, dockerVars, backupVars
  <2>3. cpc' = [cpc EXCEPT ![c] = IF @ = "idle" THEN "stop" ELSE @]
    BY <1>2 DEF receive
  <2>4. /\ cpc'[c] = IF cpc[c] = "idle" THEN "stop" ELSE cpc[c]
        /\ \A d \in Conts \ {c} : cpc'[d] = cpc[d]
    BY <2>1, <2>3 DEF TypeOK
  <2>5. \A i \in DOMAIN inbox' : inbox'[i] <= last
    BY <1>2 DEF receive, TypeOK, CleanupsAreOfLast
  <2> HIDE DEF c
  <2>6. CleanupsAreOfLast' /\ Exclusive'
    BY <2>1, <2>2, <2>4, <2>5 DEF CleanupsAreOfLast, Exclusive, launching, exists
  <2>7. BackupInv'
    BY <2>1, <2>2, <2>4 DEF BackupInv, is_running, CleanupsAreOfLast
  <2> QED BY <2>6, <2>7
<1>3. CASE jboxd_restart
  <2>1. UNCHANGED <<last, cont, home>> /\ \A c \in Conts : cpc'[c] = "idle"
    BY <1>3 DEF jboxd_restart, dockerVars
  <2>2. PICK i \in 1 .. Len(inbox) + 1 : inbox' = SubSeq(inbox, i, Len(inbox))
    BY <1>3 DEF jboxd_restart
  <2>3. \A k \in DOMAIN inbox' : inbox'[k] <= last
    BY <2>2 DEF TypeOK, CleanupsAreOfLast
  <2>4. CleanupsAreOfLast' /\ Exclusive' /\ BackupInv'
    BY <2>1, <2>3 DEF CleanupsAreOfLast, Exclusive, BackupInv
  <2> QED BY <2>4
<1> QED BY <1>1, <1>2, <1>3

LEMMA LaunchFaultInv ==
  ASSUME Ordered, FaultInv, TypeOK', launch_session
  PROVE  FaultInv'
<1> USE DEF FaultInv, to
<1>1. CASE wait_for_session_backup
  <2>1. UNCHANGED <<inbox, last, cont, home, tar, cpc>>
    BY <1>1 DEF wait_for_session_backup, dockerVars, backupVars
  <2>2. cont # "gone" => cpc[last] = "idle"
    BY <1>1 DEF wait_for_session_backup, Ordered, cleaning
  <2>3. CleanupsAreOfLast' /\ Exclusive' /\ BackupInv'
    BY <2>1, <2>2 DEF CleanupsAreOfLast, Exclusive, BackupInv, exists
  <2> QED BY <2>3
<1>2. CASE create_new /\ cont = "gone" /\ last' = last + 1
  <2>1. UNCHANGED <<inbox, cpc>> /\ cont = "gone" /\ cont' # "gone"
    BY <1>2 DEF create_new
  <2>2. last \in Nat /\ last' \in Conts /\ \A c \in Conts : c <= last => c <= last' /\ c # last'
    BY <1>2, BoundsAssumption DEF TypeOK, Conts, NoCont, create_new
  <2>3. cpc'[last'] = "idle"
    BY <2>1, <2>2 DEF CleanupsAreOfLast
  <2>4. \A i \in DOMAIN inbox' : inbox'[i] <= last'
    <3>1. \A n \in Commands : n <= last => n <= last'
      BY <1>2, <2>2 DEF Commands, Conts, Launch
    <3>2. \A i \in DOMAIN inbox : inbox[i] \in Commands
      BY DEF TypeOK
    <3> QED BY <2>1, <3>1, <3>2 DEF CleanupsAreOfLast
  <2>5. CleanupsAreOfLast' /\ Exclusive' /\ BackupInv'
    BY <2>1, <2>2, <2>3, <2>4 DEF CleanupsAreOfLast, Exclusive, BackupInv, exists
  <2> QED BY <2>5
<1>3. CASE ~wait_for_session_backup /\ ~(create_new /\ cont = "gone" /\ last' = last + 1)
  <2>1. UNCHANGED <<inbox, last, cpc>> /\ launching
    BY <1>3 DEF launch_session, launch_by_name, restore, create_new, start, abort, discard,
                publish_perf_counters, launching, dockerVars
  <2>2. cont # "gone" => cpc[last] = "idle"
    BY <2>1 DEF Exclusive
  <2>3. cont' # "gone" => cont # "gone"
    BY <1>3 DEF launch_session, launch_by_name, restore, create_new, start, abort, discard,
                publish_perf_counters, exists, dockerVars
  <2>4. CleanupsAreOfLast' /\ Exclusive' /\ BackupInv'
    BY <2>1, <2>2, <2>3 DEF CleanupsAreOfLast, Exclusive, BackupInv, exists
  <2> QED BY <2>4
<1> QED BY <1>1, <1>2, <1>3

LEMMA CleanupFaultInv ==
  ASSUME FaultInv, TypeOK', NEW c \in Conts, backup_and_cleanup(c)
  PROVE  FaultInv'
<1> USE DEF FaultInv
<1>1. ASSUME NEW a, NEW b, go(c, a, b)
      PROVE  cpc[c] = a /\ cpc'[c] = b /\ \A d \in Conts \ {c} : cpc'[d] = cpc[d]
  BY <1>1 DEF go, TypeOK
<1>2. UNCHANGED <<inbox, last, lpc>> /\ \A d \in Conts \ {c} : cpc'[d] = cpc[d]
  BY <1>1 DEF backup_and_cleanup, stop, delete, backup, clear_volume, push_to_bucketstore,
              refresh_disk, remove_container, dockerVars, launchVars
<1>3. CASE ~exists(c)
  <2>1. UNCHANGED <<cont, home, tar>> /\ cpc'[c] = "idle"
    <3>1. cpc[c] \in {"idle", "stop"}
      BY <1>3 DEF CleanupsAreOfLast
    <3>2. stop(c)
      BY <3>1 DEF backup_and_cleanup, delete, backup, clear_volume, push_to_bucketstore,
                  refresh_disk, remove_container, go
    <3>3. go(c, "stop", "idle")
      BY <1>3, <3>2 DEF stop
    <3> QED BY <1>1, <1>3, <3>2, <3>3 DEF stop, backupVars
  <2>2. CleanupsAreOfLast' /\ Exclusive'
    BY <1>2, <1>3, <2>1 DEF CleanupsAreOfLast, Exclusive, launching, exists
  <2>3. BackupInv'
    BY <1>2, <1>3, <2>1 DEF BackupInv, CleanupsAreOfLast, exists, is_running
  <2> QED BY <2>2, <2>3
<1>4. CASE exists(c)
  <2>1. c = last /\ cont # "gone" /\ cpc[c] # "idle"
    BY <1>1, <1>4 DEF exists, backup_and_cleanup, stop, delete, backup, clear_volume,
              push_to_bucketstore, refresh_disk, remove_container
  <2>2. ~launching /\ \A d \in Conts \ {c} : cpc[d] \in {"idle", "stop"}
    BY <2>1 DEF Exclusive, CleanupsAreOfLast, exists
  <2>3. Exclusive'
    BY <1>2, <2>2 DEF Exclusive, launching
  <2>4. cont' = "gone" => cpc'[c] = "idle"
    BY <1>1, <2>1 DEF backup_and_cleanup, stop, delete, backup, clear_volume,
              push_to_bucketstore, refresh_disk, remove_container, dockerVars
  <2>5. CleanupsAreOfLast'
    BY <1>2, <2>1, <2>2, <2>4 DEF CleanupsAreOfLast, exists
  <2>6. CASE stop(c)
    <3>1. cpc'[c] \in {"delete", "idle"}
      BY <1>1, <2>6 DEF stop
    <3> QED BY <1>2, <2>1, <2>3, <2>5, <3>1 DEF BackupInv
  <2>7. CASE delete(c)
    <3>1. CASE go(c, "delete", "idle")
      <4>1. cpc'[c] = "idle"
        BY <1>1, <3>1
      <4> QED BY <1>2, <2>1, <2>3, <2>5, <4>1 DEF BackupInv
    <3>2. CASE ~go(c, "delete", "idle")
      <4>1. cpc'[c] \in {"tar", "remove"}
        BY <1>1, <2>7, <3>2 DEF delete
      <4>2. cont' # "running"
        BY <2>7, <3>2 DEF delete, is_running
      <4> QED BY <1>2, <2>1, <2>3, <2>5, <4>1, <4>2 DEF BackupInv, is_running
    <3> QED BY <3>1, <3>2
  <2>8. CASE backup(c)
    <3>1. cpc[c] = "tar" /\ cpc'[c] = "clear" /\ tar' = home /\ home' = home /\ cont' = cont
      BY <1>1, <2>1, <2>8 DEF backup, disk_of, dockerVars
    <3> QED BY <1>2, <2>1, <2>3, <2>5, <3>1 DEF BackupInv, is_running
  <2>9. CASE clear_volume(c)
    <3>1. cpc[c] = "clear" /\ cpc'[c] = "push" /\ home' = {} /\ cont' = cont
      BY <1>1, <2>1, <2>9 DEF clear_volume, blanked
    <3> QED BY <1>2, <2>1, <2>3, <2>5, <3>1 DEF BackupInv, is_running
  <2>10. CASE push_to_bucketstore(c)
    <3>1. cpc[c] = "push" /\ cpc'[c] \in {"refresh", "idle"} /\ home' = home /\ cont' = cont
      BY <1>1, <2>10 DEF push_to_bucketstore, dockerVars
    <3> QED BY <1>2, <2>1, <2>3, <2>5, <3>1 DEF BackupInv, is_running
  <2>11. CASE refresh_disk(c) \/ remove_container(c)
    <3>1. cpc'[c] \in {"remove", "idle"}
      BY <1>1, <2>11 DEF refresh_disk, remove_container
    <3> QED BY <1>2, <2>1, <2>3, <2>5, <3>1 DEF BackupInv
  <2> QED BY <2>6, <2>7, <2>8, <2>9, <2>10, <2>11 DEF backup_and_cleanup
<1> QED BY <1>3, <1>4

LEMMA NextFaultInv == Ordered /\ FaultInv /\ [Next]_vars => FaultInv'
<1> SUFFICES ASSUME Ordered, FaultInv, [Next]_vars
             PROVE  FaultInv'
  OBVIOUS
<1>1. TypeOK'
  BY NextTypeOK DEF FaultInv
<1>2. CASE jbox \/ jbox_restart
  <2>1. UNCHANGED <<last, tar, lpc, cpc, cont, home>>
    BY <1>2 DEF jbox, jbox_restart, try_launch_container, do_monitor_loading, ping,
           handle_if_logout, maintain_list, maintain, jboxVars, dockerVars, backupVars, launchVars
  <2>2. \/ UNCHANGED inbox
        \/ \E cmd \in {last, Launch} : push(cmd)
    BY <1>2 DEF jbox, jbox_restart, try_launch_container, do_monitor_loading, ping,
           handle_if_logout, maintain_list, maintain, exists
  <2> QED BY <1>1, <2>1, <2>2, OutsideFaultInv
<1>3. CASE \/ edit \/ close_browser \/ ping_ages \/ user_lapses \/ container_exits
           \/ UNCHANGED vars
  <2>1. UNCHANGED <<last, tar, lpc, cpc, inbox>>
    BY <1>3 DEF edit, close_browser, ping_ages, user_lapses, container_exits, vars,
           dockerVars, backupVars, launchVars
  <2>2. \/ UNCHANGED <<cont, home>>
        \/ is_running /\ cont' # "gone"
    BY <1>3 DEF edit, close_browser, ping_ages, user_lapses, container_exits, vars,
           dockerVars, is_running
  <2> QED BY <1>1, <2>1, <2>2, OutsideFaultInv
<1>4. CASE receive \/ jboxd_restart
  BY <1>1, <1>4, ReceiveFaultInv
<1>5. CASE launch_session
  BY <1>1, <1>5, LaunchFaultInv
<1>6. CASE \E c \in Conts : backup_and_cleanup(c)
  BY <1>1, <1>6, CleanupFaultInv
<1> QED BY <1>2, <1>3, <1>4, <1>5, <1>6 DEF Next

THEOREM FaultInvariance == ASSUME Ordered PROVE Spec => []FaultInv
<1>1. Init => FaultInv
  BY InitFaultInv
<1>2. FaultInv /\ [Next]_vars => FaultInv'
  BY NextFaultInv
<1> QED BY <1>1, <1>2, PTL DEF Spec

\* A step that takes edits off the disk, if it is one of a cleanup.
SavesWhatItClears ==
  \A c \in Conts : cpc'[c] # cpc[c] =>
    \A e \in home \ home' : \E b \in {tar', s3'} : b # None /\ e \in b

LEMMA StepSaves == FaultInv /\ [Next]_vars => SavesWhatItClears
<1> SUFFICES ASSUME FaultInv, [Next]_vars
             PROVE  SavesWhatItClears
  OBVIOUS
<1>1. CASE UNCHANGED cpc \/ home' = home
  BY <1>1 DEF SavesWhatItClears
<1>2. ASSUME NEW c \in Conts, clear_volume(c)
      PROVE  SavesWhatItClears
  <2>1. cpc[c] = "clear" /\ tar' = tar
    BY <1>2 DEF clear_volume, go, backupVars
  <2>2. c = last /\ cont # "gone"
    BY <2>1 DEF FaultInv, CleanupsAreOfLast, exists
  <2>3. tar' = home /\ tar' # None
    BY <2>1, <2>2, NoneAssumption DEF FaultInv, BackupInv, TypeOK
  <2> QED BY <2>3 DEF SavesWhatItClears
<1>3. ASSUME NEW c \in Conts, refresh_disk(c)
      PROVE  SavesWhatItClears
  <2>1. cpc[c] = "refresh"
    BY <1>3 DEF refresh_disk, go
  <2>2. c = last /\ cont # "gone"
    BY <2>1 DEF FaultInv, CleanupsAreOfLast, exists
  <2>3. home = {}
    BY <2>1, <2>2 DEF FaultInv, BackupInv
  <2> QED BY <2>3 DEF SavesWhatItClears
<1>4. CASE \/ UNCHANGED vars \/ jbox \/ jbox_restart \/ receive \/ launch_session \/ jboxd_restart
           \/ edit \/ close_browser \/ ping_ages \/ user_lapses \/ container_exits
  <2>1. UNCHANGED cpc \/ home' = home
    BY <1>4 DEF vars, jbox, jbox_restart, try_launch_container, do_monitor_loading, ping,
           handle_if_logout, maintain_list, maintain, receive, jboxd_restart, launch_session,
           wait_for_session_backup, launch_by_name, restore, create_new, start, abort, discard,
           publish_perf_counters, edit, close_browser, ping_ages, user_lapses, container_exits,
           dockerVars
  <2> QED BY <1>1, <2>1
<1>5. ASSUME NEW c \in Conts, stop(c) \/ delete(c) \/ backup(c) \/ push_to_bucketstore(c)
                                \/ remove_container(c)
      PROVE  SavesWhatItClears
  <2>1. home' = home
    BY <1>5 DEF stop, delete, backup, push_to_bucketstore, remove_container, dockerVars
  <2> QED BY <1>1, <2>1
<1> QED BY <1>2, <1>3, <1>4, <1>5 DEF Next, backup_and_cleanup

\* Whatever fails, and whenever JBoxd dies, a cleanup takes nothing off the
\* disk of a session that is not in a backup (_backup, refresh_disk), as long
\* as launches and cleanups keep clear of each other.
THEOREM ClearedSaved == ASSUME Ordered PROVE Spec => ClearedIsSaved
<1>1. FaultInv /\ [Next]_vars => [SavesWhatItClears]_vars
  BY StepSaves
<1>2. Spec => [][SavesWhatItClears]_vars
  BY <1>1, FaultInvariance, PTL DEF Spec
<1> QED BY <1>2 DEF ClearedIsSaved, SavesWhatItClears
=============================================================================
