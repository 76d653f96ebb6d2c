------------------------------ MODULE DiskPool ------------------------------
(***************************************************************************)
(* What a pool of pre-created disks promises: a disk is held by at most    *)
(* one holder at a time.  A holder acquires a disk nobody holds.  Actors   *)
(* may let go together, as the threads of a process do when it dies.       *)
(*                                                                         *)
(* LoopbackDisks implements this specification (see the refinement there). *)
(***************************************************************************)
CONSTANTS Disks,   \* the disks of the pool
          Actors   \* sessions and maintenance threads that use disks

VARIABLE held      \* held[d]: whoever uses disk d

TypeOK == held \in [Disks -> SUBSET Actors]

Init == held = [d \in Disks |-> {}]

Acquire(d, h) == /\ held[d] = {}
                 /\ held' = [held EXCEPT ![d] = {h}]

Release == /\ held' \in [Disks -> SUBSET Actors]
           /\ \A d \in Disks : held'[d] \subseteq held[d]

Next == \/ Release
        \/ \E d \in Disks, h \in Actors : Acquire(d, h)

Spec == Init /\ [][Next]_held
=============================================================================
