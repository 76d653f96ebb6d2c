---------------------------- MODULE SingleFlight ----------------------------
(***************************************************************************)
(* What the container manager promises to everyone who sends it a command: *)
(* at any moment at most one worker is executing a given piece of work.    *)
(* A request for work that is already being executed is absorbed by the    *)
(* execution in progress; it starts nothing.                               *)
(*                                                                         *)
(* JBoxd implements this specification with its ACTIVE table (see the      *)
(* refinement in JBoxd.tla).                                               *)
(***************************************************************************)
CONSTANTS Work,      \* the pieces of work, identified by their signature
          Workers    \* whoever executes them

VARIABLE busy        \* busy[w]: the workers executing w at this moment

TypeOK == busy \in [Work -> SUBSET Workers]

Init == busy = [w \in Work |-> {}]

Start(w, k) == /\ busy[w] = {}
               /\ busy' = [busy EXCEPT ![w] = {k}]

Finish(w, k) == /\ busy[w] = {k}
                /\ busy' = [busy EXCEPT ![w] = {}]

Next == \E w \in Work, k \in Workers : Start(w, k) \/ Finish(w, k)

Spec == Init /\ [][Next]_busy
=============================================================================
