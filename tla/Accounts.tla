------------------------------ MODULE Accounts ------------------------------
(***************************************************************************)
(* User accounts: rows of the table of users, made and changed by the web  *)
(* servers of the instances (login, storing of credentials, the user       *)
(* administration), and by the job that activates users who wait while     *)
(* registrations are closed.  The leader closes and opens them by the      *)
(* number of accounts made in the last hour.                               *)
(*                                                                         *)
(* A web server handles one request at a time.  boto saves a fetched row   *)
(* only if it is as it was fetched, and raises otherwise; an exception     *)
(* ends the request, or the job.  A fetch and the save right after it are  *)
(* one step.                                                               *)
(***************************************************************************)
EXTENDS Integers, FiniteSets

CONSTANTS
  Users, Servers, Activator,
  Newcomers,      \* users who may be without account at the start
  MaxRate,        \* registrations_hourly_rate
  MaxActivations, \* MAX_AUTO_ACTIVATIONS_PER_RUN
  MaxRequests,    \* bounds: requests to the servers
  MaxFaults       \* and calls that fail, or restarts

ASSUME AccountsAssumption ==
  /\ Activator \notin Servers /\ Newcomers \subseteq Users
  /\ {MaxRate, MaxActivations, MaxRequests, MaxFaults} \subseteq Nat /\ MaxActivations > 0

VARIABLES
  row,        \* JBoxUserV2: [st, offers, role]; st "none" where there is no row
  allowed,    \* allow_registration
  recent,     \* users whose row was made within the last hour
  at,         \* what each server and the activation job is doing
  requests, faults

accountVars == <<row, allowed, recent, at, requests, faults>>

NoRow  == [st |-> "none", offers |-> FALSE, role |-> FALSE]
Rows   == [st : {"none", "new", "requested", "granted"}, offers : BOOLEAN, role : BOOLEAN]
Idle   == [pc |-> "idle"]
Copies == {x \in DOMAIN at : at[x].pc = "activate"}

\* All accounts but the newcomers' are there; or all are, and all are administrators.
AccountsInit ==
  /\ row \in [Users -> {r \in Rows : (r.offers <=> r.role) /\ (r.offers => r.st = "granted") /\ r.st # "new"}]
  /\ \/ (\A u \in Users : row[u].st = "none" <=> u \in Newcomers) /\ recent \in SUBSET (Users \ Newcomers)
     \/ (\A u \in Users : row[u].offers) /\ recent = {}
  /\ allowed \in BOOLEAN
  /\ at = [x \in Servers \cup {Activator} |-> Idle]
  /\ requests = 0 /\ faults = 0

In(x, pc)   == at[x].pc = pc
raise(x)    == at' = [at EXCEPT ![x] = Idle]
Request(s)  == In(s, "idle") /\ requests < MaxRequests /\ requests' = requests + 1

\* Server x writes the row of u and goes on with next; the copies others hold are stale.
save(x, u, r, next) ==
  /\ row' = [row EXCEPT ![u] = r]
  /\ at' = [y \in DOMAIN at |-> IF y = x THEN next
                                ELSE IF y \in Copies /\ at[y].user = u THEN [at[y] EXCEPT !.stale = TRUE]
                                ELSE at[y]]

-----------------------------------------------------------------------------
(* Login.                                                                  *)

\* JBoxUserV2(user_id, create=True)
created(u)  == IF row[u].st = "none" THEN [NoRow EXCEPT !.st = "new"] ELSE row[u]
register(u) == recent' = IF row[u].st = "none" THEN recent \cup {u} ELSE recent

post_auth_launch_container(s, u) ==
  /\ Request(s) /\ register(u)
  /\ row' = [row EXCEPT ![u] = created(u)]
  /\ at' = [at EXCEPT ![s] = [pc |-> "activate", user |-> u, seen |-> created(u), stale |-> FALSE]]
  /\ UNCHANGED <<allowed, faults>>

\* Mutant: saved whatever the row has become.
activated_unconditionally(s) ==
  /\ In(s, "activate")
  /\ LET st == IF at[s].seen.st = "granted" \/ allowed THEN "granted" ELSE "requested" IN
     IF st = at[s].seen.st THEN raise(s) /\ UNCHANGED row
     ELSE save(s, at[s].user, [at[s].seen EXCEPT !.st = st], Idle)
  /\ UNCHANGED <<allowed, recent, requests, faults>>

is_user_activated(s) ==
  /\ In(s, "activate")
  /\ LET st == IF at[s].seen.st = "granted" \/ allowed THEN "granted" ELSE "requested" IN
     IF st = at[s].seen.st \/ at[s].stale THEN raise(s) /\ UNCHANGED row
     ELSE save(s, at[s].user, [at[s].seen EXCEPT !.st = st], Idle)
  /\ UNCHANGED <<allowed, recent, requests, faults>>

post_auth_store_credentials(s, u) ==
  /\ Request(s) /\ register(u) /\ save(s, u, created(u), Idle)
  /\ UNCHANGED <<allowed, faults>>

\* The administration sets the courses and the role to whatever it was given.
handle_update_user(s, u) ==
  /\ Request(s) /\ row[u].st # "none"
  /\ \E offers, role \in BOOLEAN : save(s, u, [row[u] EXCEPT !.offers = offers, !.role = role], Idle)
  /\ UNCHANGED <<allowed, recent, faults>>

-----------------------------------------------------------------------------
(* Activation.                                                             *)

Pending == {u \in Users : row[u].st = "requested"}

\* Mutant: registrations are closed when there are too many, and stay closed.
monitor_closing ==
  LET rate == Cardinality(recent)
      open == allowed /\ 10 * rate <= 11 * MaxRate
  IN  /\ allowed' = open
      /\ at' = IF open /\ Pending # {} /\ In(Activator, "idle") THEN [at EXCEPT ![Activator].pc = "query"] ELSE at
      /\ UNCHANGED <<row, recent, requests, faults>>

\* Ten percent over the rate closes, ten percent below it opens.  JBoxd drops a
\* second activation while one is under way.
monitor_registrations ==
  LET rate == Cardinality(recent)
      flip == (allowed /\ 10 * rate > 11 * MaxRate) \/ (~allowed /\ 10 * rate < 9 * MaxRate)
      open == IF flip THEN ~allowed ELSE allowed
  IN  /\ allowed' = open
      /\ at' = IF open /\ Pending # {} /\ In(Activator, "idle") THEN [at EXCEPT ![Activator].pc = "query"] ELSE at
      /\ UNCHANGED <<row, recent, requests, faults>>

get_pending_activations ==
  /\ In(Activator, "query")
  /\ \E todo \in SUBSET Pending :
       /\ Cardinality(todo) <= MaxActivations /\ (Pending # {} => todo # {})
       /\ at' = [at EXCEPT ![Activator] = [pc |-> "mail", todo |-> todo]]
  /\ UNCHANGED <<row, allowed, recent, requests, faults>>

\* The mail is sent before the user is activated.
send_email ==
  /\ In(Activator, "mail")
  /\ IF at[Activator].todo = {} THEN raise(Activator)
     ELSE \E u \in at[Activator].todo :
            at' = [at EXCEPT ![Activator] = [pc |-> "grant", user |-> u, todo |-> @.todo \ {u}]]
  /\ UNCHANGED <<row, allowed, recent, requests, faults>>

grant ==
  /\ In(Activator, "grant")
  /\ LET u == at[Activator].user IN
     save(Activator, u, [row[u] EXCEPT !.st = "granted"], [pc |-> "mail", todo |-> at[Activator].todo])
  /\ UNCHANGED <<allowed, recent, requests, faults>>

auto_activate == get_pending_activations \/ send_email \/ grant

hour_passes == recent # {} /\ recent' = {} /\ UNCHANGED <<row, allowed, at, requests, faults>>

fail(x) ==
  /\ ~In(x, "idle") /\ faults < MaxFaults
  /\ faults' = faults + 1 /\ raise(x)
  /\ UNCHANGED <<row, allowed, recent, requests>>

AccountsNext ==
  \/ \E s \in Servers, u \in Users :
       post_auth_launch_container(s, u) \/ post_auth_store_credentials(s, u) \/ handle_update_user(s, u)
  \/ \E s \in Servers : is_user_activated(s)
  \/ monitor_registrations \/ auto_activate \/ hour_passes
  \/ \E x \in Servers \cup {Activator} : fail(x)

\* The leader's rounds are periodic, threads go on, time passes.
AccountsFairness ==
  /\ WF_accountVars(monitor_registrations) /\ WF_accountVars(auto_activate) /\ WF_accountVars(hour_passes)

-----------------------------------------------------------------------------
(* Properties.                                                             *)

\* Nobody loses access again: whatever servers and the activation job do to one
\* row at once, and on what they read before registrations were closed or opened.
GrantedStays == [][\A u \in Users : row[u].st = "granted" => row'[u].st = "granted"]_row

\* A user who was told to wait is let in in the end, though activations fail on the
\* way: registrations are opened again, and the leader starts another activation.
Activated == \A u \in Users : row[u].st = "requested" ~> row[u].st = "granted"

=============================================================================
