--------------------------- MODULE Courses_proofs ---------------------------
(***************************************************************************)
(* What nobody loses again: access, and a correct answer.  Both are saves  *)
(* of rows that other servers save too, so the argument is about copies: a *)
(* copy that is not stale is the row, and whoever holds another one fails. *)
(* And what holds until something gets in the way: full credit for correct *)
(* answers, and a course offered by its administrators.                    *)
(***************************************************************************)
EXTENDS Courses, TLAPS

Keys       == [ans : Answers \cup {NoAnswer}, worth : {0, 1}, limit : Int]
Answered   == [state : {"none", "correct", "incorrect"}, ans : Answers \cup {NoAnswer},
               score : {Unscored, 0, 1}, attempts : Int]

Activating == [pc : {"activate"}, user : Users, seen : Rows, stale : BOOLEAN]
Answering  == [pc : {"answer", "first"}, user : Users, ans : Answers, key : Keys, stale : BOOLEAN]
Changing   == [pc : {"course", "key", "score", "admins", "former"}, admins : SUBSET Users,
               former : SUBSET Users, ans : Answers, limit : Limits, stale : BOOLEAN]
Asking     == [pc : {"query"}]
Mailing    == [pc : {"mail"}, todo : SUBSET Users]
Granting   == [pc : {"grant"}, user : Users, todo : SUBSET Users]
Jobs       == {Idle} \cup Activating \cup Answering \cup Changing \cup Asking \cup Mailing \cup Granting

TypeInv ==
  /\ row \in [Users -> Rows]
  /\ at \in [Servers \cup {Activator} -> Jobs]
  /\ course \subseteq Users
  /\ key \in Keys
  /\ answer \in [Users -> Answered]

\* A copy of a user's row that may be saved is the row, of a user who has one.
RowCopies ==
  \A x \in DOMAIN at : at[x].pc = "activate" =>
    at[x].seen.st # "none" /\ (~at[x].stale => at[x].seen = row[at[x].user])

\* A first record that may still be given its score has none yet.
FirstCopies ==
  \A x \in DOMAIN at : at[x].pc = "first" /\ ~at[x].stale => answer[at[x].user].score = Unscored

IInv == TypeInv /\ RowCopies /\ FirstCopies

-----------------------------------------------------------------------------
(* Records.                                                                *)

LEMMA Staling ==
  ASSUME NEW j \in Jobs, j.pc \in {"activate", "answer", "first", "score"}
  PROVE  LET k == [j EXCEPT !.stale = TRUE] IN
         /\ k \in Jobs /\ k.pc = j.pc /\ k.stale
         /\ j.pc = "activate" => k.seen = j.seen /\ k.user = j.user
         /\ j.pc \in {"answer", "first"} => k.user = j.user
<1>1. j \in Activating \cup Answering \cup Changing
  BY DEF Jobs, Idle, Asking, Mailing, Granting
<1>2. CASE j \in Activating
  BY <1>2 DEF Jobs, Activating
<1>3. CASE j \in Answering
  BY <1>3 DEF Jobs, Answering
<1>4. CASE j \in Changing
  BY <1>4 DEF Jobs, Changing
<1> QED
  BY <1>1, <1>2, <1>3, <1>4

LEMMA RowFields ==
  ASSUME NEW r \in Rows
  PROVE  /\ \A offers, role \in BOOLEAN :
              LET q == [r EXCEPT !.offers = offers, !.role = role] IN q \in Rows /\ q.st = r.st
         /\ \A st \in {"none", "new", "requested", "granted"} :
              LET q == [r EXCEPT !.st = st] IN q \in Rows /\ q.st = st
BY DEF Rows

LEMMA Kinds ==
  ASSUME NEW j \in Jobs
  PROVE  /\ j.pc = "activate" => j \in Activating
         /\ j.pc \in {"answer", "first"} => j \in Answering
         /\ j.pc \in {"course", "key", "score", "admins", "former"} => j \in Changing
         /\ j.pc = "mail" => j \in Mailing
         /\ j.pc = "grant" => j \in Granting
BY DEF Jobs, Idle, Activating, Answering, Changing, Asking, Mailing, Granting

-----------------------------------------------------------------------------
(* Steps that change one job, a row, the key or a record.                  *)

\* A job goes on with what is no copy.
LEMMA Goes ==
  ASSUME IInv, NEW x \in DOMAIN at, NEW next \in Jobs, next.pc \notin {"activate", "first"},
         at' = [at EXCEPT ![x] = next],
         row' = row, course' \subseteq Users, key' \in Keys, answer' = answer
  PROVE  IInv'
<1>1. TypeInv'
  BY DEF IInv, TypeInv
<1>2. \A y \in DOMAIN at' : at'[y].pc \in {"activate", "first"} => y # x /\ at'[y] = at[y] /\ y \in DOMAIN at
  BY DEF IInv, TypeInv
<1>3. RowCopies'
  BY <1>2 DEF IInv, RowCopies
<1>4. FirstCopies'
  BY <1>2 DEF IInv, FirstCopies
<1> QED
  BY <1>1, <1>3, <1>4 DEF IInv

LEMMA Raises ==
  ASSUME IInv, NEW x \in DOMAIN at, raise(x), row' = row, course' = course, key' = key, answer' = answer
  PROVE  IInv'
<1>1. Idle \in Jobs /\ Idle.pc \notin {"activate", "first"}
  BY DEF Jobs, Idle
<1>2. course' \subseteq Users /\ key' \in Keys
  BY DEF IInv, TypeInv
<1> QED
  BY <1>1, <1>2, Goes DEF raise

\* A saved row makes the copies of the others stale.
LEMMA Saves ==
  ASSUME IInv, NEW x \in DOMAIN at, NEW u \in Users, NEW r \in Rows, NEW next \in Jobs,
         next.pc \notin {"activate", "first"}, save(x, u, r, next),
         course' = course, key' = key, answer' = answer
  PROVE  IInv'
<1> USE DEF save
<1>1. \A y \in DOMAIN at : y \in Copies => [at[y] EXCEPT !.stale = TRUE] \in Jobs
                                           /\ [at[y] EXCEPT !.stale = TRUE].pc = "activate"
                                           /\ [at[y] EXCEPT !.stale = TRUE].stale
                                           /\ [at[y] EXCEPT !.stale = TRUE].seen = at[y].seen
  <2> TAKE y \in DOMAIN at
  <2> HAVE y \in Copies
  <2> DEFINE j == at[y]
  <2>1. j \in Jobs /\ j.pc = "activate"
    BY DEF IInv, TypeInv, Copies
  <2> HIDE DEF j
  <2>2. LET k == [j EXCEPT !.stale = TRUE] IN k \in Jobs /\ k.pc = "activate" /\ k.stale /\ k.seen = j.seen
    BY <2>1, Staling
  <2> QED
    BY <2>2 DEF j
<1> DEFINE st(y) == [at[y] EXCEPT !.stale = TRUE]
<1>2. \A y \in DOMAIN at : y \in Copies => st(y) \in Jobs /\ st(y).pc = "activate" /\ st(y).stale /\ st(y).seen = at[y].seen
  BY <1>1
<1> HIDE DEF st
<1>3. at' = [y \in DOMAIN at |-> IF y = x THEN next
                                 ELSE IF y \in Copies /\ at[y].user = u THEN st(y) ELSE at[y]]
  BY DEF st
<1> HIDE DEF save
<1>4. row' = [row EXCEPT ![u] = r]
  BY DEF save
<1>5. TypeInv'
  BY <1>2, <1>3, <1>4 DEF IInv, TypeInv
<1>6. RowCopies'
  <2> SUFFICES ASSUME NEW y \in DOMAIN at, at'[y].pc = "activate"
               PROVE  at'[y].seen.st # "none" /\ (~at'[y].stale => at'[y].seen = row'[at'[y].user])
    BY <1>3 DEF RowCopies
  <2>1. y # x
    BY <1>3
  <2>2. y \in Copies
    BY <1>3, <2>1 DEF Copies
  <2>3. at[y].pc = "activate" /\ at[y] \in Activating
    BY <2>2, Kinds DEF IInv, TypeInv, Copies
  <2>4. at[y].seen.st # "none" /\ (~at[y].stale => at[y].seen = row[at[y].user])
    BY <2>3 DEF IInv, RowCopies
  <2>5. CASE at[y].user = u
    BY <1>2, <1>3, <2>1, <2>2, <2>4, <2>5
  <2>6. CASE at[y].user # u
    <3>1. at'[y] = at[y] /\ row'[at[y].user] = row[at[y].user]
      BY <1>3, <1>4, <2>1, <2>3, <2>6 DEF IInv, TypeInv, Activating
    <3> QED
      BY <2>4, <3>1
  <2> QED
    BY <2>5, <2>6
<1>7. FirstCopies'
  <2>1. \A y \in DOMAIN at : at'[y].pc = "first" => at'[y] = at[y]
    BY <1>2, <1>3
  <2> QED
    BY <1>3, <2>1 DEF IInv, FirstCopies
<1> QED
  BY <1>5, <1>6, <1>7 DEF IInv

\* A saved key makes the copy of another upload stale.
LEMMA KeySaves ==
  ASSUME IInv, NEW x \in DOMAIN at, at[x] \in Changing, NEW k \in Keys,
         NEW pc \in {"score", "admins"}, save_key(x, k, pc),
         row' = row, course' = course, answer' = answer
  PROVE  IInv'
<1> DEFINE st(y) == [at[y] EXCEPT !.stale = TRUE]
           next  == [at[x] EXCEPT !.pc = pc]
<1>1. \A y \in DOMAIN at : at[y].pc = "score" => st(y) \in Jobs /\ st(y).pc = "score"
  <2> TAKE y \in DOMAIN at
  <2> HAVE at[y].pc = "score"
  <2> DEFINE j == at[y]
  <2>1. j \in Jobs /\ j.pc = "score"
    BY DEF IInv, TypeInv
  <2> HIDE DEF j
  <2>2. LET q == [j EXCEPT !.stale = TRUE] IN q \in Jobs /\ q.pc = "score"
    BY <2>1, Staling
  <2> QED
    BY <2>2 DEF j
<1>2. next \in Jobs /\ next.pc \in {"score", "admins"}
  <2> DEFINE j == at[x]
  <2>1. j \in Changing
    OBVIOUS
  <2> HIDE DEF j
  <2>2. [j EXCEPT !.pc = pc] \in Changing /\ [j EXCEPT !.pc = pc].pc = pc
    BY <2>1 DEF Changing
  <2> QED
    BY <2>2 DEF j, Jobs
<1>3. at' = [y \in DOMAIN at |-> IF y = x THEN next ELSE IF at[y].pc = "score" THEN st(y) ELSE at[y]]
  BY DEF save_key
<1>4. key' = k
  BY DEF save_key
<1> HIDE DEF st, next
<1>5. TypeInv'
  BY <1>1, <1>2, <1>3, <1>4 DEF IInv, TypeInv
<1>6. \A y \in DOMAIN at : at'[y].pc \in {"activate", "first"} => at'[y] = at[y]
  BY <1>1, <1>2, <1>3
<1>7. DOMAIN at' = DOMAIN at
  BY <1>3
<1>8. RowCopies' /\ FirstCopies'
  BY <1>6, <1>7 DEF IInv, RowCopies, FirstCopies
<1> QED
  BY <1>5, <1>8 DEF IInv

\* A saved record makes the copies of those who have just made it stale.
LEMMA AnswerSaves ==
  ASSUME IInv, NEW x \in DOMAIN at, NEW u \in Users, NEW r \in Answered, NEW next \in Jobs,
         next.pc # "activate", next.pc = "first" => next.user = u /\ r.score = Unscored,
         save_answer(x, u, r, next), row' = row, course' = course, key' = key
  PROVE  IInv'
<1> DEFINE st(y) == [at[y] EXCEPT !.stale = TRUE]
<1>1. \A y \in DOMAIN at : at[y].pc = "first" =>
        st(y) \in Jobs /\ st(y).pc = "first" /\ st(y).stale
  <2> TAKE y \in DOMAIN at
  <2> HAVE at[y].pc = "first"
  <2> DEFINE j == at[y]
  <2>1. j \in Jobs /\ j.pc = "first"
    BY DEF IInv, TypeInv
  <2> HIDE DEF j
  <2>2. LET q == [j EXCEPT !.stale = TRUE] IN q \in Jobs /\ q.pc = "first" /\ q.stale
    BY <2>1, Staling
  <2> QED
    BY <2>2 DEF j
<1>2. at' = [y \in DOMAIN at |-> IF y = x THEN next
                                 ELSE IF at[y].pc = "first" /\ at[y].user = u THEN st(y) ELSE at[y]]
  BY DEF save_answer
<1>3. answer' = [answer EXCEPT ![u] = r]
  BY DEF save_answer
<1> HIDE DEF st
<1>4. TypeInv'
  BY <1>1, <1>2, <1>3 DEF IInv, TypeInv
<1>5. DOMAIN at' = DOMAIN at
  BY <1>2
<1>6. RowCopies'
  <2>1. \A y \in DOMAIN at : at'[y].pc = "activate" => at'[y] = at[y]
    BY <1>1, <1>2
  <2> QED
    BY <1>5, <2>1 DEF IInv, RowCopies
<1>7. FirstCopies'
  <2> SUFFICES ASSUME NEW y \in DOMAIN at, at'[y].pc = "first", ~at'[y].stale
               PROVE  answer'[at'[y].user].score = Unscored
    BY <1>5 DEF FirstCopies
  <2>1. CASE y = x
    BY <1>2, <1>3, <2>1 DEF IInv, TypeInv
  <2>2. CASE y # x
    <3>1. at'[y] = at[y] /\ at[y].user # u
      BY <1>1, <1>2, <2>2
    <3>2. at[y].user \in Users
      BY <3>1, Kinds DEF IInv, TypeInv, Answering
    <3>3. answer'[at[y].user] = answer[at[y].user]
      BY <1>3, <3>1, <3>2 DEF IInv, TypeInv
    <3> QED
      BY <3>1, <3>3 DEF IInv, FirstCopies
  <2> QED
    BY <2>1, <2>2
<1> QED
  BY <1>4, <1>6, <1>7 DEF IInv

\* A login makes the row, if there is none, and takes a copy.
LEMMA LogsIn ==
  ASSUME IInv, NEW s \in Servers, NEW u \in Users, post_auth_launch_container(s, u), UNCHANGED <<course, key, answer>>
  PROVE  IInv'
<1> DEFINE next == [pc |-> "activate", user |-> u, seen |-> created(u), stale |-> FALSE]
<1>1. s \in DOMAIN at
  BY DEF IInv, TypeInv
<1>2. created(u) \in Rows /\ created(u).st # "none" /\ (row[u].st # "none" => created(u) = row[u])
  <2>1. row[u] \in Rows
    BY DEF IInv, TypeInv
  <2>2. NoRow \in Rows
    BY DEF NoRow, Rows
  <2>3. [NoRow EXCEPT !.st = "new"] \in Rows /\ [NoRow EXCEPT !.st = "new"].st = "new"
    BY <2>2, RowFields
  <2> QED
    BY <2>1, <2>3 DEF created
<1>3. next \in Jobs
  BY <1>2 DEF Jobs, Activating
<1>4. /\ row' = [row EXCEPT ![u] = created(u)]
      /\ at' = [at EXCEPT ![s] = next]
      /\ course' = course /\ key' = key /\ answer' = answer
  BY DEF post_auth_launch_container
<1>5. TypeInv'
  BY <1>2, <1>3, <1>4 DEF IInv, TypeInv
<1>6. RowCopies'
  <2> SUFFICES ASSUME NEW y \in DOMAIN at, at'[y].pc = "activate"
               PROVE  at'[y].seen.st # "none" /\ (~at'[y].stale => at'[y].seen = row'[at'[y].user])
    BY <1>4 DEF RowCopies
  <2>1. CASE y = s
    BY <1>1, <1>2, <1>4, <2>1 DEF IInv, TypeInv
  <2>2. CASE y # s
    <3>1. at'[y] = at[y] /\ at[y].user \in Users
      BY <1>4, <2>2, Kinds DEF IInv, TypeInv, Activating
    <3>2. at[y].seen.st # "none" /\ (~at[y].stale => at[y].seen = row[at[y].user])
      BY <3>1 DEF IInv, RowCopies
    <3>3. row[at[y].user].st # "none" => row'[at[y].user] = row[at[y].user]
      BY <1>2, <1>4, <3>1 DEF IInv, TypeInv
    <3> QED
      BY <3>1, <3>2, <3>3
  <2> QED
    BY <2>1, <2>2
<1>7. FirstCopies'
  BY <1>4 DEF IInv, TypeInv, FirstCopies
<1> QED
  BY <1>5, <1>6, <1>7 DEF IInv

-----------------------------------------------------------------------------
(* The steps.                                                              *)

LEMMA Start == Init => IInv
<1> SUFFICES ASSUME Init PROVE IInv
  OBVIOUS
<1>1. row \in [Users -> Rows] /\ at = [x \in Servers \cup {Activator} |-> Idle]
  BY DEF Init, AccountsInit
<1>2. course \subseteq Users
  BY DEF Init
<1>3. key \in Keys
  <2>1. Limits \subseteq Int /\ NoKey \in Keys
    BY CoursesAssumption DEF NoKey, Keys
  <2>2. CASE course = {}
    BY <2>1, <2>2 DEF Init
  <2>3. CASE course # {}
    <3>1. key \in [ans : {CHOOSE ans \in Answers : TRUE}, worth : {1}, limit : Limits]
      BY <2>3 DEF Init
    <3>2. (CHOOSE ans \in Answers : TRUE) \in Answers
      BY CoursesAssumption
    <3> QED
      BY <2>1, <3>1, <3>2 DEF Keys
  <2> QED
    BY <2>2, <2>3
<1>4. answer = [u \in Users |-> None]
  BY DEF Init
<1>5. None \in Answered
  BY DEF None, Answered, Unscored
<1>6. TypeInv
  BY <1>1, <1>2, <1>3, <1>4, <1>5 DEF TypeInv, Jobs
<1>7. \A x \in DOMAIN at : at[x].pc = "idle"
  BY <1>1 DEF Idle
<1>8. RowCopies /\ FirstCopies
  BY <1>7 DEF RowCopies, FirstCopies
<1> QED
  BY <1>6, <1>8 DEF IInv

LEMMA Stutters ==
  ASSUME IInv, UNCHANGED <<row, at, course, key, answer>>
  PROVE  IInv'
BY DEF IInv, TypeInv, RowCopies, FirstCopies

LEMMA AccountsSteps ==
  ASSUME IInv, AccountsNext, UNCHANGED <<course, key, answer>>
  PROVE  IInv'
<1>0. /\ \A s \in Servers : s \in DOMAIN at /\ at[s] \in Jobs
      /\ Activator \in DOMAIN at /\ at[Activator] \in Jobs
      /\ \A u \in Users : row[u] \in Rows
      /\ course' = course /\ key' = key /\ answer' = answer
      /\ course' \subseteq Users /\ key' \in Keys
      /\ Idle \in Jobs /\ Idle.pc = "idle"
  BY DEF IInv, TypeInv, Jobs, Idle
<1> DEFINE activated(r, st) == [r EXCEPT !.st = st]
           changed(r, offers, role) == [r EXCEPT !.offers = offers, !.role = role]
<1>01. \A r \in Rows, st \in {"new", "requested", "granted"} : activated(r, st) \in Rows
  BY RowFields
<1>02. \A r \in Rows, offers, role \in BOOLEAN : changed(r, offers, role) \in Rows
  BY RowFields
<1>1. ASSUME NEW s \in Servers, NEW u \in Users, post_auth_launch_container(s, u)
      PROVE  IInv'
  BY <1>0, <1>1, LogsIn
<1>2. ASSUME NEW s \in Servers, NEW u \in Users, post_auth_store_credentials(s, u)
      PROVE  IInv'
  <2>1. created(u) \in Rows
    <3>1. NoRow \in Rows
      BY DEF NoRow, Rows
    <3>2. activated(NoRow, "new") \in Rows
      BY <3>1, <1>01
    <3> QED
      BY <1>0, <3>2 DEF created
  <2> QED
    BY <1>0, <1>2, <2>1, Saves DEF post_auth_store_credentials
<1>3. ASSUME NEW s \in Servers, NEW u \in Users, handle_update_user(s, u)
      PROVE  IInv'
  <2>1. PICK offers \in BOOLEAN, role \in BOOLEAN : save(s, u, changed(row[u], offers, role), Idle)
    BY <1>3 DEF handle_update_user
  <2>2. changed(row[u], offers, role) \in Rows
    BY <1>0, <1>02
  <2> HIDE DEF changed
  <2> QED
    BY <1>0, <2>1, <2>2, Saves
<1>4. ASSUME NEW s \in Servers, is_user_activated(s)
      PROVE  IInv'
  <2> DEFINE st == IF at[s].seen.st = "granted" \/ allowed THEN "granted" ELSE "requested"
  <2>1. at[s].user \in Users /\ at[s].seen \in Rows
    BY <1>0, <1>4, Kinds DEF is_user_activated, In, Activating
  <2>2. \/ raise(s) /\ row' = row
        \/ save(s, at[s].user, activated(at[s].seen, st), Idle)
    BY <1>4 DEF is_user_activated
  <2>3. activated(at[s].seen, st) \in Rows
    BY <2>1, <1>01
  <2> HIDE DEF activated, st
  <2>4. CASE raise(s) /\ row' = row
    BY <1>0, <2>4, Raises
  <2>5. CASE save(s, at[s].user, activated(at[s].seen, st), Idle)
    BY <1>0, <2>1, <2>3, <2>5, Saves
  <2> QED
    BY <2>2, <2>4, <2>5
<1>5. CASE monitor_registrations
  <2> DEFINE j == at[Activator]
             next == [j EXCEPT !.pc = "query"]
  <2>1. row' = row /\ (at' = at \/ (j.pc = "idle" /\ at' = [at EXCEPT ![Activator] = next]))
    BY <1>5 DEF monitor_registrations, In
  <2>2. j \in Jobs
    BY <1>0
  <2> HIDE DEF j
  <2>3. j.pc = "idle" => next \in Jobs /\ next.pc = "query"
    <3>1. j.pc = "idle" => j = Idle
      BY <2>2 DEF Jobs, Activating, Answering, Changing, Asking, Mailing, Granting
    <3>2. \A q \in [pc : {"idle"}] : [q EXCEPT !.pc = "query"] \in Asking /\ [q EXCEPT !.pc = "query"].pc = "query"
      BY DEF Asking
    <3>3. Idle \in [pc : {"idle"}]
      BY DEF Idle
    <3> QED
      BY <3>1, <3>2, <3>3 DEF Jobs
  <2> HIDE DEF next
  <2>4. CASE at' = at
    BY <1>0, <2>1, <2>4, Stutters
  <2>5. CASE at' # at
    BY <1>0, <2>1, <2>3, <2>5, Goes
  <2> QED
    BY <2>4, <2>5
<1>6. CASE get_pending_activations
  <2>1. PICK todo \in SUBSET Users : at' = [at EXCEPT ![Activator] = [pc |-> "mail", todo |-> todo]]
    BY <1>6 DEF get_pending_activations, Pending
  <2>2. [pc |-> "mail", todo |-> todo] \in Jobs
    BY DEF Jobs, Mailing
  <2>3. row' = row
    BY <1>6 DEF get_pending_activations
  <2> QED
    BY <1>0, <2>1, <2>2, <2>3, Goes
<1>7. CASE send_email
  <2>1. at[Activator].todo \in SUBSET Users /\ row' = row
    BY <1>0, <1>7, Kinds DEF send_email, In, Mailing
  <2>2. CASE raise(Activator)
    BY <1>0, <2>1, <2>2, Raises
  <2>3. CASE \E u \in at[Activator].todo :
               at' = [at EXCEPT ![Activator] = [pc |-> "grant", user |-> u, todo |-> at[Activator].todo \ {u}]]
    <3>1. PICK u \in at[Activator].todo :
               at' = [at EXCEPT ![Activator] = [pc |-> "grant", user |-> u, todo |-> at[Activator].todo \ {u}]]
      BY <2>3
    <3>2. [pc |-> "grant", user |-> u, todo |-> at[Activator].todo \ {u}] \in Jobs
      BY <2>1 DEF Jobs, Granting
    <3> QED
      BY <1>0, <2>1, <3>1, <3>2, Goes
  <2> QED
    BY <1>0, <1>7, <2>2, <2>3 DEF send_email
<1>8. CASE grant
  <2> DEFINE u == at[Activator].user
             next == [pc |-> "mail", todo |-> at[Activator].todo]
  <2>1. u \in Users /\ next \in Jobs
    BY <1>0, <1>8, Kinds DEF grant, In, Granting, Jobs, Mailing
  <2>2. save(Activator, u, activated(row[u], "granted"), next)
    BY <1>8 DEF grant
  <2>3. activated(row[u], "granted") \in Rows
    BY <1>0, <1>01, <2>1
  <2>4. next.pc = "mail"
    OBVIOUS
  <2> HIDE DEF u, next, activated
  <2> QED
    BY <1>0, <2>1, <2>2, <2>3, <2>4, Saves
<1>9. CASE hour_passes
  BY <1>0, <1>9, Stutters DEF hour_passes
<1>10. ASSUME NEW x \in Servers \cup {Activator}, fail(x)
       PROVE  IInv'
  BY <1>0, <1>10, Raises DEF fail
<1> QED
  BY <1>1, <1>2, <1>3, <1>4, <1>5, <1>6, <1>7, <1>8, <1>9, <1>10 DEF AccountsNext, auto_activate

\* What a submission writes.
LEMMA Submits ==
  ASSUME IInv, NEW s \in Servers, at[s] \in Answering
  PROVE  /\ at[s].user \in Users
         /\ Worth(s) \in {0, 1} /\ State(s) \in {"correct", "incorrect"} /\ Count(s) \in {0, 1}
         /\ at[s].ans \in Answers
<1>1. at[s].user \in Users /\ at[s].ans \in Answers /\ at[s].key \in Keys
  BY DEF Answering
<1>2. at[s].key.worth \in {0, 1}
  BY <1>1 DEF Keys
<1> QED
  BY <1>1, <1>2 DEF Worth, State, Count

LEMMA Rescored ==
  ASSUME NEW q \in Answered, NEW w \in {Unscored, 0, 1}, NEW n \in {0, 1}
  PROVE  [q EXCEPT !.score = w, !.attempts = q.attempts + n] \in Answered
<1>1. q.attempts + n \in Int
  <2>1. q.attempts \in Int
    BY DEF Answered
  <2> QED
    BY <2>1
<1> DEFINE m == q.attempts + n
<1> HIDE DEF m
<1>2. m \in Int => [q EXCEPT !.score = w, !.attempts = m] \in Answered
  BY DEF Answered
<1> QED
  BY <1>1, <1>2 DEF m

LEMMA Checks ==
  ASSUME IInv, NEW s \in Servers, check_answer(s)
  PROVE  IInv'
<1> DEFINE u == at[s].user
           r == answer[u]
           first(st, a) == [None EXCEPT !.state = st, !.ans = a]
           kept(q, n) == [q EXCEPT !.score = IF q.score = Unscored THEN 0 ELSE q.score, !.attempts = q.attempts + n]
           new == [state |-> State(s), ans |-> at[s].ans, score |-> Worth(s), attempts |-> r.attempts + Count(s)]
           next(j) == [j EXCEPT !.pc = "first"]
<1>1. s \in DOMAIN at /\ at[s] \in Answering /\ UNCHANGED <<row, course, key>>
  BY Kinds DEF IInv, TypeInv, check_answer, In
<1>2. u \in Users /\ r \in Answered
  BY <1>1, Submits DEF IInv, TypeInv
<1>3. Idle \in Jobs /\ Idle.pc = "idle"
  BY DEF Jobs, Idle
<1>4. CASE save_answer(s, u, first(State(s), at[s].ans), next(at[s]))
  <2>1. \A q \in Answered, st \in {"correct", "incorrect"}, a \in Answers :
          LET w == [q EXCEPT !.state = st, !.ans = a] IN w \in Answered /\ w.score = q.score
    BY DEF Answered
  <2>2. None \in Answered /\ None.score = Unscored
    BY DEF None, Answered
  <2>3. first(State(s), at[s].ans) \in Answered /\ first(State(s), at[s].ans).score = Unscored
    BY <1>1, <2>1, <2>2, Submits
  <2>4. \A j \in Answering : next(j) \in Answering /\ next(j).pc = "first" /\ next(j).user = j.user
    BY DEF Answering
  <2>5. next(at[s]) \in Jobs /\ next(at[s]).pc = "first" /\ next(at[s]).user = u
    BY <1>1, <2>4 DEF Jobs
  <2> HIDE DEF first, next, u
  <2> QED
    BY <1>1, <1>2, <1>4, <2>3, <2>5, AnswerSaves
<1>5. CASE save_answer(s, u, kept(r, Count(s)), Idle)
  <2>1. \A q \in Answered, n \in {0, 1} : kept(q, n) \in Answered
    BY Rescored DEF Answered, Unscored
  <2>2. kept(r, Count(s)) \in Answered
    BY <1>1, <1>2, <2>1, Submits
  <2> HIDE DEF kept, u, r
  <2> QED
    BY <1>1, <1>2, <1>3, <1>5, <2>2, AnswerSaves
<1>6. CASE save_answer(s, u, new, Idle)
  <2>1. new \in Answered
    BY <1>1, <1>2, Submits DEF Answered
  <2> HIDE DEF new, u
  <2> QED
    BY <1>1, <1>2, <1>3, <1>6, <2>1, AnswerSaves
<1> QED
  <2>1. \/ save_answer(s, u, first(State(s), at[s].ans), next(at[s]))
        \/ \E kp \in BOOLEAN : save_answer(s, u, IF kp THEN kept(r, Count(s)) ELSE new, Idle)
    BY Zenon DEF check_answer
  <2> HIDE DEF first, kept, new, next, u, r
  <2> QED
    BY <1>4, <1>5, <1>6, <2>1

LEMMA ScoresFirst ==
  ASSUME IInv, NEW s \in Servers, set_first_score(s)
  PROVE  IInv'
<1> DEFINE u == at[s].user
           scored(q, w, n) == [q EXCEPT !.score = w, !.attempts = q.attempts + n]
<1>1. s \in DOMAIN at /\ at[s] \in Answering /\ UNCHANGED <<row, course, key>>
  BY Kinds DEF IInv, TypeInv, set_first_score, In
<1>2. u \in Users /\ answer[u] \in Answered
  BY <1>1, Submits DEF IInv, TypeInv
<1>3. Idle \in Jobs /\ Idle.pc = "idle"
  BY DEF Jobs, Idle
<1>4. CASE raise(s) /\ answer' = answer
  BY <1>1, <1>4, Raises
<1>5. CASE save_answer(s, u, scored(answer[u], Worth(s), Count(s)), Idle)
  <2>1. \A q \in Answered, w, n \in {0, 1} : scored(q, w, n) \in Answered
    BY Rescored
  <2>2. scored(answer[u], Worth(s), Count(s)) \in Answered
    BY <1>1, <1>2, <2>1, Submits
  <2> HIDE DEF scored, u
  <2> QED
    BY <1>1, <1>2, <1>3, <1>5, <2>2, AnswerSaves
<1> QED
  BY <1>4, <1>5 DEF set_first_score

LEMMA Limited ==
  ASSUME NEW j \in Changing
  PROVE  j.ans \in Answers /\ j.limit \in Int
<1>1. j.ans \in Answers /\ j.limit \in Limits
  BY DEF Changing
<1>2. \A n \in Limits : n \in Nat
  BY CoursesAssumption
<1>3. j.limit \in Nat
  BY <1>1, <1>2
<1> QED
  BY <1>1, <1>3

LEMMA CoursesSteps ==
  ASSUME IInv, CoursesNext
  PROVE  IInv'
<1>0. /\ \A s \in Servers : s \in DOMAIN at /\ at[s] \in Jobs
      /\ \A u \in Users : row[u] \in Rows /\ answer[u] \in Answered
      /\ course \subseteq Users /\ key \in Keys
  BY DEF IInv, TypeInv
<1> DEFINE changed(r, offers, role) == [r EXCEPT !.offers = offers, !.role = role]
           goes(j, pc) == [j EXCEPT !.pc = pc]
<1>01. \A r \in Rows, offers, role \in BOOLEAN : changed(r, offers, role) \in Rows
  BY RowFields
<1>02. \A j \in Changing, pc \in {"key", "admins", "former"} : goes(j, pc) \in Jobs /\ goes(j, pc).pc = pc
  BY DEF Changing, Jobs
<1>1. ASSUME NEW s \in Servers, NEW by \in Users, upload_course(s, by)
      PROVE  IInv'
  <2>1. PICK admins \in SUBSET Users, ans \in Answers, limit \in Limits :
          at' = [at EXCEPT ![s] = [pc |-> "course", admins |-> admins \cup {by}, former |-> course,
                                   ans |-> ans, limit |-> limit, stale |-> FALSE]]
    BY <1>1 DEF upload_course
  <2>2. [pc |-> "course", admins |-> admins \cup {by}, former |-> course,
         ans |-> ans, limit |-> limit, stale |-> FALSE] \in Jobs
    BY <1>0 DEF Jobs, Changing
  <2>3. UNCHANGED <<row, course, key, answer>>
    BY <1>1 DEF upload_course
  <2> QED
    BY <1>0, <2>1, <2>2, <2>3, Goes
<1>2. ASSUME NEW s \in Servers, set_course(s)
      PROVE  IInv'
  <2>1. at[s] \in Changing /\ at' = [at EXCEPT ![s] = goes(at[s], "key")]
    BY <1>0, <1>2, Kinds DEF set_course, In
  <2>2. course' \subseteq Users /\ UNCHANGED <<row, key, answer>>
    BY <1>2, <2>1 DEF set_course, Changing
  <2>3. goes(at[s], "key") \in Jobs /\ goes(at[s], "key").pc = "key"
    BY <1>02, <2>1
  <2> HIDE DEF goes
  <2> QED
    BY <1>0, <2>1, <2>2, <2>3, Goes
<1>3. ASSUME NEW s \in Servers, set_answer(s)
      PROVE  IInv'
  <2>1. at[s] \in Changing
    BY <1>0, <1>3, Kinds DEF set_answer, In
  <2>2. at[s].ans \in Answers /\ at[s].limit \in Int
    BY <2>1, Limited
  <2>3. PICK k \in Keys, pc \in {"score", "admins"} : save_key(s, k, pc)
    <3>1. \A a \in Answers : [NoKey EXCEPT !.ans = a] \in Keys
      <4>1. NoKey \in Keys
        BY DEF NoKey, Keys
      <4>2. \A k \in Keys, a \in Answers : [k EXCEPT !.ans = a] \in Keys
        BY DEF Keys
      <4> QED
        BY <4>1, <4>2
    <3>2. [ans |-> at[s].ans, worth |-> 1, limit |-> at[s].limit] \in Keys
      BY <2>2 DEF Keys
    <3>3. \/ save_key(s, [NoKey EXCEPT !.ans = at[s].ans], "score")
          \/ save_key(s, [ans |-> at[s].ans, worth |-> 1, limit |-> at[s].limit], "admins")
      BY <1>3 DEF set_answer
    <3> QED
      BY <2>2, <3>1, <3>2, <3>3
  <2>4. UNCHANGED <<row, course, answer>>
    BY <1>3 DEF set_answer
  <2> QED
    BY <1>0, <2>1, <2>3, <2>4, KeySaves
<1>4. ASSUME NEW s \in Servers, set_score(s)
      PROVE  IInv'
  <2>1. at[s] \in Changing /\ UNCHANGED <<row, course, answer>>
    BY <1>0, <1>4, Kinds DEF set_score, In
  <2>2. CASE raise(s) /\ key' = key
    BY <1>0, <2>1, <2>2, Raises
  <2>3. CASE save_key(s, [key EXCEPT !.worth = 1, !.limit = at[s].limit], "admins")
    <3>1. at[s].limit \in Int
      BY <2>1, Limited
    <3>2. \A k \in Keys, n \in Int : [k EXCEPT !.worth = 1, !.limit = n] \in Keys
      BY DEF Keys
    <3>3. [key EXCEPT !.worth = 1, !.limit = at[s].limit] \in Keys
      BY <1>0, <3>1, <3>2
    <3> QED
      BY <1>0, <2>1, <2>3, <3>3, KeySaves
  <2> QED
    BY <1>4, <2>2, <2>3 DEF set_score
<1>5. ASSUME NEW s \in Servers, offer_course(s)
      PROVE  IInv'
  <2>1. at[s] \in Changing /\ UNCHANGED <<course, key, answer>>
    BY <1>0, <1>5, Kinds DEF offer_course, In
  <2>2. CASE row' = row /\ at' = [at EXCEPT ![s] = goes(at[s], "former")]
    <3>1. goes(at[s], "former") \in Jobs /\ goes(at[s], "former").pc = "former"
      BY <1>02, <2>1
    <3> HIDE DEF goes
    <3> QED
      BY <1>0, <2>1, <2>2, <3>1, Goes
  <2>3. CASE raise(s) /\ row' = row
    BY <1>0, <2>1, <2>3, Raises
  <2> DEFINE next(j, u) == [j EXCEPT !.admins = j.admins \ {u}, !.former = j.former \ {u}]
  <2>4. CASE \E u \in at[s].admins : save(s, u, changed(row[u], TRUE, TRUE), next(at[s], u))
    <3>1. PICK u \in at[s].admins : save(s, u, changed(row[u], TRUE, TRUE), next(at[s], u))
      BY <2>4
    <3>2. u \in Users
      BY <2>1 DEF Changing
    <3>3. \A j \in Changing : next(j, u) \in Changing /\ next(j, u).pc = j.pc
      BY DEF Changing
    <3>4. next(at[s], u) \in Jobs /\ next(at[s], u).pc \notin {"activate", "first"}
      BY <2>1, <3>3 DEF Jobs, Changing
    <3>5. changed(row[u], TRUE, TRUE) \in Rows
      BY <1>0, <1>01, <3>2
    <3> HIDE DEF next, changed
    <3> QED
      BY <1>0, <2>1, <3>1, <3>2, <3>4, <3>5, Saves
  <2>5. \/ row' = row /\ at' = [at EXCEPT ![s] = goes(at[s], "former")]
        \/ raise(s) /\ row' = row
        \/ \E u \in at[s].admins : save(s, u, changed(row[u], TRUE, TRUE), next(at[s], u))
    BY <1>5 DEF offer_course
  <2> QED
    BY <2>2, <2>3, <2>4, <2>5
<1>6. ASSUME NEW s \in Servers, withdraw_course(s)
      PROVE  IInv'
  <2>1. at[s] \in Changing /\ UNCHANGED <<course, key, answer>>
    BY <1>0, <1>6, Kinds DEF withdraw_course, In
  <2>2. CASE raise(s) /\ row' = row
    BY <1>0, <2>1, <2>2, Raises
  <2> DEFINE next(j, u) == [j EXCEPT !.former = j.former \ {u}]
  <2>3. CASE \E u \in at[s].former : save(s, u, changed(row[u], FALSE, TRUE), next(at[s], u))
    <3>1. PICK u \in at[s].former : save(s, u, changed(row[u], FALSE, TRUE), next(at[s], u))
      BY <2>3
    <3>2. u \in Users
      BY <2>1 DEF Changing
    <3>3. \A j \in Changing : next(j, u) \in Changing /\ next(j, u).pc = j.pc
      BY DEF Changing
    <3>4. next(at[s], u) \in Jobs /\ next(at[s], u).pc \notin {"activate", "first"}
      BY <2>1, <3>3 DEF Jobs, Changing
    <3>5. changed(row[u], FALSE, TRUE) \in Rows
      BY <1>0, <1>01, <3>2
    <3> HIDE DEF next, changed
    <3> QED
      BY <1>0, <2>1, <3>1, <3>2, <3>4, <3>5, Saves
  <2>4. \/ raise(s) /\ row' = row
        \/ \E u \in at[s].former : save(s, u, changed(row[u], FALSE, TRUE), next(at[s], u))
    BY <1>6 DEF withdraw_course
  <2> QED
    BY <2>2, <2>3, <2>4
<1>7. ASSUME NEW s \in Servers, NEW u \in Users, get_answer(s, u)
      PROVE  IInv'
  <2>1. PICK ans \in Answers :
          at' = [at EXCEPT ![s] = [pc |-> "answer", user |-> u, ans |-> ans, key |-> key, stale |-> FALSE]]
    BY <1>7 DEF get_answer
  <2>2. [pc |-> "answer", user |-> u, ans |-> ans, key |-> key, stale |-> FALSE] \in Jobs
    BY <1>0 DEF Jobs, Answering
  <2>3. UNCHANGED <<row, course, key, answer>>
    BY <1>7 DEF get_answer
  <2> QED
    BY <1>0, <2>1, <2>2, <2>3, Goes
<1>8. ASSUME NEW s \in Servers, check_answer(s)
      PROVE  IInv'
  BY <1>0, <1>8, Checks
<1>9. ASSUME NEW s \in Servers, set_first_score(s)
      PROVE  IInv'
  BY <1>0, <1>9, ScoresFirst
<1> QED
  BY <1>1, <1>2, <1>3, <1>4, <1>5, <1>6, <1>7, <1>8, <1>9 DEF CoursesNext, upload

-----------------------------------------------------------------------------
(* The theorems.                                                           *)

LEMMA Invariant == Spec => []IInv
<1>1. IInv /\ [Next]_vars => IInv'
  <2> SUFFICES ASSUME IInv, [Next]_vars PROVE IInv'
    OBVIOUS
  <2>1. CASE AccountsStep
    BY <2>1, AccountsSteps DEF AccountsStep
  <2>2. CASE CoursesNext
    BY <2>2, CoursesSteps
  <2>3. CASE UNCHANGED vars
    <3>1. UNCHANGED <<row, at, course, key, answer>>
      BY <2>3 DEF vars, accountVars, courseVars
    <3> QED
      BY <3>1, Stutters
  <2> QED
    BY <2>1, <2>2, <2>3 DEF Next
<1> QED
  BY <1>1, Start, PTL DEF Spec

\* Access that is granted is never lost: of the saves of one row that overlap,
\* by login, administration, uploads and the activation job, none puts back an
\* older state (is_user_activated, on the copy of post_auth_launch_container).
THEOREM GrantedAlways == Spec => GrantedStays
<1> DEFINE Changes == \E u \in Users, r \in Rows :
             row' = [row EXCEPT ![u] = r] /\ (row[u].st = "granted" => r.st = "granted")
<1>1. IInv /\ Next => row' = row \/ Changes
  <2> SUFFICES ASSUME IInv, Next, row' # row PROVE Changes
    OBVIOUS
  <2>0. /\ \A u \in Users : row[u] \in Rows
        /\ \A s \in Servers : s \in DOMAIN at /\ at[s] \in Jobs
        /\ Activator \in DOMAIN at /\ at[Activator] \in Jobs
    BY DEF IInv, TypeInv
  <2> DEFINE granted(r, st) == [r EXCEPT !.st = st]
             changed(r, offers, role) == [r EXCEPT !.offers = offers, !.role = role]
  <2>01. \A r \in Rows, st \in {"new", "requested", "granted"} : granted(r, st) \in Rows /\ granted(r, st).st = st
    BY DEF Rows
  <2>02. \A r \in Rows, offers, role \in BOOLEAN :
           changed(r, offers, role) \in Rows /\ changed(r, offers, role).st = r.st
    BY RowFields
  <2>1. ASSUME NEW u \in Users, row' = [row EXCEPT ![u] = created(u)]
        PROVE  Changes
    <3>1. NoRow \in Rows
      BY DEF NoRow, Rows
    <3>2. granted(NoRow, "new") \in Rows
      BY <3>1, <2>01
    <3>3. created(u) = IF row[u].st = "none" THEN granted(NoRow, "new") ELSE row[u]
      BY DEF created
    <3> HIDE DEF granted
    <3>4. created(u) \in Rows /\ (row[u].st = "granted" => created(u).st = "granted")
      BY <2>0, <3>2, <3>3
    <3> QED
      BY <2>1, <3>4
  <2>2. ASSUME NEW u \in Users, NEW offers \in BOOLEAN, NEW role \in BOOLEAN,
               row' = [row EXCEPT ![u] = changed(row[u], offers, role)]
        PROVE  Changes
    <3>1. changed(row[u], offers, role) \in Rows /\ changed(row[u], offers, role).st = row[u].st
      BY <2>0, <2>02
    <3> HIDE DEF changed
    <3> QED
      BY <2>2, <3>1
  <2>3. ASSUME NEW s \in Servers, NEW u \in Users,
               \/ post_auth_launch_container(s, u) \/ post_auth_store_credentials(s, u)
               \/ handle_update_user(s, u)
        PROVE  Changes
    <3>1. CASE post_auth_launch_container(s, u) \/ post_auth_store_credentials(s, u)
      BY <2>1, <3>1 DEF post_auth_launch_container, post_auth_store_credentials, save
    <3>2. CASE handle_update_user(s, u)
      <4>1. PICK offers \in BOOLEAN, role \in BOOLEAN : row' = [row EXCEPT ![u] = changed(row[u], offers, role)]
        BY <3>2 DEF handle_update_user, save
      <4> QED
        BY <2>2, <4>1
    <3> QED
      BY <2>3, <3>1, <3>2
  <2>4. ASSUME NEW s \in Servers, is_user_activated(s)
        PROVE  Changes
    <3> DEFINE u  == at[s].user
               st == IF at[s].seen.st = "granted" \/ allowed THEN "granted" ELSE "requested"
    <3>1. at[s].pc = "activate" /\ at[s] \in Activating
      BY <2>0, <2>4, Kinds DEF is_user_activated, In
    <3>2. u \in Users /\ at[s].seen \in Rows
      BY <3>1 DEF Activating
    <3>3. st # at[s].seen.st /\ ~at[s].stale /\ row' = [row EXCEPT ![u] = granted(at[s].seen, st)]
      BY <2>4 DEF is_user_activated, save
    <3>4. at[s].seen = row[u]
      BY <2>0, <3>1, <3>3 DEF IInv, RowCopies
    <3>5. granted(at[s].seen, st) \in Rows /\ granted(at[s].seen, st).st = st
      BY <2>01, <3>2
    <3>6. row[u].st # "granted"
      BY <3>3, <3>4
    <3> HIDE DEF granted, st, u
    <3> QED
      BY <3>2, <3>3, <3>5, <3>6
  <2>5. CASE auto_activate
    <3>1. grant
      BY <2>5 DEF auto_activate, get_pending_activations, send_email
    <3> DEFINE u == at[Activator].user
    <3>2. u \in Users /\ row' = [row EXCEPT ![u] = granted(row[u], "granted")]
      BY <2>0, <3>1, Kinds DEF grant, In, Granting, save
    <3>3. granted(row[u], "granted") \in Rows /\ granted(row[u], "granted").st = "granted"
      BY <2>0, <2>01, <3>2
    <3> HIDE DEF granted, u
    <3> QED
      BY <3>2, <3>3
  <2>6. ASSUME NEW s \in Servers, upload(s)
        PROVE  Changes
    <3>1. offer_course(s) \/ withdraw_course(s)
      BY <2>6 DEF upload, set_course, set_answer, set_score
    <3>2. at[s] \in Changing
      BY <2>0, <3>1, Kinds DEF offer_course, withdraw_course, In
    <3>3. PICK u \in at[s].admins \cup at[s].former, offers \in BOOLEAN :
            row' = [row EXCEPT ![u] = changed(row[u], offers, TRUE)]
      <4>1. CASE offer_course(s)
        BY <4>1 DEF offer_course, save
      <4>2. CASE withdraw_course(s)
        BY <4>2 DEF withdraw_course, save
      <4> QED
        BY <3>1, <4>1, <4>2
    <3>4. u \in Users
      BY <3>2 DEF Changing
    <3> QED
      BY <2>2, <3>3, <3>4
  <2>7. CASE monitor_registrations \/ hour_passes \/ \E x \in Servers \cup {Activator} : fail(x)
    BY <2>7 DEF monitor_registrations, hour_passes, fail
  <2>8. CASE \E s \in Servers, u \in Users : upload_course(s, u) \/ get_answer(s, u)
    BY <2>8 DEF upload_course, get_answer
  <2>9. CASE \E s \in Servers : check_answer(s) \/ set_first_score(s)
    BY <2>9 DEF check_answer, set_first_score
  <2>10. CASE AccountsStep
    BY <2>3, <2>4, <2>5, <2>7, <2>10 DEF AccountsStep, AccountsNext
  <2>11. CASE CoursesNext
    BY <2>6, <2>8, <2>9, <2>11 DEF CoursesNext
  <2> QED
    BY <2>10, <2>11 DEF Next
<1> DEFINE Keeps == \A u \in Users : row[u].st = "granted" => row'[u].st = "granted"
<1>2. IInv /\ [Next]_vars => [Keeps]_row
  <2>1. IInv /\ Changes => Keeps
    BY DEF IInv, TypeInv
  <2>2. UNCHANGED vars => row' = row
    BY DEF vars, accountVars
  <2> QED
    BY <1>1, <2>1, <2>2
<1> QED
  BY <1>2, Invariant, PTL DEF Spec, GrantedStays

\* A correct answer is never lost: whatever submissions of one user overlap, the
\* record keeps the answer, the state and the score, once there is one
\* (check_answer, and the save of the first score).
THEOREM CorrectAlways == Spec => CorrectStays
<1> DEFINE Kept(q, r) == q.state = "correct" =>
             r.state = "correct" /\ r.ans = q.ans /\ (q.score # Unscored => r.score = q.score)
           Changes == \E u \in Users, r \in Answered : answer' = [answer EXCEPT ![u] = r] /\ Kept(answer[u], r)
<1>1. ASSUME IInv, NEW s \in Servers, check_answer(s)
      PROVE  Changes
  <2> DEFINE u == at[s].user
             r == answer[u]
             first(st, a) == [None EXCEPT !.state = st, !.ans = a]
             kept(q, n) == [q EXCEPT !.score = IF q.score = Unscored THEN 0 ELSE q.score, !.attempts = q.attempts + n]
             new == [state |-> State(s), ans |-> at[s].ans, score |-> Worth(s), attempts |-> r.attempts + Count(s)]
  <2>1. at[s] \in Answering
    BY <1>1, Kinds DEF IInv, TypeInv, check_answer, In
  <2>2. u \in Users /\ r \in Answered
    BY <1>1, <2>1, Submits DEF IInv, TypeInv
  <2>3. CASE r = None /\ answer' = [answer EXCEPT ![u] = first(State(s), at[s].ans)]
    <3>1. None.state = "none" /\ None \in Answered
      BY DEF None, Answered
    <3>2. \A q \in Answered, st \in {"correct", "incorrect"}, a \in Answers :
            [q EXCEPT !.state = st, !.ans = a] \in Answered
      BY DEF Answered
    <3>3. first(State(s), at[s].ans) \in Answered
      BY <1>1, <2>1, <3>1, <3>2, Submits
    <3>4. Kept(r, first(State(s), at[s].ans))
      BY <2>3, <3>1
    <3> HIDE DEF first, r, u, Kept
    <3> QED
      BY <2>2, <2>3, <3>3, <3>4 DEF r
  <2>4. CASE answer' = [answer EXCEPT ![u] = kept(r, Count(s))]
    <3>1. \A q \in Answered, n \in {0, 1} : kept(q, n) \in Answered
      BY Rescored DEF Answered
    <3>2. \A q \in Answered : \A n : Kept(q, kept(q, n))
      BY DEF Answered
    <3>3. kept(r, Count(s)) \in Answered /\ Kept(r, kept(r, Count(s)))
      BY <1>1, <2>1, <2>2, <3>1, <3>2, Submits
    <3> HIDE DEF kept, r, u, Kept
    <3> QED
      BY <2>2, <2>4, <3>3 DEF r
  <2>5. CASE r.state # "correct" /\ answer' = [answer EXCEPT ![u] = new]
    <3>1. new \in Answered
      BY <1>1, <2>1, <2>2, Submits DEF Answered
    <3>2. Kept(r, new)
      BY <2>5
    <3> HIDE DEF new, r, u, Kept
    <3> QED
      BY <2>2, <2>5, <3>1, <3>2 DEF r
  <2> QED
    <3> DEFINE kp == r.state = "correct" \/ (at[s].key.limit > 0 /\ r.attempts >= at[s].key.limit)
    <3>1. \/ r = None /\ answer' = [answer EXCEPT ![u] = first(State(s), at[s].ans)]
          \/ kp /\ answer' = [answer EXCEPT ![u] = kept(r, Count(s))]
          \/ ~kp /\ answer' = [answer EXCEPT ![u] = new]
      BY <1>1, Zenon DEF check_answer, save_answer
    <3>2. ~kp => r.state # "correct"
      OBVIOUS
    <3> HIDE DEF first, kept, new, r, u, kp
    <3> QED
      BY <2>3, <2>4, <2>5, <3>1, <3>2
<1>2. ASSUME IInv, NEW s \in Servers, set_first_score(s), answer' # answer
      PROVE  Changes
  <2> DEFINE u == at[s].user
             r == answer[u]
             scored(q, w, n) == [q EXCEPT !.score = w, !.attempts = q.attempts + n]
  <2>1. at[s] \in Answering /\ at[s].pc = "first" /\ s \in DOMAIN at
    BY <1>2, Kinds DEF IInv, TypeInv, set_first_score, In
  <2>2. u \in Users /\ r \in Answered
    BY <1>2, <2>1, Submits DEF IInv, TypeInv
  <2>3. ~at[s].stale /\ answer' = [answer EXCEPT ![u] = scored(r, Worth(s), Count(s))]
    BY <1>2 DEF set_first_score, save_answer
  <2>4. r.score = Unscored
    BY <1>2, <2>1, <2>3 DEF IInv, FirstCopies
  <2>5. \A q \in Answered, w, n \in {0, 1} :
          scored(q, w, n) \in Answered /\ (q.score = Unscored => Kept(q, scored(q, w, n)))
    <3>1. \A q \in Answered : \A w, n : q.score = Unscored => Kept(q, scored(q, w, n))
      BY DEF Answered
    <3>2. \A q \in Answered, w, n \in {0, 1} : scored(q, w, n) \in Answered
      BY Rescored
    <3> HIDE DEF scored, Kept
    <3> QED
      BY <3>1, <3>2
  <2>6. scored(r, Worth(s), Count(s)) \in Answered /\ Kept(r, scored(r, Worth(s), Count(s)))
    BY <1>2, <2>1, <2>2, <2>4, <2>5, Submits
  <2> HIDE DEF scored, r, u, Kept
  <2> QED
    BY <2>2, <2>3, <2>6 DEF r
<1>3. IInv /\ Next => answer' = answer \/ Changes
  <2> SUFFICES ASSUME IInv, Next, answer' # answer PROVE Changes
    OBVIOUS
  <2>1. PICK s \in Servers : check_answer(s) \/ set_first_score(s)
    BY DEF Next, AccountsStep, CoursesNext, upload_course, get_answer, upload, set_course, set_answer,
           set_score, offer_course, withdraw_course
  <2> QED
    BY <1>1, <1>2, <2>1
<1> DEFINE Keeps == \A u \in Users : answer[u].state = "correct" =>
                      /\ answer'[u].state = "correct" /\ answer'[u].ans = answer[u].ans
                      /\ answer[u].score # Unscored => answer'[u].score = answer[u].score
<1>4. IInv /\ [Next]_vars => [Keeps]_answer
  <2>1. IInv /\ Changes => Keeps
    BY DEF IInv, TypeInv
  <2>2. UNCHANGED vars => answer' = answer
    BY DEF vars, courseVars
  <2> QED
    BY <1>3, <2>1, <2>2
<1> QED
  BY <1>4, Invariant, PTL DEF Spec, CorrectStays

-----------------------------------------------------------------------------
(* Full credit, and who offers the course, while nothing gets in the way.  *)

Stages == {"course", "key", "score", "admins", "former"}

\* A key without its score is on the way to get it, and nobody was given it.
Worthy(k) == k.ans = NoAnswer \/ k.worth = 1
KeyReady  == (\A x \in Servers : at[x].pc # "score") => Worthy(key)
KeysSeen  == \A x \in Servers : at[x].pc \in {"answer", "first"} => Worthy(at[x].key)

\* A record without its score is on the way to get it, for the answer it holds.
Scoring   == \A u \in Users : answer[u] # None /\ answer[u].score = Unscored =>
               \E x \in Servers : at[x].pc = "first" /\ at[x].user = u
FirstHeld == \A x \in Servers : at[x].pc = "first" /\ ~at[x].stale => answer[at[x].user].state = State(x)
Full      == \A u \in Users : answer[u].state = "correct" => answer[u].score \in {Unscored, 1}

Credit == KeyReady /\ KeysSeen /\ Scoring /\ FirstHeld /\ Full

\* One upload at a time.  Until it has written the course record the former
\* administrators offer the course; then they do, and those it is through with.
Match    == \A u \in Users : row[u].offers <=> u \in course
Stage(x) ==
  IF at[x].pc = "course" THEN at[x].former = course /\ Match
  ELSE /\ at[x].admins \subseteq course /\ at[x].former \cap course \subseteq at[x].admins
       /\ at[x].pc = "former" => at[x].admins = {}
       /\ \A u \in Users : row[u].offers <=> u \in at[x].former \cup (course \ at[x].admins)
Offers   == /\ \A x, y \in Uploading : x = y
            /\ \A x \in Uploading : Stage(x)
            /\ Uploading = {} => Match

CalmInv == ~disturbed => Credit /\ Offers

\* To a server another one's step makes no difference but that its copy is stale.
Alike(x) ==
  /\ at'[x].pc = at[x].pc
  /\ at[x].pc \in {"answer", "first"} =>
       /\ at'[x].user = at[x].user /\ at'[x].ans = at[x].ans /\ at'[x].key = at[x].key
       /\ ~at'[x].stale => ~at[x].stale
  /\ at[x].pc \in Stages => at'[x].admins = at[x].admins /\ at'[x].former = at[x].former

LEMMA StaleAlike ==
  ASSUME NEW j \in Jobs, j.pc \in {"activate", "answer", "first", "score"}
  PROVE  LET k == [j EXCEPT !.stale = TRUE] IN
         /\ k.pc = j.pc /\ k.stale
         /\ j.pc \in {"answer", "first"} => k.user = j.user /\ k.ans = j.ans /\ k.key = j.key
         /\ j.pc \in Stages => k.admins = j.admins /\ k.former = j.former
<1>1. j \in Activating \cup Answering \cup Changing
  BY DEF Jobs, Idle, Asking, Mailing, Granting
<1>2. CASE j \in Activating
  BY <1>2 DEF Activating, Stages
<1>3. CASE j \in Answering
  BY <1>3 DEF Answering, Stages
<1>4. CASE j \in Changing
  BY <1>4 DEF Changing, Stages
<1> QED
  BY <1>1, <1>2, <1>3, <1>4

\* Every step is that of one server or job, which goes on with next.
LEMMA OthersAlike ==
  ASSUME IInv, NEW x \in DOMAIN at, NEW next, NEW S, S \subseteq DOMAIN at,
         \A y \in S : at[y].pc \in {"activate", "answer", "first", "score"},
         at' = [y \in DOMAIN at |-> IF y = x THEN next
                                    ELSE IF y \in S THEN [at[y] EXCEPT !.stale = TRUE] ELSE at[y]]
  PROVE  at'[x] = next /\ \A y \in DOMAIN at : y # x => Alike(y)
<1> SUFFICES ASSUME NEW y \in DOMAIN at, y # x
             PROVE  Alike(y)
  OBVIOUS
<1>1. CASE y \notin S
  BY <1>1 DEF Alike
<1>2. CASE y \in S
  <2> DEFINE j == at[y]
             k == [j EXCEPT !.stale = TRUE]
  <2>1. j \in Jobs /\ j.pc \in {"activate", "answer", "first", "score"}
    BY <1>2 DEF IInv, TypeInv
  <2>2. at'[y] = k
    BY <1>2
  <2> HIDE DEF j
  <2>3. /\ k.pc = j.pc /\ k.stale
        /\ j.pc \in {"answer", "first"} => k.user = j.user /\ k.ans = j.ans /\ k.key = j.key
        /\ j.pc \in Stages => k.admins = j.admins /\ k.former = j.former
    BY <2>1, StaleAlike
  <2> HIDE DEF k
  <2> QED
    BY <2>2, <2>3 DEF Alike, j
<1> QED
  BY <1>1, <1>2

LEMMA GoesAlike ==
  ASSUME IInv, NEW x \in DOMAIN at, NEW next, at' = [at EXCEPT ![x] = next]
  PROVE  at'[x] = next /\ \A y \in DOMAIN at : y # x => Alike(y)
<1>1. at'[x] = next /\ \A y \in DOMAIN at : y # x => at'[y] = at[y]
  BY DEF IInv, TypeInv
<1> QED
  BY <1>1 DEF Alike

LEMMA SavesAlike ==
  ASSUME IInv, NEW x \in DOMAIN at, NEW u \in Users, NEW r, NEW next, save(x, u, r, next)
  PROVE  at'[x] = next /\ \A y \in DOMAIN at : y # x => Alike(y)
<1> DEFINE S == {y \in DOMAIN at : at[y].pc = "activate" /\ at[y].user = u}
<1>1. S \subseteq DOMAIN at /\ \A y \in S : at[y].pc \in {"activate", "answer", "first", "score"}
  OBVIOUS
<1>2. at' = [y \in DOMAIN at |-> IF y = x THEN next
                                 ELSE IF y \in S THEN [at[y] EXCEPT !.stale = TRUE] ELSE at[y]]
  BY DEF save, Copies
<1> HIDE DEF S
<1>3. at'[x] = next /\ \A y \in DOMAIN at : y # x => Alike(y)
  BY <1>1, <1>2, OthersAlike
<1> QED
  BY <1>3

LEMMA KeySavesAlike ==
  ASSUME IInv, NEW x \in DOMAIN at, NEW k, NEW pc, save_key(x, k, pc)
  PROVE  at'[x] = [at[x] EXCEPT !.pc = pc] /\ \A y \in DOMAIN at : y # x => Alike(y)
<1> DEFINE S == {y \in DOMAIN at : at[y].pc = "score"}
           next == [at[x] EXCEPT !.pc = pc]
<1>1. S \subseteq DOMAIN at /\ \A y \in S : at[y].pc \in {"activate", "answer", "first", "score"}
  OBVIOUS
<1>2. at' = [y \in DOMAIN at |-> IF y = x THEN next
                                 ELSE IF y \in S THEN [at[y] EXCEPT !.stale = TRUE] ELSE at[y]]
  BY DEF save_key
<1> HIDE DEF S, next
<1>3. at'[x] = next /\ \A y \in DOMAIN at : y # x => Alike(y)
  BY <1>1, <1>2, OthersAlike
<1> QED
  BY <1>3 DEF next

LEMMA AnswerSavesAlike ==
  ASSUME IInv, NEW x \in DOMAIN at, NEW u \in Users, NEW r, NEW next, save_answer(x, u, r, next)
  PROVE  /\ at'[x] = next /\ \A y \in DOMAIN at : y # x => Alike(y)
         /\ \A y \in DOMAIN at : y # x /\ at[y].pc = "first" /\ at[y].user = u => at'[y].stale
         /\ answer'[u] = r /\ \A v \in Users : v # u => answer'[v] = answer[v]
<1> DEFINE S == {y \in DOMAIN at : at[y].pc = "first" /\ at[y].user = u}
<1>1. S \subseteq DOMAIN at /\ \A y \in S : at[y].pc \in {"activate", "answer", "first", "score"}
  OBVIOUS
<1>2. at' = [y \in DOMAIN at |-> IF y = x THEN next
                                 ELSE IF y \in S THEN [at[y] EXCEPT !.stale = TRUE] ELSE at[y]]
  BY DEF save_answer
<1>3. \A y \in S : y # x => at'[y].stale
  <2> SUFFICES ASSUME NEW y \in S, y # x PROVE at'[y].stale
    OBVIOUS
  <2> DEFINE j == at[y]
  <2>1. j \in Jobs /\ j.pc = "first" /\ at'[y] = [j EXCEPT !.stale = TRUE]
    BY <1>2 DEF IInv, TypeInv
  <2> HIDE DEF j
  <2>2. [j EXCEPT !.stale = TRUE].stale
    BY <2>1, StaleAlike
  <2> QED
    BY <2>1, <2>2
<1>4. answer'[u] = r /\ \A v \in Users : v # u => answer'[v] = answer[v]
  BY DEF save_answer, IInv, TypeInv
<1>5. \A y \in DOMAIN at : at[y].pc = "first" /\ at[y].user = u => y \in S
  OBVIOUS
<1> HIDE DEF S
<1>6. at'[x] = next /\ \A y \in DOMAIN at : y # x => Alike(y)
  BY <1>1, <1>2, OthersAlike
<1> QED
  BY <1>3, <1>4, <1>5, <1>6

-----------------------------------------------------------------------------
(* What keeps Credit and Offers.                                           *)

LEMMA CreditKeeps ==
  ASSUME Credit, key' = key, answer' = answer,
         \A y \in Servers :
           \/ Alike(y)
           \/ at[y].pc \notin {"first", "score"} /\ at'[y].pc \notin {"answer", "first", "score"}
           \/ at[y].pc = "idle" /\ at'[y].pc = "answer" /\ Worthy(at'[y].key)
  PROVE  Credit'
<1>1. KeyReady'
  BY DEF Credit, KeyReady, Worthy, Alike
<1>2. KeysSeen'
  BY DEF Credit, KeysSeen, Worthy, Alike
<1>3. Scoring'
  BY DEF Credit, Scoring, Alike
<1>4. FirstHeld'
  BY DEF Credit, FirstHeld, State, Correct, Alike
<1>5. Full'
  BY DEF Credit, Full
<1> QED
  BY <1>1, <1>2, <1>3, <1>4, <1>5 DEF Credit

\* The key is written.
LEMMA CreditKeyed ==
  ASSUME Credit, answer' = answer, NEW s \in Servers, at[s].pc \in {"key", "score"},
         \A y \in Servers : y # s => Alike(y),
         at'[s].pc = "score" \/ (at'[s].pc = "admins" /\ Worthy(key'))
  PROVE  Credit'
<1>1. KeyReady'
  BY DEF KeyReady, Worthy
<1>2. KeysSeen'
  BY DEF Credit, KeysSeen, Worthy, Alike
<1>3. Scoring'
  BY DEF Credit, Scoring, Alike
<1>4. FirstHeld'
  BY DEF Credit, FirstHeld, State, Correct, Alike
<1>5. Full'
  BY DEF Credit, Full
<1> QED
  BY <1>1, <1>2, <1>3, <1>4, <1>5 DEF Credit

\* A record is written, with a score or by who goes on to score it.
LEMMA CreditRecorded ==
  ASSUME IInv, Credit, NEW s \in Servers, NEW u \in Users, NEW r, NEW next, save_answer(s, u, r, next), key' = key,
         at[s].pc \in {"answer", "first"}, at[s].user = u, next.pc \in {"idle", "first"},
         next.pc = "first" => /\ next.user = u /\ Worthy(next.key)
                              /\ r.state = IF next.ans = next.key.ans THEN "correct" ELSE "incorrect",
         r.score = Unscored => next.pc = "first",
         r.state = "correct" => r.score \in {Unscored, 1}
  PROVE  Credit'
<1>1. Servers \subseteq DOMAIN at
  BY DEF IInv, TypeInv
<1>2. /\ at'[s] = next /\ \A y \in Servers : y # s => Alike(y)
      /\ \A y \in Servers : y # s /\ at[y].pc = "first" /\ at[y].user = u => at'[y].stale
      /\ answer'[u] = r /\ \A v \in Users : v # u => answer'[v] = answer[v]
  BY <1>1, AnswerSavesAlike
<1>3. KeyReady'
  BY <1>2 DEF Credit, KeyReady, Worthy, Alike
<1>4. KeysSeen'
  BY <1>2 DEF Credit, KeysSeen, Worthy, Alike
<1>5. Scoring'
  <2> SUFFICES ASSUME NEW v \in Users, answer'[v] # None, answer'[v].score = Unscored
               PROVE  \E x \in Servers : at'[x].pc = "first" /\ at'[x].user = v
    BY DEF Scoring
  <2>1. CASE v = u
    BY <1>2, <2>1
  <2>2. CASE v # u
    <3>1. PICK x \in Servers : at[x].pc = "first" /\ at[x].user = v
      BY <1>2, <2>2 DEF Credit, Scoring
    <3>2. x # s
      BY <2>2, <3>1
    <3> QED
      BY <1>2, <3>1, <3>2 DEF Alike
  <2> QED
    BY <2>1, <2>2
<1>6. FirstHeld'
  <2> SUFFICES ASSUME NEW x \in Servers, at'[x].pc = "first", ~at'[x].stale
               PROVE  answer'[at'[x].user].state = IF at'[x].ans = at'[x].key.ans THEN "correct" ELSE "incorrect"
    BY DEF FirstHeld, State, Correct
  <2>1. CASE x = s
    BY <1>2, <2>1
  <2>2. CASE x # s
    <3>1. /\ at[x].pc = "first" /\ ~at[x].stale /\ at[x].user # u
          /\ at'[x].user = at[x].user /\ at'[x].ans = at[x].ans /\ at'[x].key = at[x].key
      BY <1>2, <2>2 DEF Alike
    <3>2. at[x].user \in Users
      BY <1>1, <3>1, Kinds DEF IInv, TypeInv, Answering
    <3>3. answer'[at[x].user] = answer[at[x].user]
      BY <1>2, <3>1, <3>2
    <3> QED
      BY <3>1, <3>3 DEF Credit, FirstHeld, State, Correct
  <2> QED
    BY <2>1, <2>2
<1>7. Full'
  BY <1>2 DEF Credit, Full
<1> QED
  BY <1>3, <1>4, <1>5, <1>6, <1>7 DEF Credit

LEMMA OffersKeep ==
  ASSUME Offers, course' = course, \A u \in Users : row'[u].offers = row[u].offers,
         \A y \in Servers : Alike(y) \/ (at[y].pc \notin Stages /\ at'[y].pc \notin Stages)
  PROVE  Offers'
<1>1. Match' <=> Match
  BY DEF Match
<1>2. Uploading' = Uploading
  BY DEF Uploading, Alike, Stages
<1>3. \A x \in Uploading : Stage(x) => Stage(x)'
  <2> SUFFICES ASSUME NEW x \in Uploading, Stage(x) PROVE Stage(x)'
    OBVIOUS
  <2>1. at'[x].pc = at[x].pc /\ at'[x].admins = at[x].admins /\ at'[x].former = at[x].former
    BY DEF Uploading, Alike, Stages
  <2> QED
    BY <1>1, <2>1 DEF Stage
<1> QED
  BY <1>1, <1>2, <1>3 DEF Offers

\* A step of the only upload.
LEMMA OffersStep ==
  ASSUME Offers, NEW s \in Servers, s \in Uploading \/ Uploading = {},
         \A y \in Servers : y # s => Alike(y),
         at'[s].pc \in Stages => Stage(s)', at'[s].pc \notin Stages => Match'
  PROVE  Offers'
<1>1. Uploading \subseteq {s}
  BY DEF Offers
<1>2. Uploading' \subseteq {s}
  BY <1>1 DEF Uploading, Alike
<1>3. s \in Uploading' <=> at'[s].pc \in Stages
  BY DEF Uploading, Stages
<1> QED
  BY <1>2, <1>3 DEF Offers

-----------------------------------------------------------------------------
(* The steps, as long as nothing gets in the way.                          *)

LEMMA AccountsKeep ==
  ASSUME IInv, faults \in Nat, AccountsStep, ~disturbed'
  PROVE  \A y \in Servers : Alike(y) \/ (at[y].pc \in {"idle", "activate"} /\ at'[y].pc \in {"idle", "activate"})
<1> DEFINE Others(x) == \A y \in DOMAIN at : y # x => Alike(y)
           Own(x)    == at[x].pc \in {"idle", "activate"} /\ at'[x].pc \in {"idle", "activate"}
<1>0. /\ \A s \in Servers : s \in DOMAIN at /\ at[s] \in Jobs
      /\ Activator \in DOMAIN at /\ at[Activator] \in Jobs /\ Activator \notin Servers
      /\ \A u \in Users : row[u] \in Rows
      /\ Idle.pc = "idle"
  BY AccountsAssumption DEF IInv, TypeInv, Idle
<1>1. ASSUME NEW s \in Servers, NEW next, at' = [at EXCEPT ![s] = next] \/ \E u \in Users : \E r : save(s, u, r, next),
             at[s].pc \in {"idle", "activate"}, next.pc \in {"idle", "activate"}
      PROVE  Others(s) /\ Own(s)
  <2>1. s \in DOMAIN at
    BY <1>0
  <2>2. CASE at' = [at EXCEPT ![s] = next]
    BY <1>1, <2>1, <2>2, GoesAlike
  <2>3. CASE \E u \in Users : \E r : save(s, u, r, next)
    <3>1. PICK u \in Users : \E r : save(s, u, r, next)
      BY <2>3
    <3>2. PICK r : save(s, u, r, next)
      BY <3>1
    <3> QED
      BY <1>1, <2>1, <3>2, SavesAlike
  <2> QED
    BY <1>1, <2>2, <2>3
<1>2. ASSUME NEW next, at' = [at EXCEPT ![Activator] = next] \/ \E u \in Users : \E r : save(Activator, u, r, next)
      PROVE  Others(Activator)
  <2>2. CASE at' = [at EXCEPT ![Activator] = next]
    BY <1>0, <2>2, GoesAlike
  <2>3. CASE \E u \in Users : \E r : save(Activator, u, r, next)
    <3>1. PICK u \in Users : \E r : save(Activator, u, r, next)
      BY <2>3
    <3>2. PICK r : save(Activator, u, r, next)
      BY <3>1
    <3> QED
      BY <1>0, <3>2, SavesAlike
  <2> QED
    BY <1>2, <2>2, <2>3
<1>3. CASE \E s \in Servers, u \in Users :
             post_auth_launch_container(s, u) \/ post_auth_store_credentials(s, u) \/ handle_update_user(s, u)
  <2>1. PICK s \in Servers, u \in Users :
             post_auth_launch_container(s, u) \/ post_auth_store_credentials(s, u) \/ handle_update_user(s, u)
    BY <1>3
  <2>2. at[s].pc = "idle"
    BY <2>1 DEF post_auth_launch_container, post_auth_store_credentials, handle_update_user, Request, In
  <2> DEFINE copy == [pc |-> "activate", user |-> u, seen |-> created(u), stale |-> FALSE]
  <2>3. CASE post_auth_launch_container(s, u)
    <3>1. at' = [at EXCEPT ![s] = copy] /\ copy.pc = "activate"
      BY <2>3 DEF post_auth_launch_container
    <3> HIDE DEF copy, Others, Own
    <3>2. Others(s) /\ Own(s)
      BY <1>1, <2>2, <3>1
    <3> QED
      BY <1>0, <3>2 DEF Others, Own
  <2>4. CASE post_auth_store_credentials(s, u) \/ handle_update_user(s, u)
    <3>1. \E r : save(s, u, r, Idle)
      BY <2>4 DEF post_auth_store_credentials, handle_update_user
    <3> HIDE DEF Others, Own
    <3>2. Others(s) /\ Own(s)
      BY <1>0, <1>1, <2>2, <3>1
    <3> QED
      BY <1>0, <3>2 DEF Others, Own
  <2> QED
    BY <2>1, <2>3, <2>4
<1>4. CASE \E s \in Servers : is_user_activated(s)
  <2>1. PICK s \in Servers : is_user_activated(s)
    BY <1>4
  <2>2. at[s].pc = "activate" /\ (at' = [at EXCEPT ![s] = Idle] \/ \E r : save(s, at[s].user, r, Idle))
    BY <2>1 DEF is_user_activated, In, raise
  <2>3. at[s].user \in Users
    BY <1>0, <2>2, Kinds DEF Activating
  <2> HIDE DEF Others, Own
  <2>4. Others(s) /\ Own(s)
    BY <1>0, <1>1, <2>2, <2>3
  <2> QED
    BY <1>0, <2>4 DEF Others, Own
<1>5. CASE monitor_registrations \/ auto_activate
  <2>1. \/ at' = at
        \/ \E next : at' = [at EXCEPT ![Activator] = next] \/ \E u \in Users : \E r : save(Activator, u, r, next)
    <3>1. CASE monitor_registrations
      <4>1. at' = at \/ at' = [at EXCEPT ![Activator] = [at[Activator] EXCEPT !.pc = "query"]]
        BY <3>1 DEF monitor_registrations
      <4> QED
        BY <4>1
    <3>2. CASE get_pending_activations
      BY <3>2 DEF get_pending_activations
    <3>3. CASE send_email
      BY <3>3 DEF send_email, raise
    <3>4. CASE grant
      <4>1. at[Activator].user \in Users
        BY <1>0, <3>4, Kinds DEF grant, In, Granting
      <4> QED
        BY <3>4, <4>1 DEF grant
    <3> QED
      BY <1>5, <3>1, <3>2, <3>3, <3>4 DEF auto_activate
  <2>2. CASE at' = at
    BY <2>2 DEF Alike
  <2>3. CASE \E next : at' = [at EXCEPT ![Activator] = next] \/ \E u \in Users : \E r : save(Activator, u, r, next)
    <3> HIDE DEF Others, Own
    <3>1. Others(Activator)
      BY <1>2, <2>3
    <3> QED
      BY <1>0, <3>1 DEF Others
  <2> QED
    BY <2>1, <2>2, <2>3
<1>6. CASE hour_passes
  BY <1>6 DEF hour_passes, Alike
<1>7. CASE \E x \in Servers \cup {Activator} : fail(x)
  <2>1. faults' = faults + 1 /\ faults' # faults
    BY <1>7 DEF fail
  <2> QED
    BY <2>1 DEF AccountsStep
<1> QED
  BY <1>3, <1>4, <1>5, <1>6, <1>7 DEF AccountsStep, AccountsNext

LEMMA AccountsCalm ==
  ASSUME IInv, faults \in Nat, Credit, Offers, AccountsStep, ~disturbed'
  PROVE  Credit' /\ Offers'
<1>1. UNCHANGED <<course, key, answer>> /\ \A u \in Users : row'[u].offers = row[u].offers
  BY DEF AccountsStep
<1>2. \A y \in Servers : Alike(y) \/ (at[y].pc \in {"idle", "activate"} /\ at'[y].pc \in {"idle", "activate"})
  BY AccountsKeep
<1>3. \A y \in Servers : Alike(y) \/ (at[y].pc \notin {"first", "score"} /\ at'[y].pc \notin {"answer", "first", "score"})
  BY <1>2
<1>4. \A y \in Servers : Alike(y) \/ (at[y].pc \notin Stages /\ at'[y].pc \notin Stages)
  BY <1>2 DEF Stages
<1>5. Credit'
  BY <1>1, <1>3, CreditKeeps
<1>6. Offers'
  BY <1>1, <1>4, OffersKeep
<1> QED
  BY <1>5, <1>6

LEMMA UploadBegins ==
  ASSUME IInv, Credit, Offers, NEW s \in Servers, NEW by \in Users, upload_course(s, by), ~disturbed'
  PROVE  Credit' /\ Offers'
<1>1. s \in DOMAIN at /\ Servers \subseteq DOMAIN at
  BY DEF IInv, TypeInv
<1>0. PICK admins \in SUBSET Users, ans \in Answers, limit \in Limits :
        at' = [at EXCEPT ![s] = [pc |-> "course", admins |-> admins \cup {by}, former |-> course,
                                 ans |-> ans, limit |-> limit, stale |-> FALSE]]
  BY DEF upload_course
<1> DEFINE next == [pc |-> "course", admins |-> admins \cup {by}, former |-> course,
                    ans |-> ans, limit |-> limit, stale |-> FALSE]
<1>2. at' = [at EXCEPT ![s] = next] /\ next.pc = "course" /\ next.former = course
  BY <1>0
<1> HIDE DEF next
<1>3. at'[s] = next /\ \A y \in Servers : y # s => Alike(y)
  BY <1>1, <1>2, GoesAlike
<1>4. at[s].pc = "idle" /\ Uploading = {} /\ UNCHANGED <<row, course, key, answer>>
  BY DEF upload_course, Request, In
<1>5. Credit'
  BY <1>2, <1>3, <1>4, CreditKeeps
<1>6. Stage(s)'
  BY <1>2, <1>3, <1>4 DEF Offers, Stage, Match
<1>7. Offers'
  BY <1>2, <1>3, <1>4, <1>6, OffersStep DEF Stages
<1> QED
  BY <1>5, <1>7

\* A record with another stage.
LEMMA ChangingFields ==
  ASSUME NEW j \in Changing, NEW pc \in Stages
  PROVE  LET k == [j EXCEPT !.pc = pc] IN k.pc = pc /\ k.admins = j.admins /\ k.former = j.former
BY DEF Changing

LEMMA UploadWrites ==
  ASSUME IInv, Credit, Offers, NEW s \in Servers, set_course(s) \/ set_answer(s) \/ set_score(s), ~disturbed'
  PROVE  Credit' /\ Offers'
<1>1. s \in DOMAIN at /\ Servers \subseteq DOMAIN at /\ at[s] \in Jobs
  BY DEF IInv, TypeInv
<1>2. /\ at[s].pc \in {"course", "key", "score"} /\ at[s] \in Changing /\ s \in Uploading
      /\ at[s].admins \subseteq Users /\ at[s].former \subseteq Users
  <2>1. at[s].pc \in {"course", "key", "score"}
    BY DEF set_course, set_answer, set_score, In
  <2>2. at[s] \in Changing
    BY <1>1, <2>1, Kinds
  <2> QED
    BY <2>1, <2>2 DEF Changing, Uploading
<1>3. Stage(s) /\ UNCHANGED <<row, answer>>
  BY <1>2 DEF Offers, set_course, set_answer, set_score
<1> DEFINE next(pc) == [at[s] EXCEPT !.pc = pc]
<1>4. \A pc \in Stages : next(pc).pc = pc /\ next(pc).admins = at[s].admins /\ next(pc).former = at[s].former
  BY <1>2, ChangingFields
<1>5. CASE set_course(s)
  <2>1. at[s].pc = "course" /\ course' = at[s].admins /\ at' = [at EXCEPT ![s] = next("key")] /\ key' = key
    BY <1>5 DEF set_course, In
  <2> HIDE DEF next
  <2>2. at'[s] = next("key") /\ \A y \in Servers : y # s => Alike(y)
    BY <1>1, <2>1, GoesAlike
  <2>3. at'[s].pc = "key" /\ at'[s].admins = at[s].admins /\ at'[s].former = at[s].former
    BY <1>4, <2>2 DEF Stages
  <2>4. Credit'
    BY <1>3, <2>1, <2>2, <2>3, CreditKeeps
  <2>5. Stage(s)'
    <3>1. at[s].former = course /\ \A u \in Users : row[u].offers <=> u \in course
      BY <1>3, <2>1 DEF Stage, Match
    <3> QED
      BY <1>3, <2>1, <2>3, <3>1 DEF Stage
  <2>6. Offers'
    BY <1>2, <2>2, <2>3, <2>5, OffersStep DEF Stages
  <2> QED
    BY <2>4, <2>6
<1>6. CASE set_answer(s) \/ set_score(s)
  <2>1. PICK pc \in {"score", "admins"}, k \in {key'} : save_key(s, k, pc) /\ (pc = "admins" => k.worth = 1)
    <3>1. CASE set_answer(s)
      BY <3>1 DEF set_answer, save_key
    <3>2. CASE set_score(s)
      <4>1. key' = [key EXCEPT !.worth = 1, !.limit = at[s].limit] /\ save_key(s, key', "admins")
        BY <3>2 DEF set_score, save_key
      <4>2. [key EXCEPT !.worth = 1, !.limit = at[s].limit].worth = 1
        BY DEF IInv, TypeInv, Keys
      <4> QED
        BY <4>1, <4>2
    <3> QED
      BY <1>6, <3>1, <3>2
  <2>2. course' = course /\ at[s].pc \in {"key", "score"}
    BY <1>6 DEF set_answer, set_score, In
  <2>3. at'[s] = next(pc) /\ \A y \in Servers : y # s => Alike(y)
    BY <1>1, <2>1, KeySavesAlike
  <2> HIDE DEF next
  <2>4. at'[s].pc = pc /\ at'[s].admins = at[s].admins /\ at'[s].former = at[s].former
    BY <1>4, <2>3 DEF Stages
  <2>5. Credit'
    BY <1>3, <2>1, <2>2, <2>3, <2>4, CreditKeyed DEF Worthy
  <2>6. Stage(s)'
    BY <1>3, <2>2, <2>4 DEF Stage
  <2>7. Offers'
    BY <1>2, <2>3, <2>4, <2>6, OffersStep DEF Stages
  <2> QED
    BY <2>5, <2>7
<1> QED
  BY <1>5, <1>6

\* A row of one administrator, present or former, is saved.
LEMMA OfferChanges ==
  ASSUME IInv, NEW u \in Users, NEW offers \in BOOLEAN,
         row' = [row EXCEPT ![u] = [row[u] EXCEPT !.offers = offers, !.role = TRUE]]
  PROVE  \A v \in Users : row'[v].offers = IF v = u THEN offers ELSE row[v].offers
<1> DEFINE r == [row[u] EXCEPT !.offers = offers, !.role = TRUE]
<1>1. row[u] \in Rows /\ row \in [Users -> Rows]
  BY DEF IInv, TypeInv
<1>2. r.offers = offers
  BY <1>1 DEF Rows
<1>3. row' = [row EXCEPT ![u] = r]
  OBVIOUS
<1> HIDE DEF r
<1> QED
  BY <1>1, <1>2, <1>3

LEMMA UploadSpreads ==
  ASSUME IInv, Credit, Offers, NEW s \in Servers, offer_course(s) \/ withdraw_course(s), ~disturbed'
  PROVE  Credit' /\ Offers'
<1>1. s \in DOMAIN at /\ Servers \subseteq DOMAIN at /\ at[s] \in Jobs
  BY DEF IInv, TypeInv
<1>2. /\ at[s].pc \in {"admins", "former"} /\ at[s] \in Changing /\ s \in Uploading
      /\ at[s].admins \subseteq Users /\ at[s].former \subseteq Users
  <2>1. at[s].pc \in {"admins", "former"}
    BY DEF offer_course, withdraw_course, In
  <2>2. at[s] \in Changing
    BY <1>1, <2>1, Kinds
  <2> QED
    BY <2>1, <2>2 DEF Changing, Uploading
<1>3. UNCHANGED <<course, key, answer>>
  BY DEF offer_course, withdraw_course
<1>4. /\ at[s].admins \subseteq course /\ at[s].former \cap course \subseteq at[s].admins
      /\ at[s].pc = "former" => at[s].admins = {}
      /\ \A u \in Users : row[u].offers <=> u \in at[s].former \cup (course \ at[s].admins)
  BY <1>2 DEF Offers, Stage
\* What is left to show of either of the two.
<1>5. ASSUME \A y \in Servers : y # s => Alike(y), at'[s].pc \in {"admins", "former", "idle"},
             at'[s].pc \in Stages => Stage(s)', at'[s].pc = "idle" => Match'
      PROVE  Credit' /\ Offers'
  <2>1. at'[s].pc \notin {"first", "answer", "score"} /\ at[s].pc \notin {"first", "score"}
    BY <1>2, <1>5
  <2>2. Credit'
    BY <1>3, <1>5, <2>1, CreditKeeps
  <2>3. Offers'
    BY <1>2, <1>5, OffersStep DEF Stages
  <2> QED
    BY <2>2, <2>3
<1>6. CASE offer_course(s)
  <2> DEFINE next == [at[s] EXCEPT !.pc = "former"]
             less(u) == [at[s] EXCEPT !.admins = at[s].admins \ {u}, !.former = at[s].former \ {u}]
  <2>1. at[s].pc = "admins"
    BY <1>6 DEF offer_course, In
  <2>2. \/ at[s].admins = {} /\ at' = [at EXCEPT ![s] = next] /\ row' = row
        \/ \E u \in at[s].admins : save(s, u, [row[u] EXCEPT !.offers = TRUE, !.role = TRUE], less(u))
    BY <1>6 DEF offer_course
  <2>3. CASE at[s].admins = {} /\ at' = [at EXCEPT ![s] = next] /\ row' = row
    <3>1. next.pc = "former" /\ next.admins = at[s].admins /\ next.former = at[s].former
      BY <1>2, ChangingFields DEF Stages
    <3> HIDE DEF next
    <3>2. at'[s] = next /\ \A y \in Servers : y # s => Alike(y)
      BY <1>1, <2>3, GoesAlike
    <3>3. Stage(s)'
      BY <1>3, <1>4, <2>3, <3>1, <3>2 DEF Stage
    <3> QED
      BY <1>5, <3>1, <3>2, <3>3
  <2>4. CASE \E u \in at[s].admins : save(s, u, [row[u] EXCEPT !.offers = TRUE, !.role = TRUE], less(u))
    <3>1. PICK u \in at[s].admins : save(s, u, [row[u] EXCEPT !.offers = TRUE, !.role = TRUE], less(u))
      BY <2>4
    <3>2. \A j \in Changing : LET k == [j EXCEPT !.admins = j.admins \ {u}, !.former = j.former \ {u}] IN
            k.pc = j.pc /\ k.admins = j.admins \ {u} /\ k.former = j.former \ {u}
      BY DEF Changing
    <3>3. less(u).pc = "admins" /\ less(u).admins = at[s].admins \ {u} /\ less(u).former = at[s].former \ {u}
      BY <1>2, <2>1, <3>2
    <3>4. u \in Users
      BY <1>2
    <3>5. row' = [row EXCEPT ![u] = [row[u] EXCEPT !.offers = TRUE, !.role = TRUE]]
      BY <3>1 DEF save
    <3>6. \A v \in Users : row'[v].offers = IF v = u THEN TRUE ELSE row[v].offers
      BY <3>4, <3>5, OfferChanges
    <3> HIDE DEF less
    <3>7. at'[s] = less(u) /\ \A y \in Servers : y # s => Alike(y)
      BY <1>1, <3>1, <3>4, SavesAlike
    <3>8. Stage(s)'
      BY <1>3, <1>4, <3>3, <3>4, <3>6, <3>7 DEF Stage
    <3> QED
      BY <1>5, <3>3, <3>7, <3>8
  <2> QED
    BY <2>2, <2>3, <2>4
<1>7. CASE withdraw_course(s)
  <2> DEFINE less(u) == [at[s] EXCEPT !.former = at[s].former \ {u}]
  <2>1. at[s].pc = "former"
    BY <1>7 DEF withdraw_course, In
  <2>2. \/ at[s].former = {} /\ at' = [at EXCEPT ![s] = Idle] /\ row' = row
        \/ \E u \in at[s].former : save(s, u, [row[u] EXCEPT !.offers = FALSE, !.role = TRUE], less(u))
    BY <1>7 DEF withdraw_course, raise
  <2>3. CASE at[s].former = {} /\ at' = [at EXCEPT ![s] = Idle] /\ row' = row
    <3>1. at'[s] = Idle /\ \A y \in Servers : y # s => Alike(y)
      BY <1>1, <2>3, GoesAlike
    <3>2. Match'
      BY <1>3, <1>4, <2>1, <2>3 DEF Match
    <3>3. at'[s].pc = "idle"
      BY <3>1 DEF Idle
    <3> QED
      BY <1>5, <3>1, <3>2, <3>3 DEF Stages
  <2>4. CASE \E u \in at[s].former : save(s, u, [row[u] EXCEPT !.offers = FALSE, !.role = TRUE], less(u))
    <3>1. PICK u \in at[s].former : save(s, u, [row[u] EXCEPT !.offers = FALSE, !.role = TRUE], less(u))
      BY <2>4
    <3>2. \A j \in Changing : LET k == [j EXCEPT !.former = j.former \ {u}] IN
            k.pc = j.pc /\ k.admins = j.admins /\ k.former = j.former \ {u}
      BY DEF Changing
    <3>3. less(u).pc = "former" /\ less(u).admins = at[s].admins /\ less(u).former = at[s].former \ {u}
      BY <1>2, <2>1, <3>2
    <3>4. u \in Users
      BY <1>2
    <3>5. row' = [row EXCEPT ![u] = [row[u] EXCEPT !.offers = FALSE, !.role = TRUE]]
      BY <3>1 DEF save
    <3>6. \A v \in Users : row'[v].offers = IF v = u THEN FALSE ELSE row[v].offers
      BY <3>4, <3>5, OfferChanges
    <3> HIDE DEF less
    <3>7. at'[s] = less(u) /\ \A y \in Servers : y # s => Alike(y)
      BY <1>1, <3>1, <3>4, SavesAlike
    <3>8. Stage(s)'
      BY <1>3, <1>4, <2>1, <3>3, <3>4, <3>6, <3>7 DEF Stage
    <3> QED
      BY <1>5, <3>3, <3>7, <3>8
  <2> QED
    BY <2>2, <2>3, <2>4
<1> QED
  BY <1>6, <1>7

LEMMA AnswerBegins ==
  ASSUME IInv, Credit, Offers, NEW s \in Servers, NEW u \in Users, get_answer(s, u), ~disturbed'
  PROVE  Credit' /\ Offers'
<1>1. s \in DOMAIN at /\ Servers \subseteq DOMAIN at
  BY DEF IInv, TypeInv
<1>2. PICK ans \in Answers :
        at' = [at EXCEPT ![s] = [pc |-> "answer", user |-> u, ans |-> ans, key |-> key, stale |-> FALSE]]
  BY DEF get_answer
<1> DEFINE next == [pc |-> "answer", user |-> u, ans |-> ans, key |-> key, stale |-> FALSE]
<1>3. at' = [at EXCEPT ![s] = next] /\ next.pc = "answer" /\ next.key = key
  BY <1>2
<1> HIDE DEF next
<1>4. at'[s] = next /\ \A y \in Servers : y # s => Alike(y)
  BY <1>1, <1>3, GoesAlike
<1>5. at[s].pc = "idle" /\ UNCHANGED <<row, course, key, answer>> /\ \A x \in Servers : at[x].pc # "score"
  BY DEF get_answer, Request, In
<1>6. Worthy(key)
  BY <1>5 DEF Credit, KeyReady
<1>7. Credit'
  BY <1>3, <1>4, <1>5, <1>6, CreditKeeps
<1>8. Offers'
  BY <1>3, <1>4, <1>5, OffersKeep DEF Stages
<1> QED
  BY <1>7, <1>8

\* A record is written by a server whose submission is at hand.
LEMMA OffersRecorded ==
  ASSUME IInv, Offers, NEW s \in Servers, at[s].pc \in {"answer", "first"}, NEW u \in Users, NEW r, NEW next,
         save_answer(s, u, r, next), next.pc \in {"idle", "first"}, row' = row, course' = course
  PROVE  Offers'
<1>1. Servers \subseteq DOMAIN at
  BY DEF IInv, TypeInv
<1>2. at'[s] = next /\ \A y \in Servers : y # s => Alike(y)
  BY <1>1, AnswerSavesAlike
<1> QED
  BY <1>2, OffersKeep DEF Stages

\* What a submission is worth.
LEMMA Worths ==
  ASSUME IInv, Credit, NEW s \in Servers, at[s].pc \in {"answer", "first"}
  PROVE  /\ at[s] \in Answering /\ at[s].user \in Users /\ answer[at[s].user] \in Answered
         /\ Worthy(at[s].key) /\ Worth(s) # Unscored /\ Count(s) \in {0, 1}
         /\ State(s) = "correct" => Worth(s) = 1
<1>1. at[s] \in Answering
  BY Kinds DEF IInv, TypeInv
<1>2. /\ at[s].user \in Users /\ Worth(s) \in {0, 1} /\ Count(s) \in {0, 1} /\ at[s].ans \in Answers
  BY <1>1, Submits
<1>3. Worthy(at[s].key)
  BY DEF Credit, KeysSeen
<1>4. State(s) = "correct" => Worth(s) = 1
  <2> SUFFICES ASSUME State(s) = "correct" PROVE Worth(s) = 1
    OBVIOUS
  <2>1. Correct(s)
    BY DEF State
  <2>2. at[s].key.ans # NoAnswer
    BY <1>2, <2>1, CoursesAssumption DEF Correct
  <2> QED
    BY <1>3, <2>1, <2>2 DEF Worthy, Worth
<1>5. answer[at[s].user] \in Answered
  BY <1>2 DEF IInv, TypeInv
<1> QED
  BY <1>1, <1>2, <1>3, <1>4, <1>5 DEF Unscored

LEMMA AnswerChecked ==
  ASSUME IInv, Credit, Offers, NEW s \in Servers, check_answer(s), ~disturbed'
  PROVE  Credit' /\ Offers'
<1> DEFINE u == at[s].user
           r == answer[u]
           first(st, a) == [None EXCEPT !.state = st, !.ans = a]
           kept(q, n) == [q EXCEPT !.score = IF q.score = Unscored THEN 0 ELSE q.score, !.attempts = q.attempts + n]
           new == [state |-> State(s), ans |-> at[s].ans, score |-> Worth(s), attempts |-> r.attempts + Count(s)]
           next(j) == [j EXCEPT !.pc = "first"]
<1>1. at[s].pc = "answer" /\ UNCHANGED <<row, course, key>>
  BY DEF check_answer, In
<1>2. /\ at[s] \in Answering /\ u \in Users /\ r \in Answered
      /\ Worthy(at[s].key) /\ Worth(s) # Unscored /\ Count(s) \in {0, 1}
      /\ State(s) = "correct" => Worth(s) = 1
  BY <1>1, Worths
<1>3. Idle.pc = "idle"
  BY DEF Idle
<1>4. CASE save_answer(s, u, first(State(s), at[s].ans), next(at[s]))
  <2>1. first(State(s), at[s].ans).state = State(s) /\ first(State(s), at[s].ans).score = Unscored
    BY DEF None
  <2>2. \A j \in Answering : /\ next(j).pc = "first" /\ next(j).user = j.user
                             /\ next(j).ans = j.ans /\ next(j).key = j.key
    BY DEF Answering
  <2>3. /\ next(at[s]).pc = "first" /\ next(at[s]).user = u
        /\ next(at[s]).ans = at[s].ans /\ next(at[s]).key = at[s].key
    BY <1>2, <2>2
  <2>4. State(s) = IF next(at[s]).ans = next(at[s]).key.ans THEN "correct" ELSE "incorrect"
    BY <2>3 DEF State, Correct
  <2>5. at[s].user = u
    OBVIOUS
  <2> HIDE DEF first, next, u, r
  <2>6. Credit'
    BY <1>1, <1>2, <1>4, <2>1, <2>3, <2>4, <2>5, CreditRecorded
  <2>7. Offers'
    BY <1>1, <1>2, <1>4, <2>3, OffersRecorded
  <2> QED
    BY <2>6, <2>7
\* Nobody else is about to give the record its score, so it has one.
<1>5. CASE r # None /\ save_answer(s, u, kept(r, Count(s)), Idle)
  <2>1. \A x \in Servers : ~(at[x].pc = "first" /\ at[x].user = u)
    BY DEF check_answer, In
  <2>2. r.score # Unscored
    BY <1>2, <1>5, <2>1 DEF Credit, Scoring
  <2>3. \A q \in Answered : \A n : q.score # Unscored => kept(q, n).score = q.score /\ kept(q, n).state = q.state
    BY DEF Answered
  <2>4. kept(r, Count(s)).score = r.score /\ kept(r, Count(s)).state = r.state
    BY <1>2, <2>2, <2>3
  <2>5. r.state = "correct" => r.score \in {Unscored, 1}
    BY <1>2 DEF Credit, Full
  <2>6. at[s].user = u
    OBVIOUS
  <2> HIDE DEF kept, u, r
  <2>7. Credit'
    BY <1>1, <1>2, <1>3, <1>5, <2>2, <2>4, <2>5, <2>6, CreditRecorded
  <2>8. Offers'
    BY <1>1, <1>2, <1>3, <1>5, OffersRecorded
  <2> QED
    BY <2>7, <2>8
<1>6. CASE save_answer(s, u, new, Idle)
  <2>1. new.state = State(s) /\ new.score = Worth(s)
    OBVIOUS
  <2>2. at[s].user = u
    OBVIOUS
  <2> HIDE DEF new, u, r
  <2>3. Credit'
    BY <1>1, <1>2, <1>3, <1>6, <2>1, <2>2, CreditRecorded
  <2>4. Offers'
    BY <1>1, <1>2, <1>3, <1>6, OffersRecorded
  <2> QED
    BY <2>3, <2>4
<1> QED
  <2>1. \/ save_answer(s, u, first(State(s), at[s].ans), next(at[s]))
        \/ r # None /\ \E kp \in BOOLEAN : save_answer(s, u, IF kp THEN kept(r, Count(s)) ELSE new, Idle)
    BY Zenon DEF check_answer
  <2> HIDE DEF first, kept, new, next, u, r
  <2> QED
    BY <1>4, <1>5, <1>6, <2>1

LEMMA AnswerScored ==
  ASSUME IInv, Credit, Offers, NEW s \in Servers, set_first_score(s), ~disturbed'
  PROVE  Credit' /\ Offers'
<1> DEFINE u == at[s].user
           scored(q, w, n) == [q EXCEPT !.score = w, !.attempts = q.attempts + n]
<1>1. at[s].pc = "first" /\ UNCHANGED <<row, course, key>>
  BY DEF set_first_score, In
<1>2. /\ u \in Users /\ answer[u] \in Answered /\ Worth(s) # Unscored
      /\ State(s) = "correct" => Worth(s) = 1
  BY <1>1, Worths
<1>3. ~at[s].stale /\ save_answer(s, u, scored(answer[u], Worth(s), Count(s)), Idle)
  BY DEF set_first_score
<1>4. answer[u].state = State(s)
  BY <1>1, <1>3 DEF Credit, FirstHeld
<1>5. \A q \in Answered : \A w, n : scored(q, w, n).score = w /\ scored(q, w, n).state = q.state
  BY DEF Answered
<1>6. /\ scored(answer[u], Worth(s), Count(s)).score = Worth(s)
      /\ scored(answer[u], Worth(s), Count(s)).state = State(s)
  BY <1>2, <1>4, <1>5
<1>7. Idle.pc = "idle" /\ at[s].user = u
  BY DEF Idle
<1> HIDE DEF scored, u
<1>8. Credit'
  BY <1>1, <1>2, <1>3, <1>6, <1>7, CreditRecorded
<1>9. Offers'
  BY <1>1, <1>2, <1>3, <1>7, OffersRecorded
<1> QED
  BY <1>8, <1>9

LEMMA CalmStart == Init => faults \in Nat /\ Credit /\ Offers
<1> SUFFICES ASSUME Init PROVE faults \in Nat /\ Credit /\ Offers
  OBVIOUS
<1>1. /\ faults = 0 /\ answer = [u \in Users |-> None]
      /\ course = {u \in Users : row[u].offers}
      /\ at = [x \in Servers \cup {Activator} |-> Idle]
  BY DEF Init, AccountsInit
<1>2. \A x \in Servers : at[x].pc = "idle"
  BY <1>1 DEF Idle
<1>3. key = NoKey \/ key.worth = 1
  BY DEF Init
<1>4. Worthy(key)
  BY <1>3 DEF Worthy, NoKey
<1>5. \A u \in Users : answer[u] = None /\ answer[u].state # "correct"
  BY <1>1 DEF None
<1>6. Credit
  BY <1>2, <1>4, <1>5 DEF Credit, KeyReady, KeysSeen, Scoring, FirstHeld, Full
<1>7. Offers
  BY <1>1, <1>2 DEF Offers, Uploading, Match
<1> QED
  BY <1>1, <1>6, <1>7

LEMMA CalmSteps ==
  ASSUME IInv, faults \in Nat, CalmInv, Next
  PROVE  faults' \in Nat /\ CalmInv'
<1>1. faults' \in Nat /\ (disturbed => disturbed')
  <2>1. CASE AccountsStep
    <3>1. disturbed => disturbed'
      BY <2>1 DEF AccountsStep
    <3>2. faults' = faults \/ faults' = faults + 1
      BY <2>1 DEF AccountsStep, AccountsNext, post_auth_launch_container, post_auth_store_credentials,
                  handle_update_user, is_user_activated, monitor_registrations, auto_activate,
                  get_pending_activations, send_email, grant, hour_passes, fail
    <3> QED
      BY <3>1, <3>2
  <2>2. CASE CoursesNext
    BY <2>2 DEF CoursesNext, upload_course, get_answer, upload, set_course, set_answer, set_score,
                offer_course, withdraw_course, check_answer, set_first_score
  <2> QED
    BY <2>1, <2>2 DEF Next
<1> SUFFICES ASSUME ~disturbed' PROVE Credit' /\ Offers'
  BY <1>1 DEF CalmInv
<1>2. Credit /\ Offers
  BY <1>1 DEF CalmInv
<1>3. CASE AccountsStep
  BY <1>2, <1>3, AccountsCalm
<1>4. CASE CoursesNext
  <2>1. CASE \E s \in Servers, u \in Users : upload_course(s, u) \/ get_answer(s, u)
    BY <1>2, <2>1, UploadBegins, AnswerBegins
  <2>2. CASE \E s \in Servers : upload(s) \/ check_answer(s) \/ set_first_score(s)
    BY <1>2, <2>2, UploadWrites, UploadSpreads, AnswerChecked, AnswerScored DEF upload
  <2> QED
    BY <1>4, <2>1, <2>2 DEF CoursesNext
<1> QED
  BY <1>3, <1>4 DEF Next

LEMMA Calm == Spec => [](faults \in Nat /\ CalmInv)
<1>1. Init => faults \in Nat /\ CalmInv
  BY CalmStart DEF CalmInv
<1>2. IInv /\ (faults \in Nat /\ CalmInv) /\ [Next]_vars => (faults \in Nat /\ CalmInv)'
  <2> SUFFICES ASSUME IInv, faults \in Nat, CalmInv, [Next]_vars PROVE faults' \in Nat /\ CalmInv'
    OBVIOUS
  <2>1. CASE UNCHANGED vars
    BY <2>1 DEF vars, accountVars, courseVars, CalmInv, Credit, KeyReady, KeysSeen, Scoring, FirstHeld, Full,
                Worthy, State, Correct, Offers, Uploading, Stage, Match
  <2> QED
    BY <2>1, CalmSteps
<1> QED
  BY <1>1, <1>2, Invariant, PTL DEF Spec

\* As long as no request failed and none met a key or a record half made, a correct
\* answer that has a score has the full one (check_answer, with the key of get_answer,
\* and the save of the first score).
THEOREM FullCreditAlways == Spec => []FullCredit
<1>1. CalmInv => FullCredit
  BY DEF CalmInv, Credit, Full, FullCredit
<1> QED
  BY <1>1, Calm, PTL

\* As long as nothing failed, no two uploads overlapped and nobody changed a row by
\* hand, a course is offered by its administrators and nobody else whenever no
\* upload is under way (upload_course, through its saves of one row each).
THEOREM OffersAlways == Spec => []OffersMatch
<1>1. CalmInv => OffersMatch
  BY DEF CalmInv, Offers, Match, OffersMatch
<1> QED
  BY <1>1, Calm, PTL

=============================================================================
