------------------------------ MODULE Courses -------------------------------
(***************************************************************************)
(* Courses and homework (plugins/course_homework) over the accounts: one   *)
(* course of one question.  An upload writes the course record, the answer *)
(* key, and the row of every administrator the course has or had.  A       *)
(* submission compares with the key and keeps the latest answer until one  *)
(* is correct or the attempts run out.                                     *)
(***************************************************************************)
EXTENDS Accounts

CONSTANTS
  Answers,
  Limits,    \* attempts an upload may set; 0 is no limit
  NoAnswer

ASSUME CoursesAssumption == Answers # {} /\ NoAnswer \notin Answers /\ Limits \subseteq Nat

VARIABLES
  course,    \* administrators of the course; {} while there is none
  key,       \* the answer key: [ans, worth, limit]
  answer,    \* the record of each user: [state, ans, score, attempts]
  disturbed  \* a request failed, uploads overlapped, or a record half made was used

courseVars == <<course, key, answer, disturbed>>
vars       == <<accountVars, courseVars>>

NoKey    == [ans |-> NoAnswer, worth |-> 0, limit |-> 0]
Unscored == -1
None     == [state |-> "none", ans |-> NoAnswer, score |-> Unscored, attempts |-> 0]
Records  == [state : {"none", "correct", "incorrect"}, ans : Answers \cup {NoAnswer},
             score : {Unscored, 0, 1}, attempts : 0 .. MaxRequests]

Init ==
  /\ AccountsInit
  /\ course = {u \in Users : row[u].offers}
  /\ key \in IF course = {} THEN {NoKey} ELSE [ans : {CHOOSE ans \in Answers : TRUE}, worth : {1}, limit : Limits]
  /\ answer = [u \in Users |-> None] /\ disturbed = FALSE

Uploading == {s \in Servers : at[s].pc \in {"course", "key", "score", "admins", "former"}}

-----------------------------------------------------------------------------
(* Upload.  Only administrators may change a course there is.              *)

upload_course(s, by) ==
  /\ Request(s) /\ (course # {} => by \in course)
  /\ \E admins \in SUBSET Users, ans \in Answers, limit \in Limits :
       at' = [at EXCEPT ![s] = [pc |-> "course", admins |-> admins \cup {by}, former |-> course,
                                ans |-> ans, limit |-> limit, stale |-> FALSE]]
  /\ disturbed' = (disturbed \/ Uploading # {})
  /\ UNCHANGED <<row, allowed, recent, faults, course, key, answer>>

set_course(s) ==
  /\ In(s, "course")
  /\ course' = at[s].admins /\ at' = [at EXCEPT ![s].pc = "key"]
  /\ UNCHANGED <<row, allowed, recent, requests, faults, key, answer, disturbed>>

\* The key is saved by server s; a copy another server holds is stale.
save_key(s, k, pc) ==
  /\ key' = k
  /\ at' = [x \in DOMAIN at |-> IF x = s THEN [at[x] EXCEPT !.pc = pc]
                                ELSE IF at[x].pc = "score" THEN [at[x] EXCEPT !.stale = TRUE] ELSE at[x]]

\* A new key is made without score and limit, which a save adds.
set_answer(s) ==
  /\ In(s, "key")
  /\ IF key = NoKey THEN save_key(s, [NoKey EXCEPT !.ans = at[s].ans], "score")
     ELSE save_key(s, [ans |-> at[s].ans, worth |-> 1, limit |-> at[s].limit], "admins")
  /\ UNCHANGED <<row, allowed, recent, requests, faults, course, answer, disturbed>>

set_score(s) ==
  /\ In(s, "score")
  /\ IF at[s].stale THEN raise(s) /\ disturbed' = TRUE /\ UNCHANGED key
     ELSE save_key(s, [key EXCEPT !.worth = 1, !.limit = at[s].limit], "admins") /\ UNCHANGED disturbed
  /\ UNCHANGED <<row, allowed, recent, requests, faults, course, answer>>

\* An administrator without an account ends the upload.
offer_course(s) ==
  /\ In(s, "admins")
  /\ IF at[s].admins = {} THEN at' = [at EXCEPT ![s].pc = "former"] /\ UNCHANGED <<row, disturbed>>
     ELSE \E u \in at[s].admins :
            IF row[u].st = "none" THEN raise(s) /\ disturbed' = TRUE /\ UNCHANGED row
            ELSE /\ save(s, u, [row[u] EXCEPT !.offers = TRUE, !.role = TRUE],
                         [at[s] EXCEPT !.admins = @ \ {u}, !.former = @ \ {u}])
                 /\ UNCHANGED disturbed
  /\ UNCHANGED <<allowed, recent, requests, faults, course, key, answer>>

\* Mutant: administrators the course had keep offering it.
withdraw_none(s) ==
  /\ In(s, "former") /\ raise(s)
  /\ UNCHANGED <<row, allowed, recent, requests, faults, course, key, answer, disturbed>>

withdraw_course(s) ==
  /\ In(s, "former")
  /\ IF at[s].former = {} THEN raise(s) /\ UNCHANGED <<row, disturbed>>
     ELSE \E u \in at[s].former :
            IF row[u].st = "none" THEN raise(s) /\ disturbed' = TRUE /\ UNCHANGED row
            ELSE /\ save(s, u, [row[u] EXCEPT !.offers = FALSE, !.role = TRUE], [at[s] EXCEPT !.former = @ \ {u}])
                 /\ UNCHANGED disturbed
  /\ UNCHANGED <<allowed, recent, requests, faults, course, key, answer>>

-----------------------------------------------------------------------------
(* Submission.                                                             *)

get_answer(s, u) ==
  /\ Request(s) /\ row[u].st = "granted"
  /\ \E ans \in Answers :
       at' = [at EXCEPT ![s] = [pc |-> "answer", user |-> u, ans |-> ans, key |-> key, stale |-> FALSE]]
  /\ disturbed' = (disturbed \/ \E x \in Servers : In(x, "score"))
  /\ UNCHANGED <<row, allowed, recent, faults, course, key, answer>>

Correct(s) == at[s].ans = at[s].key.ans
Count(s)   == IF Correct(s) THEN 0 ELSE 1
Worth(s)   == IF Correct(s) THEN at[s].key.worth ELSE 0
State(s)   == IF Correct(s) THEN "correct" ELSE "incorrect"

\* The record of u is written by s, which goes on with next.
save_answer(s, u, r, next) ==
  /\ answer' = [answer EXCEPT ![u] = r]
  /\ at' = [x \in DOMAIN at |-> IF x = s THEN next
                                ELSE IF at[x].pc = "first" /\ at[x].user = u THEN [at[x] EXCEPT !.stale = TRUE]
                                ELSE at[x]]

\* Mutant: the latest answer replaces a correct one.
check_latest(s) ==
  /\ In(s, "answer")
  /\ LET u == at[s].user  r == answer[u] IN
     IF r = None
     THEN save_answer(s, u, [None EXCEPT !.state = State(s), !.ans = at[s].ans], [at[s] EXCEPT !.pc = "first"])
     ELSE save_answer(s, u, [state |-> State(s), ans |-> at[s].ans, score |-> Worth(s),
                             attempts |-> r.attempts + Count(s)], Idle)
  /\ UNCHANGED <<row, allowed, recent, requests, faults, course, key, disturbed>>

\* Mutant: a record there is keeps its score, whatever the new answer.
check_scored_once(s) ==
  /\ In(s, "answer")
  /\ LET u == at[s].user  r == answer[u] IN
     IF r = None
     THEN save_answer(s, u, [None EXCEPT !.state = State(s), !.ans = at[s].ans], [at[s] EXCEPT !.pc = "first"])
     ELSE save_answer(s, u,
            IF r.state = "correct" THEN r
            ELSE [r EXCEPT !.state = State(s), !.ans = at[s].ans, !.attempts = @ + Count(s)], Idle)
  /\ disturbed' = (disturbed \/ \E x \in Servers : In(x, "first") /\ at[x].user = at[s].user)
  /\ UNCHANGED <<row, allowed, recent, requests, faults, course, key>>

\* Once correct, or without attempts left, the record keeps its answer and score.
\* The first record is made without a score, which a save adds.
check_answer(s) ==
  /\ In(s, "answer")
  /\ LET u    == at[s].user
         r    == answer[u]
         kept == r.state = "correct" \/ (at[s].key.limit > 0 /\ r.attempts >= at[s].key.limit)
     IN  IF r = None
         THEN save_answer(s, u, [None EXCEPT !.state = State(s), !.ans = at[s].ans], [at[s] EXCEPT !.pc = "first"])
         ELSE save_answer(s, u,
                IF kept THEN [r EXCEPT !.score = IF @ = Unscored THEN 0 ELSE @, !.attempts = @ + Count(s)]
                ELSE [state |-> State(s), ans |-> at[s].ans, score |-> Worth(s), attempts |-> r.attempts + Count(s)],
                Idle)
  /\ disturbed' = (disturbed \/ \E x \in Servers : In(x, "first") /\ at[x].user = at[s].user)
  /\ UNCHANGED <<row, allowed, recent, requests, faults, course, key>>

set_first_score(s) ==
  /\ In(s, "first")
  /\ LET u == at[s].user IN
     IF at[s].stale THEN raise(s) /\ disturbed' = TRUE /\ UNCHANGED answer
     ELSE /\ save_answer(s, u, [answer[u] EXCEPT !.score = Worth(s), !.attempts = @ + Count(s)], Idle)
          /\ UNCHANGED disturbed
  /\ UNCHANGED <<row, allowed, recent, requests, faults, course, key>>

-----------------------------------------------------------------------------
upload(s) == set_course(s) \/ set_answer(s) \/ set_score(s) \/ offer_course(s) \/ withdraw_course(s)

CoursesNext ==
  \/ \E s \in Servers, u \in Users : upload_course(s, u) \/ get_answer(s, u)
  \/ \E s \in Servers : upload(s) \/ check_answer(s) \/ set_first_score(s)

\* The administration and failures bring rows and course apart.
AccountsStep ==
  /\ AccountsNext
  /\ disturbed' = (disturbed \/ faults' # faults \/ \E u \in Users : row'[u].offers # row[u].offers)
  /\ UNCHANGED <<course, key, answer>>

Next == AccountsStep \/ CoursesNext
Spec == Init /\ [][Next]_vars
FairSpec == Spec /\ AccountsFairness

-----------------------------------------------------------------------------
(* Properties.                                                             *)

\* A correct answer counts for good: no later submission, not even one under way
\* at the time, and no new key takes it or its score away.
CorrectStays ==
  [][\A u \in Users : answer[u].state = "correct" =>
       /\ answer'[u].state = "correct" /\ answer'[u].ans = answer[u].ans
       /\ answer[u].score # Unscored => answer'[u].score = answer[u].score]_answer

\* And it counts in full, if no request failed or met a key or a record half made.
FullCredit ==
  ~disturbed => \A u \in Users : answer[u].state = "correct" => answer[u].score \in {Unscored, 1}

\* When an upload is through, those who offer the course are its administrators,
\* if nothing failed, overlapped or was changed by hand.
OffersMatch ==
  ~disturbed /\ Uploading = {} => \A u \in Users : row[u].offers <=> u \in course

=============================================================================
