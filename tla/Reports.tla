------------------------------- MODULE Reports -------------------------------
(***************************************************************************)
(* What the homework plugin tells students and the administrators of       *)
(* courses: reports and metadata (course_homework.py), computed from the   *)
(* records of answers (course_homework_tbl.py).  A record has the gid of   *)
(* its question, its student, or ANSWER_KEY, and what was answered.  The   *)
(* questions of a request are a set: each is asked for once.               *)
(***************************************************************************)
EXTENDS Integers, FiniteSetsExt

CONSTANTS NULL, ANSWER_KEY

valid_get(rec, key, default) ==
  IF key \in DOMAIN rec /\ rec[key] # NULL THEN rec[key] ELSE default

question_gid(course, problemset, question) == <<course, problemset, question>>

-----------------------------------------------------------------------------
(* JBoxCourseHomework                                                      *)

\* The records of a question: of all students and the key, or of one student
\* and the key.
records(recs, gid, student) ==
  {r \in recs : r.question_gid = gid /\ (student = NULL \/ r.student_id \in {student, ANSWER_KEY})}

KeyOf(recs, gid) == {r \in recs : r.question_gid = gid /\ r.student_id = ANSWER_KEY}

entry(rec) ==
  [id |-> rec.student_id, answer |-> rec.answer, evaluation |-> rec.state,
   score |-> valid_get(rec, "score", 0), attempts |-> valid_get(rec, "attempts", 0)]

\* The answer key tells the maximum; what it stores is called score, not max_score.
of_question(recs, gid, student) ==
  LET key == {r \in records(recs, gid, student) : r.student_id = ANSWER_KEY} IN
  [students     |-> {entry(r) : r \in {s \in records(recs, gid, student) : s.student_id # ANSWER_KEY}},
   max_score    |-> MapThenSumSet(LAMBDA r : valid_get(r, "max_score", 0), key),
   max_attempts |-> MapThenSumSet(LAMBDA r : valid_get(r, "attempts", 0), key)]

\* What a student has in all questions together.
cum_score(questions, u) ==
  MapThenSumSet(LAMBDA q : MapThenSumSet(LAMBDA s : s.score, {e \in questions[q].students : e.id = u}), DOMAIN questions)

get_report(recs, course, problemset, question_ids, student) ==
  LET questions == [q \in question_ids |-> of_question(recs, question_gid(course, problemset, q), student)]
      ids       == UNION {{s.id : s \in questions[q].students} : q \in question_ids}
  IN  [max_score |-> MapThenSumSet(LAMBDA q : questions[q].max_score, question_ids),
       questions |-> questions,
       scores    |-> [u \in ids |-> cum_score(questions, u)]]

\* Only the columns that tell: "score" and "attempts" of the key, and its
\* answer for those who may see it.  Questions without a key are left out.
get_problemset_metadata(recs, course, problemset, question_ids, send_answers) ==
  LET keys == UNION {KeyOf(recs, question_gid(course, problemset, q)) : q \in question_ids}
  IN  [questions |-> {[id |-> k.question_gid[3], score |-> valid_get(k, "score", 0),
                       attempts |-> valid_get(k, "attempts", 0),
                       answer |-> IF send_answers THEN k.answer ELSE NULL] : k \in keys},
       max_score |-> MapThenSumSet(LAMBDA k : valid_get(k, "score", 0), keys)]

-----------------------------------------------------------------------------
(* HomeworkHandler.  A user has an id, the courses offered, and may be an   *)
(* administrator.  A course maps its problem sets to their questions.       *)

Outsider(user, course) == ~user.admin /\ course \notin user.offered

Refusal == [code |-> -1, data |-> {}]

Found(course, req) == req.problemset \in DOMAIN course

question_ids(course, req) == IF req.questions = NULL THEN course[req.problemset] ELSE req.questions

\* "myreport" is for oneself; an outsider's "report" without a student as well.
student_id(user, req) ==
  IF req.mode = "myreport" \/ (Outsider(user, req.course) /\ req.student = NULL)
  THEN user.id ELSE req.student

handle_if_report(recs, course, user, req) ==
  LET student == student_id(user, req) IN
  IF (Outsider(user, req.course) /\ student # user.id) \/ ~Found(course, req) THEN Refusal
  ELSE [code |-> 0, data |-> get_report(recs, req.course, req.problemset, question_ids(course, req), student)]

handle_get_metadata(recs, course, user, req) ==
  IF ~Found(course, req) THEN Refusal
  ELSE [code |-> 0, data |-> get_problemset_metadata(recs, req.course, req.problemset, question_ids(course, req),
                                                     ~Outsider(user, req.course))]

-----------------------------------------------------------------------------
(* What students and administrators of courses rely on.                    *)

\* Who does not offer a course reads no record of another, in no report.
OwnRecordsOnly(recs, course, user, req) ==
  LET answer == handle_if_report(recs, course, user, req) IN
  Outsider(user, req.course) /\ answer.code = 0 =>
    \A q \in question_ids(course, req) : \A s \in answer.data.questions[q].students :
      s.id = user.id /\ \E r \in recs : r.student_id = user.id /\ s = entry(r)

\* No answer to them carries the answer key: an entry of a report is not made
\* from the key, and metadata comes without answers.
KeyHidden(recs, course, user, req) ==
  Outsider(user, req.course) =>
    /\ LET report == handle_if_report(recs, course, user, req) IN
       report.code = 0 =>
         \A q \in question_ids(course, req) : \A s \in report.data.questions[q].students : s.id # ANSWER_KEY
    /\ LET metadata == handle_get_metadata(recs, course, user, req) IN
       metadata.code = 0 => \A k \in metadata.data.questions : k.answer = NULL

\* A student's own report shows the scores and the limits that the report of
\* everybody shows of the student.
ReportsAgree(recs, course, problemset, questions, u) ==
  LET all == get_report(recs, course, problemset, questions, NULL)
      own == get_report(recs, course, problemset, questions, u)
  IN  /\ u \in DOMAIN all.scores <=> u \in DOMAIN own.scores
      /\ u \in DOMAIN all.scores => all.scores[u] = own.scores[u]
      /\ \A q \in questions :
           /\ own.questions[q].students = {s \in all.questions[q].students : s.id = u}
           /\ own.questions[q].max_attempts = all.questions[q].max_attempts

\* The scores of a report are what its records hold, one record each.
ScoresAddUp(recs, course, problemset, questions) ==
  LET report == get_report(recs, course, problemset, questions, NULL)
      of     == {r \in recs : \E q \in questions : r.question_gid = question_gid(course, problemset, q)}
  IN  MapThenSumSet(LAMBDA u : report.scores[u], DOMAIN report.scores)
        = MapThenSumSet(LAMBDA r : valid_get(r, "score", 0), {r \in of : r.student_id # ANSWER_KEY})
=============================================================================
