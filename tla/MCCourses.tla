---------------------------- MODULE MCCourses ------------------------------
(* Small instances of Courses, and the operators of Reports and Statistics *)
(* on small inputs.                                                        *)
EXTENDS Courses, FiniteSetsExt

R == INSTANCE Reports WITH NULL <- NoAnswer, ANSWER_KEY <- "-"

Gids == {<<"course", "pset", q>> : q \in {1, 2}}
Key  == {[question_gid |-> g, student_id |-> "-", answer |-> 7, state |-> 1, score |-> 2, attempts |-> 3] : g \in Gids}
Answered ==
  [question_gid : Gids, student_id : {"ann", "bob"}, answer : {7}, state : {1}, score : {2, NoAnswer}, attempts : {NoAnswer}]
\* Per question and student one record, or none.
Answers2 == {recs \in SUBSET Answered :
               \A r, s \in recs : r.question_gid = s.question_gid /\ r.student_id = s.student_id => r = s}
Course   == [p \in {"pset"} |-> {1, 2}]
Readers  == [id : {"ann"}, admin : BOOLEAN, offered : {{}, {"course"}}]
ReportRequests ==
  [mode : {"report", "myreport"}, course : {"course"}, problemset : {"pset", "other"},
   questions : {NoAnswer, {1}, {1, 2}}, student : {NoAnswer, "ann", "bob", "-"}]

ASSUME ReportsPrivate ==
  \A recs \in Answers2, user \in Readers, req \in ReportRequests :
    R!OwnRecordsOnly(recs \cup Key, Course, user, req) /\ R!KeyHidden(recs \cup Key, Course, user, req)

ASSUME ReportsConsistent ==
  \A recs \in Answers2, keys \in SUBSET Key, questions \in SUBSET {1, 2} :
    /\ R!ReportsAgree(recs \cup keys, "course", "pset", questions, "ann")
    /\ R!ScoresAddUp(recs \cup keys, "course", "pset", questions)

-----------------------------------------------------------------------------
\* A calendar of months of two time units, and of days of ten.
Month(t) == (t \div 24 + 2000) * 100 + (t % 24) \div 2 + 1
Day(t)   == t \div 10

C == INSTANCE Statistics WITH
       NULL <- NoAnswer, Flags <- {"access_stats", "offer"}, yyyymm <- Month, yyyymmdd <- Day

Account(id, t) == [id |-> id, create_month |-> Month(t), create_time |-> t]

ASSUME MonthsFollow == \A m \in {199911, 199912, 200001, 200012} : 
  C!IsMonth(C!next_month(m)) /\ \A k \in (m + 1)..(m + 200) : C!IsMonth(k) => k >= C!next_month(m)

\* From November to February, with accounts at any of the times.
ASSUME RateCountsAll ==
  \A one, two, three \in 20..28, from, till \in 19..28 :
    C!CountsAll({Account(1, one), Account(2, two), Account(3, three)}, from, till)

Profiled == [gtok : {NoAnswer, 1}, role : {NoAnswer, {}, {"access_stats"}, {"access_stats", "offer"}},
             activation_status : {NoAnswer, "granted"}, create_month : {200001},
             resource_profile : {NoAnswer, {}, {"julia_cluster", "api_publisher"}, {"disk_ebs_10G"}},
             create_time : {0, 1, 13 * C!secs_day, 14 * C!secs_day, 27 * C!secs_day}]

ASSUME StatisticsAddUp ==
  \A g \in {NoAnswer, 1}, roles \in SUBSET {NoAnswer, {}, {"access_stats", "offer"}}, now \in {20, 28} :
    C!StatsAddUp({u \in Profiled : u.gtok = g /\ u.role \in roles}, now * C!secs_day)

\* A session that ends at 9, beside others; the first five attempts meet anything.
Outcomes == {[n \in 1..9 |-> IF n <= 4 THEN o[n] ELSE "ok"] : o \in [1..4 -> {"ok", "fails", "lost"}]}
Others   == {{C!Session("c2", {}, 0, t) : t \in times} : times \in SUBSET (9..12)}

ASSUME SessionsRecorded ==
  \A sessions \in Others, outcome \in Outcomes, d \in {1, 2} :
    C!RecordedOnce(sessions, "c1", {}, 0, 9, outcome, [n \in 1..9 |-> 1 + ((d * n) % 3)])

ASSUME SessionsCached ==
  \A sessions, more \in Others, day, today \in 0..1, tomorrow \in {1, 2} :
    C!CacheExact(sessions, more, day, today, tomorrow)

-----------------------------------------------------------------------------
\* Four backups, or fewer.
ASSUME BackupsBinned ==
  \A users \in SUBSET (1..4) : \A sizes \in [users -> {0, 3, 9, 10, 23, 24, 57}] : C!BinsAddUp(sizes)

\* Two sessions at most, one without a suffix in its name, and two APIs; pools of two or three disks.
Places == {{[id |-> n, sfx |-> CASE n = 1 -> "int" [] n = 2 -> "" [] n = 3 -> "svc" [] OTHER -> "api"] : n \in ids} : ids \in SUBSET (1..5)}
Host   == [disk : {50, 100, 150}, initial_disk : {0, 50}, mem : {50, 100}, cpu : {1, 99, 100}, last_cpu : {99, 100}]
Homes  == {{}} \cup {{pool} : pool \in [1..3 -> BOOLEAN]}
Data   == {{}} \cup {{pool} : pool \in [1..2 -> BOOLEAN]}

ASSUME FullInstances ==
  \A host \in Host, containers \in Places, homes \in Homes, data \in Data :
    C!NoneWhenFull(containers, [int |-> 2, api |-> 2], host, homes, data)
=============================================================================
