------------------------------ MODULE Statistics -----------------------------
(***************************************************************************)
(* Counting.  New accounts, which decide on registration, and the          *)
(* statistics of users (db/user_v2.py); session times and their statistics *)
(* (plugins/usage_accounting); the sizes of backups (vol/volmgr.py); the   *)
(* load of an instance, which decides on new sessions (srvr_jboxd.py).     *)
(* Flags are sets; a month is its yyyymm.                                  *)
(***************************************************************************)
EXTENDS Integers, FiniteSetsExt

CONSTANTS
  NULL,
  Flags,           \* of a role; a superuser has all of them
  yyyymm(_),       \* the month of a time
  yyyymmdd(_)      \* the day of a time

-----------------------------------------------------------------------------
(* JBoxUserV2.count_created: the index has the month for its hash key, so   *)
(* each month is a query of its own.                                        *)

IsMonth(m) == m % 100 \in 1..12

next_month(mon) == IF mon % 100 = 12 THEN (mon \div 100 + 1) * 100 + 1 ELSE mon + 1

Created(users, mon, from_time, till_time) ==
  {u \in users : u.create_month = mon /\ from_time <= u.create_time /\ u.create_time <= till_time}

count_created(users, from_time, till_time) ==
  LET count[mon \in Nat] ==
        IF mon > yyyymm(till_time) THEN 0
        ELSE Cardinality(Created(users, mon, from_time, till_time)) + count[next_month(mon)]
  IN  count[yyyymm(from_time)]

-----------------------------------------------------------------------------
(* JBoxUserV2.calc_stats                                                    *)

\* The first of the limits that the time has reached.
first_reached(limits, time) ==
  {n \in DOMAIN limits : time >= limits[n] /\ \A k \in DOMAIN limits : k < n => time < limits[k]}

profiles == <<"disk_ebs_10G", "julia_packages_precompiled", "julia_cluster", "api_publisher">>

\* Of the profiles of a user the first counts.
first_profile(user) ==
  IF user.resource_profile \in {NULL, {}} THEN {"basic"}
  ELSE {profiles[n] : n \in {i \in DOMAIN profiles : profiles[i] \in user.resource_profile
                                 /\ \A k \in 1..i-1 : profiles[k] \notin user.resource_profile}}

roles(user) ==
  IF user.role \in {NULL, {}} THEN {"user"}
  ELSE (IF Flags \subseteq user.role THEN {"superuser"} ELSE {}) \cup ({"access_stats"} \cap user.role)

activation(user) == IF user.activation_status = NULL THEN "none" ELSE user.activation_status

\* The counters that a user is counted in.
calc_stat(user, weeks, days) ==
  {<<"num_users">>, <<"activation_status", activation(user)>>, <<"months", user.create_month>>}
  \cup {<<"gdrive">> : g \in {user.gtok} \ {NULL}}
  \cup {<<"role", r>> : r \in roles(user)}
  \cup {<<"resource_profile", p>> : p \in first_profile(user)}
  \cup {<<"last_n_weeks", w>> : w \in first_reached(weeks, user.create_time)}
  \cup {<<"last_n_days", d>> : d \in first_reached(days, user.create_time)}

secs_day  == 24 * 60 * 60
secs_week == 7 * secs_day

calc_stats(users, secs_now) ==
  LET weeks == [w \in 1..4 |-> secs_now - secs_week * w]
      days  == [d \in 1..7 |-> secs_now - secs_day * d]
      counters == UNION {calc_stat(u, weeks, days) : u \in users}
                  \cup ({"last_n_weeks"} \X (1..4)) \cup ({"last_n_days"} \X (1..7))
  IN  [c \in counters |-> Cardinality({u \in users : c \in calc_stat(u, weeks, days)})]

-----------------------------------------------------------------------------
(* JBoxAccountingV2.  The key of a session is its day and its time of end;  *)
(* image_id stands for the images with a tag of their own.                  *)

Session(container, image, start, stop) ==
  [container_id |-> container, image_id |-> image, start_time |-> start, stop_time |-> stop,
   stop_date |-> yyyymmdd(stop)]

\* Nine attempts, each but the first at a slightly later time.  The database
\* "fails" before it writes (it refuses a key that is there), or after it has
\* ("lost"), or not at all.
record_session_time(sessions, container, image, created, finished, outcome, later) ==
  LET entry(n) == Session(container, image, created, finished + IF n > 1 THEN later[n] ELSE 0)
      taken(rows, n) == \E s \in rows : s.stop_time = entry(n).stop_time
      tried[n \in 0..9] ==
        IF n = 0 THEN [rows |-> sessions, done |-> FALSE]
        ELSE LET before == tried[n - 1] IN
             IF before.done \/ outcome[n] = "fails" \/ taken(before.rows, n) THEN before
             ELSE [rows |-> before.rows \cup {entry(n)}, done |-> outcome[n] = "ok"]
  IN  tried[9].rows

\* The sessions of a day.  Those of days other than today are kept.
query_stats_date(cache, sessions, day, today) ==
  LET found == {s \in sessions : s.stop_date = day} IN
  IF day \in DOMAIN cache THEN [items |-> cache[day], cache |-> cache]
  ELSE [items |-> found,
        cache |-> IF day = today THEN cache
                  ELSE [d \in DOMAIN cache \cup {day} |-> IF d = day THEN found ELSE cache[d]]]

\* items: the sessions of the days asked for.
get_stats(items) ==
  LET sum_time  == MapThenSumSet(LAMBDA x : x.stop_time - x.start_time, items)
      users     == {x.container_id : x \in items}
      freq(cid) == Cardinality({x \in items : x.container_id = cid})
  IN  [session_count |-> Cardinality(items),
       avg_time      |-> IF items = {} THEN NULL ELSE sum_time \div Cardinality(items),
       images_used   |-> [i \in UNION {x.image_id : x \in items} |-> Cardinality({x \in items : i \in x.image_id})],
       unique_users  |-> Cardinality(users),
       active_users  |-> Cardinality({u \in users : freq(u) > 2})]

-----------------------------------------------------------------------------
(* VolMgr.calc_stats.  sizes: of the backups there are, by user.           *)

largest(sizes)  == Max({sizes[u] : u \in DOMAIN sizes} \cup {0})
smallest(sizes) == IF DOMAIN sizes = {} THEN 0 ELSE Min({sizes[u] : u \in DOMAIN sizes})

bins(sizes) ==
  [n \in 0..10 |-> IF n = 10 THEN largest(sizes)
                   ELSE smallest(sizes) + n * ((largest(sizes) - smallest(sizes)) \div 10)]

vol_stats(sizes) ==
  LET num   == Cardinality(DOMAIN sizes)
      total == MapThenSumSet(LAMBDA u : sizes[u], DOMAIN sizes)
      in(n) == {u \in DOMAIN sizes : sizes[u] <= bins(sizes)[n] /\ \A k \in 1..n-1 : sizes[u] > bins(sizes)[k]}
  IN  [num_files |-> num, total_size |-> total, min_size |-> smallest(sizes), max_size |-> largest(sizes),
       avg_size |-> IF num = 0 THEN 0 ELSE total \div num,
       counts |-> [n \in 1..10 |-> Cardinality(in(n))]]

-----------------------------------------------------------------------------
(* The load.  A container is a record with the suffix of its name: "svc",  *)
(* "api", "int" or another.                                                *)

containers_of_type(containers, sfx) == {c \in containers : c.sfx = sfx}
session_containers(containers)      == {c \in containers : c.sfx \notin {"svc", "api"}}

type_of(c) == IF c.sfx \in {"svc", "api"} THEN c.sfx ELSE "int"

num_active(containers, sfx) ==
  Cardinality({c \in containers : type_of(c) = sfx \/ (sfx = NULL /\ type_of(c) # "svc")})

pct(n, of) == Min({100, (n * 100) \div of})
disk_ids_used_pct(used) == pct(Cardinality({d \in DOMAIN used : used[d]}), Cardinality(DOMAIN used))

\* The plugins for home directories and for data: a set of pools for each.
used_pct(homes, data) ==
  LET sum(pools) == MapThenSumSet(disk_ids_used_pct, pools) IN Min({100, Max({sum(data), sum(homes)})})

\* host: what the system says in percent; max: of session and API containers.
overall_load_pct(containers, max, host, homes, data) ==
  Max({pct(num_active(containers, "int"), max.int), pct(num_active(containers, "api"), max.api),
       Max({0, host.disk - host.initial_disk}), host.mem, (host.cpu + host.last_cpu) \div 2,
       used_pct(homes, data)})

\* On a single node.
should_accept_session(load) == ~(load >= 100)

-----------------------------------------------------------------------------
(* What the counts are for.                                                *)

\* The month after a month: no account is passed over between the two.
NextMonth(m) ==
  /\ IsMonth(next_month(m)) /\ next_month(m) > m
  /\ \A k \in Nat : IsMonth(k) /\ k > m => k >= next_month(m)

\* The rate of registration is the number of accounts of the last hours, also
\* over the turn of a month or a year.
CountsAll(users, from_time, till_time) ==
  count_created(users, from_time, till_time)
    = Cardinality({u \in users : from_time <= u.create_time /\ u.create_time <= till_time})

\* The weeks (days) together count the accounts of the last n weeks (days),
\* and every account has one state of activation and one profile at most.
StatsAddUp(users, secs_now) ==
  LET stats == calc_stats(users, secs_now)
      since(t) == Cardinality({u \in users : u.create_time >= t})
      sum(name, keys) == MapThenSumSet(LAMBDA k : stats[<<name, k>>], keys)
      of(name) == {c[2] : c \in {d \in DOMAIN stats : d[1] = name}}
  IN  /\ \A n \in 1..4 : sum("last_n_weeks", 1..n) = since(secs_now - n * secs_week)
      /\ \A n \in 1..7 : sum("last_n_days", 1..n) = since(secs_now - n * secs_day)
      /\ sum("activation_status", of("activation_status")) = Cardinality(users)
      /\ sum("resource_profile", of("resource_profile")) <= Cardinality(users)

\* A session is recorded once at most unless a call fails after it has
\* written, and is recorded if some attempt finds the database and a free key;
\* no key is used twice, whatever fails.
RecordedOnce(sessions, container, image, created, finished, outcome, later) ==
  LET after == record_session_time(sessions, container, image, created, finished, outcome, later)
      added == after \ sessions
      stop(n) == finished + IF n > 1 THEN later[n] ELSE 0
  IN  /\ (\A n \in 1..9 : outcome[n] # "lost") => Cardinality(added) <= 1
      /\ (\E n \in 1..9 : outcome[n] = "ok" /\ \A s \in sessions : s.stop_time # stop(n)) => added # {}
      /\ \A s, t \in after : s.stop_time = t.stop_time => s = t

\* What is kept of a day is all of it, if no session of an earlier day is
\* recorded from then on.
CacheExact(sessions, more, day, today, tomorrow) ==
  LET first == query_stats_date(<<>>, sessions, day, today)
      again == query_stats_date(first.cache, sessions \cup more, day, tomorrow)
  IN  (\A s \in more : s.stop_date >= today) /\ day <= today =>
        again.items = {s \in sessions \cup more : s.stop_date = day}

\* Every backup is in one bin of the histogram, whatever the rounding, and no
\* bin is short of what is smaller.
BinsAddUp(sizes) ==
  LET stats == vol_stats(sizes) IN
  /\ MapThenSumSet(LAMBDA n : stats.counts[n], 1..10) = stats.num_files
  /\ \A n \in 1..10 : MapThenSumSet(LAMBDA k : stats.counts[k], 1..n)
                        = Cardinality({u \in DOMAIN sizes : sizes[u] <= bins(sizes)[n]})
  /\ stats.min_size <= stats.avg_size /\ stats.avg_size <= stats.max_size

\* An instance takes no session when it has no container or, of the kind that a
\* session needs, no disk left, and takes one if no resource at all is used up.
NoneWhenFull(containers, max, host, homes, data) ==
  LET accepts == should_accept_session(overall_load_pct(containers, max, host, homes, data))
      full(pool) == \A d \in DOMAIN pool : pool[d]
      sessions == Cardinality(session_containers(containers))
      apis     == Cardinality(containers_of_type(containers, "api"))
  IN  /\ accepts => sessions < max.int /\ apis < max.api /\ ~\E pool \in homes \cup data : full(pool)
      /\ sessions < max.int /\ apis < max.api /\ (\A pool \in homes \cup data : ~full(pool))
           /\ Cardinality(homes) <= 1 /\ Cardinality(data) <= 1
           /\ host.mem < 100 /\ host.disk < 100 + host.initial_disk /\ host.cpu < 100 /\ host.last_cpu < 100
         => accepts
=============================================================================
