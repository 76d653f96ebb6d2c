------------------------------ MODULE Settings -------------------------------
(***************************************************************************)
(* What the instances of a cluster agree on: the settings in the database  *)
(* (JBoxDynConfig, db/dynconfig.py) and the images of home directories and *)
(* packages, which each process brings up to date with them (VolMgr,       *)
(* vol/volmgr.py).  Where others may change the table between two calls,   *)
(* the operator takes the table at each.  str, int and JSON are read back  *)
(* as they were written; times are in whole seconds.                       *)
(***************************************************************************)
EXTENDS Integers

CONSTANT NULL

Columns == {"name", "value"}
Key     == {"name"}

T == INSTANCE Tables

-----------------------------------------------------------------------------
(* JBoxDynConfig: a setting of a cluster.                                  *)

DEFAULT_REGISTRATION_RATE == 60

fetch(rows, cluster, prop) == T!select(rows, {T!Is("name", <<cluster, prop>>)})

Answer(rows, ok) == [rows |-> rows, ok |-> ok]

\* seen[1]: the table when the record is fetched; seen[2]: when it is created or
\* saved.  The database refuses a record that another has created.
set(seen, cluster, prop, value) ==
  LET found == fetch(seen[1], cluster, prop)
      new   == [name |-> <<cluster, prop>>, value |-> value]
  IN  IF found = {} THEN Answer(T!insert(seen[2], new), ~T!refused(seen[2], new))
      ELSE Answer(T!update(seen[2], T!set_attrib(CHOOSE r \in found : TRUE, "value", value)), TRUE)

get(rows, cluster, prop, default) ==
  LET found == fetch(rows, cluster, prop)
  IN  IF found = {} THEN default ELSE T!get_attrib(CHOOSE r \in found : TRUE, "value", NULL)

set_cluster_leader(seen, cluster, instance) == set(seen, cluster, "leader", instance)
get_cluster_leader(rows, cluster)           == get(rows, cluster, "leader", NULL)
unset_cluster_leader(rows, cluster)         == rows \ fetch(rows, cluster, "leader")

set_allow_registration(seen, cluster, allow) == set(seen, cluster, "allow_registration", allow)
get_allow_registration(rows, cluster)        == get(rows, cluster, "allow_registration", TRUE)

set_registration_hourly_rate(seen, cluster, rate) == set(seen, cluster, "registrations_hourly_rate", rate)
get_registration_hourly_rate(rows, cluster) ==
  get(rows, cluster, "registrations_hourly_rate", DEFAULT_REGISTRATION_RATE)

set_message(seen, cluster, message, now, valid) ==
  set(seen, cluster, "message", [msg |-> message, valid_till |-> now + valid])

\* seen[2]: when a message that has expired is deleted.
get_message(seen, cluster, now) ==
  LET m       == get(seen[1], cluster, "message", NULL)
      expired == m # NULL /\ m.valid_till < now
  IN  [rows |-> IF expired THEN seen[2] \ fetch(seen[2], cluster, "message") ELSE seen[2],
       msg  |-> IF m = NULL \/ expired THEN NULL ELSE m.msg]

set_stat_collected_date(seen, cluster, now) == set(seen, cluster, "stat_date", now)
get_stat_collected_date(rows, cluster)      == get(rows, cluster, "stat_date", NULL)
is_stat_collected_within(rows, cluster, days, now) ==
  LET last == get_stat_collected_date(rows, cluster)
  IN  last # NULL /\ last > now - days * 24 * 60 * 60

set_stat(seen, cluster, stat_name, stat) == set(seen, cluster, stat_name, stat)
get_stat(rows, cluster, stat_name)       == get(rows, cluster, stat_name, NULL)

set_course(seen, cluster, course, details) == set(seen, cluster, <<"course", course>>, details)
get_course(rows, cluster, course)          == get(rows, cluster, <<"course", course>>, NULL)

set_user_cluster_config(seen, cluster, cfg) == set(seen, cluster, "user_cluster", cfg)
get_user_cluster_config(rows, cluster)      == get(rows, cluster, "user_cluster", NULL)

set_user_home_image(seen, cluster, img) == set(seen, cluster, "user_home_image", img)
get_user_home_image(rows, cluster)      == get(rows, cluster, "user_home_image", NULL)

-----------------------------------------------------------------------------
(* VolMgr.  used: the images a process works with; conf: those configured,  *)
(* both given, or NULL; files: the images on this instance.                *)

has_update_for_user_home_image(used, conf) == conf # NULL /\ used # conf

Update(used, files, updated) == [used |-> used, files |-> files, updated |-> updated]

\* What is fetched: the home image and then the packages, each unless it is
\* there.  pull: the bucket has it ("ok"), does not ("none"), or "raises".
fetched(conf, files, pull) ==
  LET outcome(img, n) == IF img \in files THEN "there" ELSE pull[n]
      stopped == outcome(conf.home, 1) = "raises"
      home == {conf.home : o \in {outcome(conf.home, 1)} \cap {"ok"}}
      pkg  == {conf.pkg : o \in {outcome(conf.pkg, 2)} \cap (IF stopped THEN {} ELSE {"ok"})}
  IN  [files |-> files \cup home \cup pkg,
       fails |-> stopped \/ outcome(conf.pkg, 2) = "raises"]

update_user_home_image(used, conf, files, fetching, pull) ==
  LET got == IF fetching THEN fetched(conf, files, pull) ELSE [files |-> files, fails |-> FALSE]
      new == [home |-> IF conf.home \in got.files THEN conf.home ELSE used.home,
              pkg  |-> IF conf.pkg \in got.files THEN conf.pkg ELSE used.pkg]
  IN  IF got.fails THEN Update(used, got.files, FALSE)
      ELSE Update(new, got.files, {conf.home, conf.pkg} \cap got.files # {})

\* JBox takes what is there, and asks JBoxd to fetch if there is neither.
do_update_user_home_image(used, conf, files) ==
  LET after == update_user_home_image(used, conf, files, FALSE, <<>>)
  IN  IF has_update_for_user_home_image(used, conf)
      THEN [used |-> after.used, asks |-> ~after.updated]
      ELSE [used |-> used, asks |-> FALSE]

-----------------------------------------------------------------------------
(* What the instances rely on.                                             *)

Table(rows) == T!Rows(rows) /\ T!KeysUnique(rows)

\* Who is told that a setting is stored finds it, unless it was deleted between
\* the two calls; nobody else's setting changes, and there is one row for each.
SetIsStored(seen, cluster, prop, value) ==
  LET answer == set(seen, cluster, prop, value)
      gone   == fetch(seen[1], cluster, prop) # {} /\ fetch(seen[2], cluster, prop) = {}
  IN  /\ answer.ok /\ ~gone => get(answer.rows, cluster, prop, NULL) = value
      /\ {r \in answer.rows : r.name # <<cluster, prop>>} = {r \in seen[2] : r.name # <<cluster, prop>>}
      /\ Table(answer.rows)

\* A page that shows the message while a new one is set, before or after the
\* page deletes what it read: the new one stays, provided that the page read
\* none that had expired.  (Otherwise it may go with the old one.)
NewMessageStays(rows, cluster, message, now, valid) ==
  LET stored  == set_message(<<rows, rows>>, cluster, message, now, valid).rows
      page(t) == get_message(<<rows, t>>, cluster, now).rows
      after(t) == get_message(<<t, t>>, cluster, now).msg
      old     == get(rows, cluster, "message", NULL)
  IN  valid >= 0 /\ (old # NULL => old.valid_till >= now) =>
        /\ after(page(stored)) = message
        /\ after(set_message(<<rows, page(rows)>>, cluster, message, now, valid).rows) = message

\* No process works with an image that is not there.
ImagesExist(used, conf, files, fetching, pull) ==
  LET after == update_user_home_image(used, conf, files, fetching, pull)
  IN  {used.home, used.pkg} \subseteq files => {after.used.home, after.used.pkg} \subseteq after.files

\* Where both images are new, JBox asks for them, JBoxd fetches what the bucket
\* has, and the next time JBox looks it works with all that has arrived and, if
\* it is both, has no update left and nothing to ask for.
UpdateArrives(used, conf, files, pull) ==
  LET asked == do_update_user_home_image(used, conf, files)
      jboxd == update_user_home_image(used, conf, files, TRUE, pull)
      next  == do_update_user_home_image(asked.used, conf, jboxd.files)
  IN  conf.home \notin files /\ conf.pkg \notin files /\ {used.home, used.pkg} \subseteq files =>
        /\ asked.asks
        /\ \A img \in {conf.home, conf.pkg} \cap jboxd.files : img \in {next.used.home, next.used.pkg}
        /\ pull = <<"ok", "ok">> => ~has_update_for_user_home_image(next.used, conf) /\ ~next.asks
=============================================================================
