------------------------------ MODULE ApiSpecs -------------------------------
(***************************************************************************)
(* The APIs that users publish: the table of JBoxAPISpec (db/api_spec.py)  *)
(* and the requests of its administration (plugins/api_admin/api.py).  A   *)
(* request of the web server reads and writes the table call by call;      *)
(* where others may change it in between, the operator takes the table at  *)
(* each of the calls.                                                      *)
(***************************************************************************)
EXTENDS Integers

CONSTANTS NULL, DefaultImage

Columns == {"api_name", "publisher", "cmd", "image_name", "description", "timeout_secs", "create_time"}
Key     == {"api_name"}

T == INSTANCE Tables

-----------------------------------------------------------------------------
(* JBoxAPISpec                                                             *)

named(rows, name) == T!select(rows, {T!Is("api_name", name)})

get_publisher(api) == T!get_attrib(api, "publisher", NULL)

\* What is known of an API, with defaults for the image and the timeout.
as_json(api) ==
  LET value == [c \in Columns |-> CASE c = "image_name"   -> T!get_attrib(api, c, DefaultImage)
                                    [] c = "timeout_secs" -> T!get_attrib(api, c, 30)
                                    [] OTHER              -> T!get_attrib(api, c, NULL)]
  IN  [c \in {d \in Columns : value[d] # NULL} |-> value[c]]

\* The APIs of a publisher whose names come at or after the one given, all if
\* none is (0 comes before every name).  The table knows of no index.
get_api_info(rows, publisher, api_name) ==
  LET first == IF api_name = NULL THEN 0 ELSE api_name
      found == T!scan(rows, {T!Is("publisher", publisher), [col |-> "api_name", op |-> "gte", v |-> first], T!Is("index", NULL)})
  IN  UNION {{as_json(api) : api \in named(rows, r["api_name"])} : r \in found}

\* data: the attributes that are given; None leaves an attribute as it is.
set_api_info(rows, data) ==
  LET set(api) == [c \in Columns |-> IF c \in DOMAIN data /\ data[c] # NULL THEN data[c] ELSE api[c]]
  IN  IF named(rows, data.api_name) = {} THEN T!insert(rows, data)
      ELSE T!update(rows, set(CHOOSE api \in named(rows, data.api_name) : TRUE))

-----------------------------------------------------------------------------
(* APIAdminHandler.  A user is a record of id, profile (a set of flags) and *)
(* admin.  A response is the table afterwards, a code and data; "error" is  *)
(* send_error or an exception.                                              *)

Response(rows, code, data) == [rows |-> rows, code |-> code, data |-> data]

Publisher(user, req) ==
  IF user.admin /\ req.publisher # NULL THEN req.publisher ELSE user.id

handle_get_api_info(rows, user, req) ==
  Response(rows, "ok", get_api_info(rows, Publisher(user, req), IF user.admin THEN req.api_name ELSE NULL))

\* rows: when the API is read; then: when it is deleted.
handle_delete_api(rows, then, user, req) ==
  LET found == named(rows, req.api_name)
  IN  CASE req.api_name = NULL -> Response(then, "error", {})
        [] req.api_name # NULL /\ found = {} -> Response(then, "missing", {})
        [] req.api_name # NULL /\ found # {} ->
             LET api == CHOOSE r \in found : TRUE
             IN  IF get_publisher(api) # Publisher(user, req) THEN Response(then, "refused", {})
                 ELSE Response(T!delete(then, api), "ok", {})

\* seen[1]: when the handler looks whether the API exists; seen[2]: when the
\* constructor looks again; seen[3]: when it inserts.  req.fits: the attributes
\* are given and not too long.  The database refuses an API of the same name.
handle_create_api(seen, user, req, now) ==
  LET publisher == Publisher(user, req)
      spec   == [api_name |-> req.api_name, cmd |-> req.cmd, description |-> req.description,
                 publisher |-> publisher, create_time |-> now]
      again  == named(seen[2], req.api_name)
      answer == IF \A api \in again : get_publisher(api) = publisher THEN "ok" ELSE "refused"
  IN  CASE ~req.fits -> Response(seen[3], "refused", {})
        [] req.fits /\ named(seen[1], req.api_name) # {} -> Response(seen[3], "refused", {})
        [] req.fits /\ named(seen[1], req.api_name) = {} /\ again # {} -> Response(seen[3], answer, {})
        [] req.fits /\ named(seen[1], req.api_name) = {} /\ again = {} ->
             Response(T!insert(seen[3], spec), IF T!refused(seen[3], spec) THEN "error" ELSE "ok", {})

\* A user without the profile of a publisher may only ask for it; this writes
\* the user, and no API.
handle_enable_api(user) == [user EXCEPT !.profile = @ \cup {"publisher"}]

post(seen, user, req, now) ==
  LET may == "publisher" \in user.profile
  IN  CASE may /\ req.mode = "info"    -> handle_get_api_info(seen[3], user, req)
        [] may /\ req.mode = "create"  -> handle_create_api(seen, user, req, now)
        [] may /\ req.mode = "delete"  -> handle_delete_api(seen[2], seen[3], user, req)
        [] ~may /\ req.mode = "enable" -> Response(seen[3], "ok", {})
        [] OTHER -> Response(seen[3], "error", {})

-----------------------------------------------------------------------------
(* What the handler owes to the publishers.                                *)

Table(rows) == T!Rows(rows) /\ T!KeysUnique(rows)

\* A user who is no administrator changes no API of another publisher, and
\* publishes in no other name.  No API changes hands between the calls.
OthersUntouched(seen, user, req, now) ==
  LET rows == post(seen, user, req, now).rows IN
  ~user.admin /\ (\A r \in seen[2], s \in seen[3] : T!SameKey(r, s) => r.publisher = s.publisher) =>
    /\ \A r \in seen[3] : r.publisher # user.id => r \in rows
    /\ \A r \in rows \ seen[3] : r.publisher = user.id

\* Who is told that an API was created has it, whoever was faster: it was there
\* under the publisher's name at the second look, or it is now.
CreatedIsOwn(seen, user, req, now) ==
  LET answer == post(seen, user, req, now) IN
  req.mode = "create" /\ answer.code = "ok" =>
    \E r \in named(seen[2], req.api_name) \cup named(answer.rows, req.api_name) : r.publisher = Publisher(user, req)

\* A publisher sees all APIs of their own, and no others.
InfoIsOwn(rows, user, req, now) ==
  LET answer == post(<<rows, rows, rows>>, user, req, now) IN
  req.mode = "info" /\ ~user.admin /\ answer.code = "ok" =>
    answer.data = {as_json(r) : r \in {s \in rows : s.publisher = user.id}}

\* An attribute that set_api_info is given is the one that is shown, and the
\* others are as before.
ShowsWhatIsSet(rows, data) ==
  \A before \in named(rows, data.api_name), after \in named(set_api_info(rows, data), data.api_name), c \in Columns :
    after[c] = IF c \in DOMAIN data /\ data[c] # NULL THEN data[c] ELSE before[c]
=============================================================================
