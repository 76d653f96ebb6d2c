---------------------------- MODULE MCApiServer ----------------------------
(* Instances of ApiServer for TLC, and the operators of Tables, ApiSpecs *)
(* and Settings on small tables.                                           *)
EXTENDS ApiServer, TLC

Symmetry == Permutations(Apis) \cup Permutations(Containers) \cup Permutations(Calls) \cup Permutations(Queues)

-----------------------------------------------------------------------------
S == INSTANCE ApiSpecs WITH NULL <- None, DefaultImage <- 0

\* Two names, two publishers.
Spec1(name, publisher, cmd) ==
  [api_name |-> name, publisher |-> publisher, cmd |-> cmd, image_name |-> None,
   description |-> 5, timeout_secs |-> None, create_time |-> 0]
Tables2 == {x \cup y : x, y \in {{}} \cup {{Spec1(n, p, 3)} : n \in {1, 2}, p \in {11, 12}}}
Seen    == {t \in Tables2 : S!Table(t)}
Users2  == [id : {11}, profile : {{}, {"publisher"}}, admin : BOOLEAN]
AdminRequests ==
  [mode : {"info", "create", "delete", "enable"}, api_name : {1, 2}, publisher : {None, 12},
   cmd : {4}, description : {6}, fits : BOOLEAN]

ASSUME SpecsOwned ==
  \A one, two, three \in Seen, user \in Users2, req \in AdminRequests :
    /\ S!OthersUntouched(<<one, two, three>>, user, req, 9)
    /\ S!CreatedIsOwn(<<one, two, three>>, user, req, 9)

ASSUME SpecsShown ==
  \A rows \in Seen :
    /\ \A user \in Users2, req \in AdminRequests : S!InfoIsOwn(rows, user, req, 9)
    /\ \A cmd, image \in {None, 4} :
         S!ShowsWhatIsSet(rows, [api_name |-> 1, cmd |-> cmd, image_name |-> image])

\* SQLite, on the same tables: also with records that lack columns.
Saves == {[api_name |-> n, cmd |-> c] : n \in {1, 2}, c \in {3, 4}} \cup {Spec1(1, 12, 3)}

ASSUME TablesKeepKeys ==
  \A rows \in Seen :
    /\ S!T!SavesWhatItRead(rows)
    /\ \A a, b \in Saves :
         S!T!KeepsKeysUnique(rows, a) /\ S!T!StaysDeleted(rows, a) /\ S!T!LastSaveWins(rows, a, b)

-----------------------------------------------------------------------------
C == INSTANCE Settings WITH NULL <- None

\* Messages of two clusters that have expired at 5 or not.
Message(cluster, till) == [name |-> <<cluster, "message">>, value |-> [msg |-> "old", valid_till |-> till]]
Rows3 == {x \cup y : x \in {{}} \cup {{Message("A", t)} : t \in {4, 5, 9}}, y \in {{}, {Message("B", 4)}}}

ASSUME SettingsStored ==
  \A one, two \in Rows3, cluster \in {"A", "B"} :
    C!SetIsStored(<<one, two>>, cluster, "message", [msg |-> "new", valid_till |-> 7])

ASSUME MessageStays ==
  \A rows \in Rows3, cluster \in {"A", "B"}, valid \in 0..2 : C!NewMessageStays(rows, cluster, "new", 5, valid)

\* Two versions of each image.
Images == [home : {"h1", "h2"}, pkg : {"p1", "p2"}]
Pulls  == {"ok", "none", "raises"} \X {"ok", "none", "raises"}

ASSUME ImagesFollow ==
  \A used, conf \in Images, files \in SUBSET {"h1", "h2", "p1", "p2"}, pull \in Pulls :
    /\ \A fetching \in BOOLEAN : C!ImagesExist(used, conf, files, fetching, pull)
    /\ C!UpdateArrives(used, conf, files, pull)
=============================================================================
