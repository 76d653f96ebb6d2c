------------------------------- MODULE Tables --------------------------------
(***************************************************************************)
(* A table of the database of a single node: JBoxSQLiteTable               *)
(* (plugins/db_sqlite3) and the records JBoxDB makes of its rows           *)
(* (db/db_base.py).  A table is its set of rows, a row a function of all   *)
(* columns; what a program holds is a record of some of them.  Values that *)
(* are compared are integers: names stand for their rank, and a prefix for *)
(* the pair of the first and the last name that begin with it.             *)
(***************************************************************************)
EXTENDS Integers, FiniteSets

CONSTANTS Columns, Key, NULL

-----------------------------------------------------------------------------
(* JBoxDB: attributes of a record.                                         *)

get_attrib(item, name, default) ==
  IF name \in DOMAIN item /\ item[name] # NULL THEN item[name] ELSE default

set_attrib(item, name, value) ==
  [c \in DOMAIN item \cup {name} |-> IF c = name THEN value ELSE item[c]]

del_attrib(item, name) == [c \in DOMAIN item \ {name} |-> item[c]]

-----------------------------------------------------------------------------
(* Selection.  A criterion is a column, an operation and a value.          *)

\* As in SQL, nothing compares to NULL.
Holds(val, op, v) ==
  /\ val # NULL /\ v # NULL
  /\ CASE op = "eq"  -> val = v
       [] op = "ne"  -> val # v
       [] op = "lte" -> val <= v
       [] op = "lt"  -> val < v
       [] op = "gte" -> val >= v
       [] op = "gt"  -> val > v
       [] op \in {"between", "beginswith"} -> v[1] <= val /\ val <= v[2]

\* What is not a column (index, limit, attributes, a misspelt name) selects nothing away.
matching(rows, criteria) ==
  {r \in rows : \A k \in criteria : k.col \in Columns => Holds(r[k.col], k.op, k.v)}

\* select returns one of these, scan all.
select(rows, criteria) == matching(rows, criteria)
scan(rows, criteria)   == matching(rows, criteria)
count(rows, criteria)  == Cardinality(matching(rows, criteria))

Is(col, v) == [col |-> col, op |-> "eq", v |-> v]

-----------------------------------------------------------------------------
(* Changes.                                                                *)

\* All columns, with NULL for those that the record lacks.
Stored(record) == [c \in Columns |-> IF c \in DOMAIN record THEN record[c] ELSE NULL]

HasKey(record) == \A k \in Key : k \in DOMAIN record /\ record[k] # NULL

SameKey(r, s) == \A k \in Key : r[k] = s[k]

\* SQLite refuses a second row with the key.
refused(rows, record) == \E r \in rows : HasKey(record) /\ SameKey(r, record)

insert(rows, record) == IF refused(rows, record) THEN rows ELSE rows \cup {Stored(record)}

\* Every column is written, also those that the record does not change.  A
\* record without its key raises JBoxDBItemNotFound; one whose row is gone does nothing.
update(rows, record) ==
  IF HasKey(record) THEN {IF SameKey(r, record) THEN Stored(record) ELSE r : r \in rows} ELSE rows

delete(rows, record) == IF HasKey(record) THEN {r \in rows : ~SameKey(r, record)} ELSE rows

-----------------------------------------------------------------------------
(* What callers rely on, and what they had better not.                     *)

Rows(rows) == \A r \in rows : DOMAIN r = Columns /\ r = Stored(r) /\ HasKey(r)

KeysUnique(rows) == \A r, s \in rows : SameKey(r, s) => r = s

\* Whatever is inserted, saved or deleted, a key selects one row at most.
KeepsKeysUnique(rows, record) ==
  /\ KeysUnique(insert(rows, record))
  /\ KeysUnique(update(rows, record))
  /\ KeysUnique(delete(rows, record))

\* A record that is saved as it was read changes nothing.
SavesWhatItRead(rows) == \A r \in rows : update(rows, r) = rows

\* Nor does one whose row has been deleted since: it does not come back.
StaysDeleted(rows, record) == update(delete(rows, record), record) = delete(rows, record)

\* Of two records of one row the second to be saved undoes the first, in every column.
LastSaveWins(rows, a, b) ==
  HasKey(a) /\ HasKey(b) /\ SameKey(a, b) => update(update(rows, a), b) = update(rows, b)
=============================================================================
