------------------------------- MODULE Schema -------------------------------
(***************************************************************************)
(* The migrations of the database (migrations.go): what each does to the   *)
(* schema, which rows it refuses, and what it does to the rows.            *)
(*                                                                         *)
(* A schema maps the objects of the database to what they are.  An object  *)
(* is a table's column, key, constraint, index or trigger, <<table, name>>,*)
(* or a table, type or function of its own, <<name, "itself">>.            *)
(***************************************************************************)
EXTENDS Integers, FiniteSets

CONSTANTS TagId,   \* ids of rows of table tags
          NoTag,   \* the parent of a root tag
          NoRow    \* the "parent" of an id that table tags has no row for

ASSUME NoRowAssumption == NoTag \notin TagId /\ NoRow \notin TagId \cup {NoTag}

\* What objects are.
Serial == <<"SERIAL">>
Null == <<"NULL">>
NotNull == <<"NOT_NULL">>
Default == <<"NOT_NULL_DEFAULT">>
Unique == <<"UNIQUE">>
Refers(t) == <<t>>                        \* a foreign key to table t
Cascades(t) == <<t, "ON_DELETE_CASCADE">>

\* f, and what g has besides.
f ++ g == [o \in DOMAIN f \cup DOMAIN g |-> IF o \in DOMAIN f THEN f[o] ELSE g[o]]

Top(names) == {<<n, "itself">> : n \in names}
Of(t, names, what) == [o \in {t} \X names |-> what]
Object(t, name, what) == Of(t, {name}, what)

\* CREATE TABLE: a key and columns that are NOT NULL
Table(t, key, cols) ==
  Object(t, "itself", <<"TABLE">>) ++ Object(t, "pkey", key) ++ Of(t, cols, NotNull)
SerialTable(t, cols) == Table(t, <<"id">>, cols) ++ Object(t, "id", Serial)

Nothing == <<>>   \* the schema without objects

\* A migration: the objects it drops, those it creates, which may not exist, those
\* it makes over, which must exist, those it creates or replaces, and the others
\* that must exist.
NoChange ==
  [drop |-> {}, create |-> Nothing, alter |-> Nothing, put |-> Nothing, uses |-> {}]

-----------------------------------------------------------------------------
(* The migrations' "up" functions.                                         *)

Users ==
  Of("users", {"username", "password", "email"}, Null) ++ SerialTable("users", {})

Tags ==
  SerialTable("tags", {"parent_id", "owner_id"})
  ++ Object("tags", "parent_id_fkey", Refers("tags"))
  ++ Object("tags", "owner_id_fkey", Refers("users"))

TagNames ==
  SerialTable("tag_names", {"tag_id", "name"}) ++ Object("tag_names", "tag_id_fkey", Refers("tags"))

Taggables == SerialTable("taggables", {"type"})

Bookmarks ==
  SerialTable("bookmarks", {"url", "comment", "owner_id"})
  ++ Object("bookmarks", "id_fkey", Refers("taggables"))
  ++ Object("bookmarks", "owner_id_fkey", Refers("users"))

Taggings ==
  SerialTable("taggings", {"taggable_id", "tag_id"})
  ++ Object("taggings", "taggable_id_fkey", Refers("taggables"))
  ++ Object("taggings", "tag_id_fkey", Refers("tags"))

InitialStructure ==
  [NoChange EXCEPT !.create = Users ++ Tags ++ TagNames ++ Taggables ++ Bookmarks ++ Taggings]

DropParentNotNull == [NoChange EXCEPT !.alter = Object("tags", "parent_id", Null)]

\* The column's foreign key goes with the column.
MoveOwnerToTaggables ==
  [NoChange EXCEPT
     !.drop = {"bookmarks"} \X {"owner_id", "owner_id_fkey"},
     !.create = Object("taggables", "owner_id", NotNull)
                ++ Object("taggables", "owner_id_fkey", Cascades("users")),
     !.uses = Top({"taggables", "users"})]

AddOnDelete ==
  [NoChange EXCEPT !.alter =
     Object("tags", "parent_id_fkey", Cascades("tags"))
     ++ Object("tags", "owner_id_fkey", Cascades("users"))
     ++ Object("tag_names", "tag_id_fkey", Cascades("tags"))
     ++ Object("bookmarks", "id_fkey", Cascades("taggables"))
     ++ Object("taggings", "taggable_id_fkey", Cascades("taggables"))
     ++ Object("taggings", "tag_id_fkey", Cascades("tags"))]

NaturalKeyOfTagNames ==
  [NoChange EXCEPT !.alter = Object("tag_names", "pkey", <<"tag_id", "name">>),
                   !.drop = {<<"tag_names", "id">>}]

AddTagDescription ==
  [NoChange EXCEPT !.create = Object("tags", "descr", Default), !.uses = Top({"tags"})]

\* (variant: the trigger is replaced as the function is)
OneNullParent_Replace ==
  [NoChange EXCEPT !.put = Object("check_dup_null", "itself", <<"counts_all">>)
                           ++ Object("tags", "check_dup_null", <<"check_dup_null">>),
                   !.uses = Top({"tags"})]

\* The function's first version counts the row that is written, too.
OneNullParent ==
  [NoChange EXCEPT !.put = Object("check_dup_null", "itself", <<"counts_all">>),
                   !.create = Object("tags", "check_dup_null", <<"check_dup_null">>),
                   !.uses = Top({"tags"})]

TaggableTypeEnum ==
  [NoChange EXCEPT !.create = Object("taggable_type", "itself", <<"ENUM">>),
                   !.alter = Object("taggables", "type", <<"taggable_type">>)]

AddTimestamps ==
  [NoChange EXCEPT
     !.create = Of("taggables", {"created_ts", "updated_ts"}, NotNull)
                ++ Object("taggables", "trg_set_created_ts", <<"set_created_ts">>)
                ++ Object("taggables", "trg_set_updated_ts", <<"set_updated_ts">>),
     !.put = Object("set_created_ts", "itself", <<"FUNCTION">>)
             ++ Object("set_updated_ts", "itself", <<"FUNCTION">>),
     !.uses = Top({"taggables"})]

NaturalKeyOfTaggings ==
  [NoChange EXCEPT !.alter = Object("taggings", "pkey", <<"taggable_id", "tag_id">>),
                   !.drop = {<<"taggings", "id">>}]

AddTitle ==
  [NoChange EXCEPT !.create = Object("bookmarks", "title", NotNull), !.uses = Top({"bookmarks"})]

\* That these columns have an index; IndexesAfter says how many.
AddIndexes ==
  [NoChange EXCEPT
     !.put = [o \in {<<"taggings", "taggable_id_idx">>, <<"taggings", "tag_id_idx">>,
                     <<"tag_names", "tag_id_idx">>, <<"taggables", "owner_id_idx">>,
                     <<"taggables", "type_idx">>, <<"tags", "parent_id_idx">>,
                     <<"tags", "owner_id_idx">>} |-> <<"INDEX">>],
     !.uses = {<<"taggings", "taggable_id">>, <<"taggings", "tag_id">>, <<"tag_names", "tag_id">>,
               <<"taggables", "owner_id">>, <<"taggables", "type">>, <<"tags", "parent_id">>,
               <<"tags", "owner_id">>}]

AddPrimary ==
  [NoChange EXCEPT !.create = Object("tag_names", "primary", Default), !.uses = Top({"tag_names"})]

AddTagBriefType == [NoChange EXCEPT !.create = Object("gm_tag_brief", "itself", <<"TYPE">>)]

\* (variant: the function is left as it is)
FixDupNull_Not == [NoChange EXCEPT !.put = Object("check_dup_null", "itself", <<"counts_all">>)]

FixDupNull == [NoChange EXCEPT !.put = Object("check_dup_null", "itself", <<"counts_others">>)]

AddChildrenCnt ==
  [NoChange EXCEPT !.create = Object("tags", "children_cnt", Default), !.uses = Top({"tags"})]

AddAccessTokens ==
  [NoChange EXCEPT
     !.create = Table("access_tokens", <<"token">>, {"token", "user_id"})
                ++ Object("access_tokens", "created_ts", Default)
                ++ Object("access_tokens", "user_id_fkey", Cascades("users")),
     !.uses = Top({"users"})]

AddGoogleAuth ==
  [NoChange EXCEPT
     !.create = Table("google_auth", <<"google_user_id">>, {"google_user_id", "user_id", "email"})
                ++ Object("google_auth", "created_ts", Default)
                ++ Object("google_auth", "user_id_fkey", Cascades("users")),
     !.uses = Top({"users"})]

AddTokenDescription ==
  [NoChange EXCEPT !.create = Object("access_tokens", "descr", Default),
                   !.uses = Top({"access_tokens"})]

UniqueUsers ==
  [NoChange EXCEPT !.create = Of("users", {"username_unique", "email_unique"}, Unique),
                   !.uses = Top({"users"})]

\* initMigrations
Migrations ==
  <<InitialStructure, DropParentNotNull, MoveOwnerToTaggables, AddOnDelete,
    NaturalKeyOfTagNames, AddTagDescription, OneNullParent, TaggableTypeEnum, AddTimestamps,
    NaturalKeyOfTaggings, AddTitle, AddIndexes, AddPrimary, AddTagBriefType, FixDupNull,
    AddChildrenCnt, AddAccessTokens, AddGoogleAuth, AddTokenDescription, UniqueUsers>>

Ids == DOMAIN Migrations

-----------------------------------------------------------------------------
(* Their "down" functions, which nothing calls yet.  Five of them do       *)
(* nothing ("TODO").                                                       *)

\* A table that a foreign key of another one refers to cannot be dropped: this
\* one begins with users.
DropAllTables == [NoChange EXCEPT !.drop = Top({"users"})]

SetParentNotNull == [NoChange EXCEPT !.alter = Object("tags", "parent_id", NotNull)]

MoveOwnerToBookmarks ==
  [NoChange EXCEPT
     !.drop = {"taggables"} \X {"owner_id", "owner_id_fkey"},
     !.create = Object("bookmarks", "owner_id", NotNull)
                ++ Object("bookmarks", "owner_id_fkey", Refers("users")),
     !.uses = Top({"bookmarks", "users"})]

\* The new column has no sequence.
NumberKey(t) ==
  [NoChange EXCEPT !.alter = Object(t, "pkey", <<"id">>), !.create = Object(t, "id", NotNull)]

\* (variant: the type stays)
TypeAsText_KeepType == [NoChange EXCEPT !.alter = Object("taggables", "type", NotNull)]

TypeAsText ==
  [NoChange EXCEPT !.alter = Object("taggables", "type", NotNull), !.drop = Top({"taggable_type"})]

DropObjects(O) == [NoChange EXCEPT !.drop = O]

TableObjects(s, t) == {o \in DOMAIN s : o[1] = t}

Downs(s) ==
  <<DropAllTables, SetParentNotNull, MoveOwnerToBookmarks, NoChange,
    NumberKey("tag_names"), DropObjects({<<"tags", "descr">>}), NoChange, TypeAsText, NoChange,
    NumberKey("taggings"), DropObjects({<<"bookmarks", "title">>}), NoChange,
    DropObjects({<<"tag_names", "primary">>}), DropObjects(Top({"gm_tag_brief"})), NoChange,
    DropObjects({<<"tags", "children_cnt">>}), DropObjects(TableObjects(s, "access_tokens")),
    DropObjects(TableObjects(s, "google_auth")), DropObjects({<<"access_tokens", "descr">>}),
    DropObjects({"users"} \X {"username_unique", "email_unique"})>>

-----------------------------------------------------------------------------
(* What PostgreSQL does with the statements of a migration.                *)

After(m, s) ==
  m.create ++ m.alter ++ m.put ++ [o \in DOMAIN s \ m.drop |-> s[o]]

\* Nothing is dropped that another object, which stays, refers to.
NoDangling(m, s) ==
  \A o \in m.drop : o[2] = "itself" =>
    \A c \in DOMAIN After(m, s) : After(m, s)[c] \notin {Refers(o[1]), Cascades(o[1])}

Fits(m, s) ==
  /\ m.drop \cup DOMAIN m.alter \cup m.uses \subseteq DOMAIN s
  /\ DOMAIN m.create \cap DOMAIN s = {}
  /\ NoDangling(m, s)

\* The schema after the first k migrations.
SchemaAt[k \in {0} \cup Ids] == IF k = 0 THEN Nothing ELSE After(Migrations[k], SchemaAt[k - 1])

-----------------------------------------------------------------------------
(* The rows: whether there are bookmarks (with their taggables), the       *)
(* tables with rows that a later key would find twice, and for each tag    *)
(* its parent, its names (numbers, in the database's order), those with    *)
(* the primary flag, and its children_cnt.                                 *)

HasRow(r, x) == r.parent[x] # NoRow
TagRows(r) == {x \in TagId : HasRow(r, x)}
ChildRows(r, x) == {y \in TagId : r.parent[y] = x}
HasRoot(r) == \E x \in TagId : r.parent[x] = NoTag

NoRows ==
  [bookmarks |-> FALSE, twice |-> {}, parent |-> [x \in TagId |-> NoRow],
   names |-> [x \in TagId |-> {}], primary |-> [x \in TagId |-> {}], cnt |-> [x \in TagId |-> 0]]

\* New columns that are NOT NULL without a default, and new keys.
RefusesRows(k, r) ==
  \/ k \in {3, 8, 9, 11} /\ r.bookmarks
  \/ k = 5 /\ "tag_names" \in r.twice
  \/ k = 10 /\ "taggings" \in r.twice
  \/ k = 20 /\ "users" \in r.twice

\* The UPDATE of migration 16 runs the trigger check_dup_null.
TriggerRaises(k, s, r) ==
  k = 16 /\ s[<<"check_dup_null", "itself">>] = <<"counts_all">> /\ HasRoot(r)

\* The subquery is not correlated: a name that is the least of any tag becomes
\* primary of every tag that has it.
Least(N) == CHOOSE n \in N : \A k \in N : n <= k
SetPrimaryNames(r) ==
  LET least == {Least(r.names[x]) : x \in {y \in TagId : r.names[y] # {}}}
  IN  [r EXCEPT !.primary = [x \in TagId |-> r.names[x] \cap least]]

\* (variant: the column is added and nothing counted)
CountChildren_Not(r) == r

CountChildren(r) ==
  [r EXCEPT !.cnt = [x \in TagId |-> Cardinality(ChildRows(r, x))]]

\* How many indexes the columns of AddIndexes have each.  CREATE INDEX names none of
\* them, so that PostgreSQL finds new names and each run adds seven more.
IndexesAfter(k, n) == IF k = 12 THEN n + 1 ELSE n

RowsAfter(k, r) ==
  IF k = 13 THEN SetPrimaryNames(r) ELSE IF k = 16 THEN CountChildren(r) ELSE r
=============================================================================
