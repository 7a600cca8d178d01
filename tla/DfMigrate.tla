------------------------------ MODULE DfMigrate ------------------------------
(***************************************************************************)
(* Servers that start, bring the database up to date (dfmigrate) and then  *)
(* serve.  A migration runs in one transaction, and its number is saved in *)
(* another; the database keeps no lock between them.  A server may stop at *)
(* any point, because it is killed or because a statement fails, and it,   *)
(* or one with another version of the program, starts again.               *)
(*                                                                         *)
(* Servers that run at the same time have the same version: a deployment   *)
(* stops the old ones first.  Several of them may start at once.           *)
(***************************************************************************)
EXTENDS Schema

CONSTANTS Server,
          Name,       \* names of tags
          Version,    \* the programs there are, by the number of their migrations
          MaxIndexes  \* bound: how many times migration 12 is applied

ASSUME VersionAssumption == Version \subseteq Ids
ASSUME NameAssumption == Name \subseteq Nat
ASSUME MaxIndexesAssumption == MaxIndexes \in Nat

VARIABLES
  schema,    \* the objects of the database
  indexes,   \* how many indexes the columns that migration 12 indexes have each
  rows,      \* the rows of the database
  saved,     \* cur_migration_id in dfmigrate_state: NoTable, or 0 for no row
  applied,   \* the last migration the database has got
  pc,        \* where a server is
  version,   \* its program
  next       \* the migration it applies or saves

vars == <<schema, indexes, rows, saved, applied, pc, version, next>>

NoTable == -1

Migrating == {"initialize", "read", "apply", "save"}
Alive(p) == pc[p] \in Migrating \cup {"serving"}

Go(p, where) == pc' = [pc EXCEPT ![p] = where]
Set(p, k) == next' = [next EXCEPT ![p] = k]

\* The program ends.
End(p, how) == Go(p, how) /\ Set(p, 0) /\ version' = [version EXCEPT ![p] = 0]

Init ==
  /\ schema = Nothing
  /\ indexes = 0
  /\ rows = NoRows
  /\ saved = NoTable
  /\ applied = 0
  /\ pc = [p \in Server |-> "down"]
  /\ version = [p \in Server |-> 0]
  /\ next = [p \in Server |-> 0]

\* main: Connect and ApplyMigrations
Start(p) ==
  /\ ~Alive(p)
  /\ \E v \in Version :
       /\ \A q \in Server : Alive(q) => version[q] = v
       /\ version' = [version EXCEPT ![p] = v]
  /\ Go(p, "initialize")
  /\ UNCHANGED <<schema, indexes, rows, saved, applied, next>>

\* CREATE TABLE IF NOT EXISTS dfmigrate_state
Initialize(p) ==
  /\ pc[p] = "initialize"
  /\ saved' = IF saved = NoTable THEN 0 ELSE saved
  /\ Go(p, "read")
  /\ UNCHANGED <<schema, indexes, rows, applied, version, next>>

\* Where a server goes when migration k is the last one it knows to be applied.
Continue(p, k) ==
  /\ IF k = version[p] THEN Go(p, "serving") /\ Set(p, 0) ELSE Go(p, "apply") /\ Set(p, k + 1)
  /\ UNCHANGED version

\* getCurrentMigrationID and the checks of Migrate
GetCurrentMigrationID(p) ==
  /\ pc[p] = "read"
  /\ IF saved > version[p] THEN End(p, "failed") ELSE Continue(p, saved)
  /\ UNCHANGED <<schema, indexes, rows, saved, applied>>

Succeeds(k) ==
  /\ Fits(Migrations[k], schema)
  /\ ~RefusesRows(k, rows)
  /\ ~TriggerRaises(k, schema, rows)

\* tx(db, mig.up); no more indexes than MaxIndexes are made, a bound of the model.
Apply(p) ==
  /\ pc[p] = "apply"
  /\ IndexesAfter(next[p], indexes) <= MaxIndexes
  /\ LET k == next[p]
     IN  IF Succeeds(k)
           THEN /\ schema' = After(Migrations[k], schema)
                /\ indexes' = IndexesAfter(k, indexes)
                /\ rows' = RowsAfter(k, rows)
                /\ applied' = IF k > applied THEN k ELSE applied
                /\ Go(p, "save")
                /\ UNCHANGED <<version, next>>
           ELSE End(p, "failed") /\ UNCHANGED <<schema, indexes, rows, applied>>
  /\ UNCHANGED saved

\* (variant: the number of the last migration of the program)
SavedNumber_Last(p) == version[p]

SavedNumber(p) == next[p]

\* setCurrentMigrationID
SetCurrentMigrationID(p) ==
  /\ pc[p] = "save"
  /\ saved' = SavedNumber(p)
  /\ Continue(p, next[p])
  /\ UNCHANGED <<schema, indexes, rows, applied>>

Stop(p) ==
  /\ Alive(p)
  /\ End(p, "down")
  /\ UNCHANGED <<schema, indexes, rows, saved, applied>>

-----------------------------------------------------------------------------
(* What a server that serves may write.  The older programs are not in the *)
(* repository: they write what their schema admits.                        *)

\* Rows that only a later schema has a key against.
MayBeTwice ==
  {t \in {"tag_names", "taggings"} : schema[<<t, "pkey">>] = <<"id">>}
    \cup (IF <<"users", "username_unique">> \in DOMAIN schema THEN {} ELSE {"users"})

UseBookmarks(p) ==
  /\ pc[p] = "serving"
  /\ \E b \in BOOLEAN, t \in SUBSET {"tag_names", "taggings", "users"} :
       /\ t \subseteq rows.twice \cup MayBeTwice
       /\ rows' = [rows EXCEPT !.bookmarks = b, !.twice = t]
  /\ UNCHANGED <<schema, indexes, saved, applied, pc, version, next>>

\* CreateTag: programs that know of the flag and of the count maintain them.
UseTags(p) ==
  /\ pc[p] = "serving"
  /\ schema[<<"tags", "parent_id">>] = Null
  /\ \E x \in TagId \ TagRows(rows), N \in (SUBSET Name) \ {{}} :
     \E par \in IF HasRoot(rows) THEN TagRows(rows) ELSE {NoTag}, n \in N :
       rows' = [rows EXCEPT
                  !.parent[x] = par,
                  !.names[x] = N,
                  !.primary[x] = IF version[p] >= 13 THEN {n} ELSE {},
                  !.cnt = IF version[p] >= 16 /\ par # NoTag
                            THEN [rows.cnt EXCEPT ![par] = @ + 1] ELSE @]
  /\ UNCHANGED <<schema, indexes, saved, applied, pc, version, next>>

Migrate(p) ==
  Initialize(p) \/ GetCurrentMigrationID(p) \/ Apply(p) \/ SetCurrentMigrationID(p)

Next ==
  \E p \in Server :
    \/ Start(p) \/ Migrate(p) \/ Stop(p)
    \/ UseBookmarks(p) \/ UseTags(p)

Spec == Init /\ [][Next]_vars

-----------------------------------------------------------------------------
\* The saved number is never ahead of the database, and no server is about to
\* apply or to save a migration that skips one: whatever stops in between and
\* however many servers start at once, no migration is left out (Migrate).
SavedIsApplied ==
  /\ saved <= applied
  /\ \A p \in Server :
       /\ pc[p] = "apply" => next[p] <= applied + 1
       /\ pc[p] = "save" => next[p] <= applied
       /\ pc[p] = "serving" => version[p] <= applied

\* Migrations that run twice, or after later ones, never leave a mixture of two
\* schemas: the database has the tables, columns, keys, triggers, types and functions
\* that the first "applied" migrations make (initMigrations), and the columns of
\* migration 12 have indexes once it is among them.  Only the number of these indexes
\* may differ: 12 is the one migration whose second run succeeds and adds something.
SchemaIsWhole ==
  [][<<schema, indexes, applied>>' # <<schema, indexes, applied>> =>
       /\ schema' = SchemaAt[applied']
       /\ indexes' > 0 <=> applied' >= 12
       /\ applied' = applied =>
            indexes' = indexes + 1 /\ \E p \in Server : pc[p] = "apply" /\ next[p] = 12]_vars

\* A server of version 13 or later that serves finds a primary name for every tag,
\* and one of version 16 or later the right children_cnt, whatever was written
\* between the upgrades.
ServedRowsAreReady ==
  \A p \in Server : pc[p] = "serving" =>
    /\ version[p] >= 13 => \A x \in TagRows(rows) : rows.primary[x] # {}
    /\ version[p] >= 16 => \A x \in TagRows(rows) : rows.cnt[x] = Cardinality(ChildRows(rows, x))

\* A migration fails only because of rows that its keys and columns refuse, or
\* because the database has got it already (its number was not saved, or was
\* overwritten by a smaller one): migrations never get in each other's way.
FailsForAReason ==
  [][\A p \in Server : pc[p] = "apply" /\ pc'[p] = "failed" =>
       next[p] <= applied \/ RefusesRows(next[p], rows)]_vars

\* The "down" functions that do something lead back to the schema the migration
\* began with, except the first one, which fails, and those of migrations 5 and 10,
\* which make a column without its sequence.
DownLeadsBack ==
  [][applied' # applied /\ applied' \notin {1, 4, 5, 7, 9, 10, 12, 15} =>
       LET down == Downs(schema')[applied']
       IN  Fits(down, schema') /\ After(down, schema') = schema]_vars
=============================================================================
