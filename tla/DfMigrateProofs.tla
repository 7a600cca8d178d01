-------------------------- MODULE DfMigrateProofs --------------------------
(***************************************************************************)
(* No migration is left out or gets in the way of another, the schema is   *)
(* always that of the first so many, servers that serve find the rows as   *)
(* their version needs them, and what can be undone is: for any number of  *)
(* servers and of versions.                                                *)
(***************************************************************************)
EXTENDS DfMigrate, FiniteSetTheorems, WellFoundedInduction, TLAPS

TypeInv ==
  /\ saved \in Int
  /\ applied \in Nat
  /\ version \in [Server -> Int]
  /\ next \in [Server -> Int]
  /\ pc \in [Server -> Migrating \cup {"serving", "down", "failed"}]

IInv == TypeInv /\ SavedIsApplied

\* A server's last known migration k is applied: it may serve, or go on with k + 1.
LEMMA ContinueKeepsIInv ==
  ASSUME IInv, NEW p \in Server, NEW k \in Int, k <= applied,
         Continue(p, k), UNCHANGED applied, saved' \in {saved, k}
  PROVE  IInv'
<1>1. TypeInv'
  BY DEF IInv, TypeInv, Continue, Go, Set, Migrating
<1>2. \A q \in Server \ {p} : pc'[q] = pc[q] /\ next'[q] = next[q] /\ version'[q] = version[q]
  BY DEF IInv, TypeInv, Continue, Go, Set
<1>3. /\ pc'[p] \in {"serving", "apply"}
      /\ pc'[p] = "apply" => next'[p] = k + 1
      /\ pc'[p] = "serving" => version'[p] = k
  BY DEF IInv, TypeInv, Continue, Go, Set
<1>4. SavedIsApplied'
  BY <1>1, <1>2, <1>3 DEF IInv, TypeInv, SavedIsApplied
<1> QED
  BY <1>1, <1>4 DEF IInv

\* A server that ends leaves the numbers alone.
LEMMA EndKeepsIInv ==
  ASSUME IInv, NEW p \in Server, End(p, "down") \/ End(p, "failed"), UNCHANGED <<saved, applied>>
  PROVE  IInv'
<1>1. TypeInv'
  BY DEF IInv, TypeInv, End, Go, Set, Migrating
<1>2. /\ \A q \in Server \ {p} : pc'[q] = pc[q] /\ next'[q] = next[q] /\ version'[q] = version[q]
      /\ pc'[p] \in {"down", "failed"}
  BY DEF IInv, TypeInv, End, Go, Set
<1> QED
  BY <1>1, <1>2 DEF IInv, TypeInv, SavedIsApplied

LEMMA IInvStep == IInv /\ [Next]_vars => IInv'
<1> SUFFICES ASSUME IInv, [Next]_vars PROVE IInv'
  OBVIOUS
<1>1. ASSUME NEW p \in Server, Start(p) PROVE IInv'
  <2>1. PICK v \in Version : version' = [version EXCEPT ![p] = v]
    BY <1>1 DEF Start
  <2>2. v \in Int
    BY VersionAssumption DEF Ids, Migrations
  <2>3. TypeInv'
    BY <1>1, <2>1, <2>2 DEF Start, IInv, TypeInv, Go, Migrating
  <2>4. /\ \A q \in Server \ {p} : pc'[q] = pc[q] /\ version'[q] = version[q]
        /\ pc'[p] = "initialize"
    BY <1>1, <2>1 DEF Start, IInv, TypeInv, Go
  <2> QED
    BY <1>1, <2>3, <2>4 DEF Start, IInv, TypeInv, SavedIsApplied
<1>2. ASSUME NEW p \in Server, Initialize(p) PROVE IInv'
  <2>1. TypeInv'
    BY <1>2 DEF Initialize, IInv, TypeInv, Go, Migrating
  <2>2. /\ \A q \in Server \ {p} : pc'[q] = pc[q]
        /\ pc'[p] = "read"
    BY <1>2 DEF Initialize, IInv, TypeInv, Go
  <2> QED
    BY <1>2, <2>1, <2>2 DEF Initialize, IInv, TypeInv, SavedIsApplied, NoTable
<1>3. ASSUME NEW p \in Server, GetCurrentMigrationID(p) PROVE IInv'
  <2>1. CASE saved > version[p]
    BY <1>3, <2>1, EndKeepsIInv DEF GetCurrentMigrationID
  <2>2. CASE ~(saved > version[p])
    BY <1>3, <2>2, ContinueKeepsIInv DEF GetCurrentMigrationID, IInv, TypeInv, SavedIsApplied
  <2> QED
    BY <2>1, <2>2
<1>4. ASSUME NEW p \in Server, Apply(p) PROVE IInv'
  <2>1. CASE Succeeds(next[p])
    <3>1. /\ applied' = IF next[p] > applied THEN next[p] ELSE applied
          /\ pc' = [pc EXCEPT ![p] = "save"]
          /\ UNCHANGED <<saved, version, next>>
      BY <1>4, <2>1 DEF Apply, Go
    <3>2. TypeInv'
      BY <3>1 DEF IInv, TypeInv, Migrating
    <3> QED
      BY <3>1, <3>2 DEF IInv, TypeInv, SavedIsApplied
  <2>2. CASE ~Succeeds(next[p])
    BY <1>4, <2>2, EndKeepsIInv DEF Apply
  <2> QED
    BY <2>1, <2>2
<1>5. ASSUME NEW p \in Server, SetCurrentMigrationID(p) PROVE IInv'
  <2>1. next[p] \in Int /\ next[p] <= applied
    BY <1>5 DEF SetCurrentMigrationID, IInv, TypeInv, SavedIsApplied
  <2> QED
    BY <1>5, <2>1, ContinueKeepsIInv DEF SetCurrentMigrationID, SavedNumber
<1>6. ASSUME NEW p \in Server, Stop(p) PROVE IInv'
  BY <1>6, EndKeepsIInv DEF Stop
<1>7. ASSUME NEW p \in Server, UseBookmarks(p) \/ UseTags(p) PROVE IInv'
  BY <1>7 DEF UseBookmarks, UseTags, IInv, TypeInv, SavedIsApplied
<1>8. CASE UNCHANGED vars
  BY <1>8 DEF vars, IInv, TypeInv, SavedIsApplied
<1> QED
  BY <1>1, <1>2, <1>3, <1>4, <1>5, <1>6, <1>7, <1>8 DEF Next, Migrate

\* Whatever servers start and stop, and however their migrations interleave, the
\* saved number is never ahead of the database, no migration is skipped, and a
\* server that serves has all migrations of its version (Migrate).
THEOREM NothingLeftOut == Spec => []SavedIsApplied
<1>1. Init => IInv
  BY DEF Init, IInv, TypeInv, SavedIsApplied, NoTable, Migrating
<1>2. IInv => SavedIsApplied
  BY DEF IInv
<1> QED
  BY <1>1, <1>2, IInvStep, PTL DEF Spec

-----------------------------------------------------------------------------
(* The rows that servers find.  A program without migration k, which does  *)
(* not maintain what k introduced, may serve again after k was applied, as *)
(* a slower server can set the saved number back.  Rows are then wrong for *)
(* good, but no server gets past k any more.                             *)

Rows ==
  [bookmarks : BOOLEAN, twice : SUBSET {"tag_names", "taggings", "users"},
   parent : [TagId -> TagId \cup {NoTag, NoRow}], names : [TagId -> SUBSET Name],
   primary : [TagId -> SUBSET Name], cnt : [TagId -> Nat]]

RowsInv ==
  /\ rows \in Rows
  /\ IsFiniteSet(TagRows(rows))
  /\ \A x \in TagRows(rows) :
       rows.parent[x] \in TagRows(rows) \cup {NoTag} /\ rows.names[x] # {}

\* Servers that are alive have one version, which the saved number does not exceed
\* once they have read it.
VersionInv ==
  /\ \A p, q \in Server : Alive(p) /\ Alive(q) => version[p] = version[q]
  /\ \A p \in Server : Alive(p) => version[p] >= 0
  /\ \A p \in Server : pc[p] \in {"apply", "save", "serving"} => saved <= version[p]
  /\ \A p \in Server : pc[p] \in {"apply", "save"} => next[p] <= version[p]

\* The saved number, or a server, is past migration k.
IsPast(p, k) ==
  \/ pc[p] = "apply" /\ next[p] > k
  \/ pc[p] = "save" /\ next[p] >= k
  \/ pc[p] = "serving" /\ version[p] >= k
Past(k) == saved >= k \/ \E p \in Server : IsPast(p, k)

HasPrimaries == \A x \in TagRows(rows) : rows.primary[x] # {}
Counted == \A x \in TagId : rows.cnt[x] = Cardinality(ChildRows(rows, x))

ReadyInv == RowsInv /\ (Past(13) => HasPrimaries) /\ (Past(16) => Counted)

-----------------------------------------------------------------------------
(* Control.                                                                *)

LEMMA ContinueKeepsVersions ==
  ASSUME TypeInv, VersionInv, NEW p \in Server, Alive(p), NEW k \in Int, k <= version[p],
         Continue(p, k), saved' = k
  PROVE  VersionInv'
<1>1. \A q \in Server \ {p} : pc'[q] = pc[q] /\ next'[q] = next[q]
  BY DEF TypeInv, Continue, Go, Set
<1>2. /\ pc'[p] \in {"serving", "apply"} /\ version' = version
      /\ pc'[p] = "apply" => next'[p] = k + 1 /\ k # version[p]
  BY DEF TypeInv, Continue, Go, Set
<1>3. k + 1 <= version[p] \/ k = version[p]
  BY DEF TypeInv
<1>4. \A q \in Server : Alive(q)' => Alive(q)
  BY <1>1, <1>2 DEF Alive
<1>5. \A q \in Server : Alive(q) => k <= version[q]
  BY DEF VersionInv
<1> QED
  BY <1>1, <1>2, <1>3, <1>4, <1>5 DEF VersionInv, Alive, Migrating

LEMMA EndKeepsVersions ==
  ASSUME TypeInv, VersionInv, NEW p \in Server, End(p, "down") \/ End(p, "failed"),
         UNCHANGED saved
  PROVE  VersionInv'
<1>1. \A q \in Server \ {p} : pc'[q] = pc[q] /\ next'[q] = next[q] /\ version'[q] = version[q]
  BY DEF TypeInv, End, Go, Set
<1>2. pc'[p] \in {"down", "failed"}
  BY DEF TypeInv, End, Go, Set
<1> QED
  BY <1>1, <1>2 DEF VersionInv, Alive, Migrating

LEMMA VersionStep ==
  ASSUME IInv, VersionInv, [Next]_vars
  PROVE  VersionInv'
<1> USE DEF IInv
<1>1. ASSUME NEW p \in Server, Start(p) PROVE VersionInv'
  <2>1. PICK v \in Version : /\ \A q \in Server : Alive(q) => version[q] = v
                             /\ version' = [version EXCEPT ![p] = v]
    BY <1>1 DEF Start
  <2>2. v \in Int /\ v >= 0
    BY VersionAssumption DEF Ids, Migrations
  <2>3. \A q \in Server \ {p} : pc'[q] = pc[q] /\ version'[q] = version[q]
    BY <1>1, <2>1 DEF Start, TypeInv, Go
  <2>4. pc'[p] = "initialize" /\ version'[p] = v /\ UNCHANGED <<saved, next>>
    BY <1>1, <2>1 DEF Start, TypeInv, Go
  <2> QED
    BY <2>1, <2>2, <2>3, <2>4 DEF VersionInv, Alive, Migrating
<1>2. ASSUME NEW p \in Server, Initialize(p) PROVE VersionInv'
  <2>1. /\ \A q \in Server \ {p} : pc'[q] = pc[q]
        /\ pc'[p] = "read" /\ pc[p] = "initialize" /\ UNCHANGED <<version, next>>
        /\ saved' \in {0, saved}
    BY <1>2 DEF Initialize, TypeInv, Go
  <2> QED
    BY <2>1 DEF VersionInv, Alive, Migrating
<1>3. ASSUME NEW p \in Server, GetCurrentMigrationID(p) PROVE VersionInv'
  <2>1. CASE saved > version[p]
    BY <1>3, <2>1, EndKeepsVersions DEF GetCurrentMigrationID
  <2>2. CASE ~(saved > version[p])
    BY <1>3, <2>2, ContinueKeepsVersions DEF GetCurrentMigrationID, TypeInv, Alive, Migrating
  <2> QED
    BY <2>1, <2>2
<1>4. ASSUME NEW p \in Server, Apply(p) PROVE VersionInv'
  <2>1. CASE Succeeds(next[p])
    <3>1. /\ pc' = [pc EXCEPT ![p] = "save"] /\ pc[p] = "apply"
          /\ UNCHANGED <<saved, version, next>>
      BY <1>4, <2>1 DEF Apply, Go
    <3> QED
      BY <3>1 DEF TypeInv, VersionInv, Alive, Migrating
  <2>2. CASE ~Succeeds(next[p])
    BY <1>4, <2>2, EndKeepsVersions DEF Apply
  <2> QED
    BY <2>1, <2>2
<1>5. ASSUME NEW p \in Server, SetCurrentMigrationID(p) PROVE VersionInv'
  <2>1. next[p] \in Int /\ next[p] <= version[p] /\ Alive(p)
    BY <1>5 DEF SetCurrentMigrationID, TypeInv, VersionInv, Alive, Migrating
  <2> QED
    BY <1>5, <2>1, ContinueKeepsVersions DEF SetCurrentMigrationID, SavedNumber
<1>6. ASSUME NEW p \in Server, Stop(p) PROVE VersionInv'
  BY <1>6, EndKeepsVersions DEF Stop
<1>7. ASSUME NEW p \in Server, UseBookmarks(p) \/ UseTags(p) PROVE VersionInv'
  BY <1>7 DEF UseBookmarks, UseTags, VersionInv, Alive
<1>8. CASE UNCHANGED vars
  BY <1>8 DEF vars, VersionInv, Alive
<1> QED
  BY <1>1, <1>2, <1>3, <1>4, <1>5, <1>6, <1>7, <1>8 DEF Next, Migrate

\* Only a server that applies migration k gets past it when none is.
LEMMA PastBefore ==
  ASSUME IInv, VersionInv, Next, NEW k \in Nat, k > 0, Past(k)'
  PROVE  Past(k) \/ \E p \in Server : Apply(p) /\ next[p] = k /\ Succeeds(k)
<1> USE DEF IInv
<1> SUFFICES ASSUME ~Past(k), \A p \in Server : Apply(p) => ~(next[p] = k /\ Succeeds(k))
             PROVE  FALSE
  OBVIOUS
<1>1. ~(saved >= k) /\ \A q \in Server : ~IsPast(q, k)
  BY DEF Past
<1>2. PICK p \in Server : \/ Start(p) \/ Migrate(p) \/ Stop(p)
                          \/ UseBookmarks(p) \/ UseTags(p)
  BY DEF Next
<1>3. \A q \in Server \ {p} : ~IsPast(q, k)'
  <2>1. \A q \in Server \ {p} : pc'[q] = pc[q] /\ version'[q] = version[q] /\ next'[q] = next[q]
    BY <1>2 DEF TypeInv, Start, Migrate, Initialize, GetCurrentMigrationID, Apply,
       SetCurrentMigrationID, Stop, UseBookmarks, UseTags, Continue, End, Go, Set
  <2> QED
    BY <1>1, <2>1 DEF IsPast
<1>4. saved' >= k \/ IsPast(p, k)'
  BY <1>3 DEF Past
<1>5. CASE Start(p) \/ Stop(p)
  <2>1. pc'[p] \in {"initialize", "down"} /\ saved' = saved
    BY <1>5 DEF TypeInv, Start, Stop, End, Go
  <2> QED
    BY <1>1, <1>4, <2>1 DEF IsPast
<1>6. CASE Initialize(p)
  <2>1. pc'[p] = "read" /\ saved' \in {0, saved}
    BY <1>6 DEF TypeInv, Initialize, Go
  <2> QED
    BY <1>1, <1>4, <2>1 DEF IsPast
<1>7. CASE GetCurrentMigrationID(p)
  <2>1. \/ pc'[p] = "failed"
        \/ pc'[p] = "apply" /\ next'[p] = saved + 1
        \/ pc'[p] = "serving" /\ version'[p] = saved
    BY <1>7 DEF TypeInv, GetCurrentMigrationID, Continue, End, Go, Set
  <2>2. saved' = saved
    BY <1>7 DEF GetCurrentMigrationID
  <2> QED
    BY <1>1, <1>4, <2>1, <2>2 DEF IsPast, TypeInv
<1>8. CASE Apply(p)
  <2>1. CASE Succeeds(next[p])
    <3>1. pc'[p] = "save" /\ next' = next /\ saved' = saved /\ pc[p] = "apply"
      BY <1>8, <2>1 DEF TypeInv, Apply, Go
    <3>2. next[p] # k
      BY <1>8, <2>1
    <3> QED
      BY <1>1, <1>4, <3>1, <3>2 DEF IsPast, TypeInv
  <2>2. CASE ~Succeeds(next[p])
    <3>1. pc'[p] = "failed" /\ saved' = saved
      BY <1>8, <2>2 DEF TypeInv, Apply, End, Go
    <3> QED
      BY <1>1, <1>4, <3>1 DEF IsPast
  <2> QED
    BY <2>1, <2>2
<1>9. CASE SetCurrentMigrationID(p)
  <2>1. /\ saved' = next[p] /\ pc[p] = "save"
        /\ \/ pc'[p] = "apply" /\ next'[p] = next[p] + 1
           \/ pc'[p] = "serving" /\ version'[p] = next[p]
    BY <1>9 DEF TypeInv, SetCurrentMigrationID, SavedNumber, Continue, Go, Set
  <2> QED
    BY <1>1, <1>4, <2>1 DEF IsPast, TypeInv
<1>10. CASE UseBookmarks(p) \/ UseTags(p)
  BY <1>1, <1>4, <1>10 DEF UseBookmarks, UseTags, IsPast
<1> QED
  BY <1>2, <1>5, <1>6, <1>7, <1>8, <1>9, <1>10 DEF Migrate

\* An older program that serves means that none is past k.
LEMMA OlderServes ==
  ASSUME IInv, VersionInv, NEW p \in Server, pc[p] = "serving", NEW k \in Nat, version[p] < k
  PROVE  ~Past(k)
<1>1. ~(saved >= k)
  BY DEF VersionInv, IInv, TypeInv
<1>2. ASSUME NEW q \in Server PROVE ~IsPast(q, k)
  <2>1. Alive(q) => version[q] = version[p]
    BY DEF VersionInv, Alive
  <2>2. version[p] \in Int /\ next[q] \in Int /\ version[q] \in Int
    BY DEF IInv, TypeInv
  <2> QED
    BY <2>1, <2>2 DEF IsPast, VersionInv, Alive, Migrating
<1> QED
  BY <1>1, <1>2 DEF Past

-----------------------------------------------------------------------------
(* Rows.                                                                   *)

LEMMA LeastIsIn ==
  ASSUME NEW N \in SUBSET Nat, N # {}
  PROVE  Least(N) \in N
<1> DEFINE Less == {ss \in Nat \X Nat : ss[1] < ss[2]}
<1>1. IsWellFoundedOn(Less, Nat)
  BY NatLessThanWellFounded DEF OpToRel
<1>2. PICK m \in N : \A k \in N : <<k, m>> \notin Less
  <2> HIDE DEF Less
  <2> QED
    BY <1>1, WFMin
<1>3. ASSUME NEW k \in N, ~(m <= k) PROVE FALSE
  <2>1. <<k, m>> \in Nat \X Nat /\ <<k, m>>[1] = k /\ <<k, m>>[2] = m
    OBVIOUS
  <2>2. k < m
    BY <1>3
  <2>3. <<k, m>> \in Less
    BY <2>1, <2>2
  <2> QED
    BY <1>2, <2>3
<1> QED
  BY <1>3 DEF Least

\* Migration 13 gives every tag a primary name, its least one at any rate.
LEMMA PrimariesAreSet ==
  ASSUME RowsInv, rows' = SetPrimaryNames(rows)
  PROVE  RowsInv' /\ HasPrimaries' /\ (Counted => Counted')
<1> DEFINE least == {Least(rows.names[x]) : x \in {y \in TagId : rows.names[y] # {}}}
<1>1. rows' = [rows EXCEPT !.primary = [x \in TagId |-> rows.names[x] \cap least]]
  BY DEF SetPrimaryNames
<1> HIDE DEF least
<1>2. /\ rows' \in Rows
      /\ rows'.parent = rows.parent /\ rows'.names = rows.names /\ rows'.cnt = rows.cnt
      /\ rows'.primary = [x \in TagId |-> rows.names[x] \cap least]
  BY <1>1 DEF RowsInv, Rows
<1>3. TagRows(rows)' = TagRows(rows) /\ \A x : ChildRows(rows, x)' = ChildRows(rows, x)
  BY <1>2 DEF TagRows, HasRow, ChildRows
<1>4. RowsInv'
  BY <1>2, <1>3 DEF RowsInv
<1>5. ASSUME NEW x \in TagRows(rows) PROVE rows'.primary[x] # {}
  <2>1. x \in TagId /\ rows.names[x] # {} /\ rows.names[x] \in SUBSET Nat
    BY NameAssumption DEF RowsInv, Rows, TagRows
  <2>2. Least(rows.names[x]) \in least
    BY <2>1 DEF least
  <2> QED
    BY <1>2, <2>1, <2>2, LeastIsIn
<1> QED
  BY <1>2, <1>3, <1>4, <1>5 DEF HasPrimaries, Counted

\* Only finitely many tags have a parent.
LEMMA FewChildren ==
  ASSUME RowsInv, NEW x \in TagId
  PROVE  ChildRows(rows, x) \subseteq TagRows(rows) /\ IsFiniteSet(ChildRows(rows, x))
<1>1. ChildRows(rows, x) \subseteq TagRows(rows)
  BY NoRowAssumption DEF ChildRows, TagRows, HasRow
<1> QED
  BY <1>1, FS_Subset DEF RowsInv

LEMMA ChildrenAreCounted ==
  ASSUME RowsInv, rows' = CountChildren(rows)
  PROVE  RowsInv' /\ Counted' /\ (HasPrimaries => HasPrimaries')
<1>1. rows' = [rows EXCEPT !.cnt = [x \in TagId |-> Cardinality(ChildRows(rows, x))]]
  BY DEF CountChildren
<1>2. \A x \in TagId : Cardinality(ChildRows(rows, x)) \in Nat
  BY FewChildren, FS_CardinalityType
<1>3. /\ rows' \in Rows
      /\ rows'.parent = rows.parent /\ rows'.names = rows.names /\ rows'.primary = rows.primary
      /\ rows'.cnt = [x \in TagId |-> Cardinality(ChildRows(rows, x))]
  BY <1>1, <1>2 DEF RowsInv, Rows
<1>4. TagRows(rows)' = TagRows(rows) /\ \A x : ChildRows(rows, x)' = ChildRows(rows, x)
  BY <1>3 DEF TagRows, HasRow, ChildRows
<1> QED
  BY <1>3, <1>4 DEF RowsInv, Counted, HasPrimaries

\* A new tag: programs of version 13 and later give it a primary name, those of
\* version 16 and later count it.
LEMMA NewTagKeepsRows ==
  ASSUME RowsInv, NEW p \in Server, UseTags(p)
  PROVE  /\ RowsInv'
         /\ version[p] >= 13 /\ HasPrimaries => HasPrimaries'
         /\ version[p] >= 16 /\ Counted => Counted'
<1>1. PICK x \in TagId \ TagRows(rows), N \in (SUBSET Name) \ {{}} :
        \E par \in IF HasRoot(rows) THEN TagRows(rows) ELSE {NoTag}, n \in N :
          rows' = [rows EXCEPT
                    !.parent[x] = par,
                    !.names[x] = N,
                    !.primary[x] = IF version[p] >= 13 THEN {n} ELSE {},
                    !.cnt = IF version[p] >= 16 /\ par # NoTag
                              THEN [rows.cnt EXCEPT ![par] = @ + 1] ELSE @]
  BY DEF UseTags
<1> PICK par \in IF HasRoot(rows) THEN TagRows(rows) ELSE {NoTag}, n \in N :
       rows' = [rows EXCEPT
                 !.parent[x] = par,
                 !.names[x] = N,
                 !.primary[x] = IF version[p] >= 13 THEN {n} ELSE {},
                 !.cnt = IF version[p] >= 16 /\ par # NoTag
                           THEN [rows.cnt EXCEPT ![par] = @ + 1] ELSE @]
  BY <1>1
<1> DEFINE cnt == IF version[p] >= 16 /\ par # NoTag
                    THEN [rows.cnt EXCEPT ![par] = rows.cnt[par] + 1] ELSE rows.cnt
<1>2. /\ par \in TagRows(rows) \cup {NoTag} /\ par \in TagId \cup {NoTag} /\ par # NoRow
      /\ par # x /\ x \in TagId /\ N \in SUBSET Name /\ N # {}
  BY <1>1, NoRowAssumption DEF TagRows, HasRow
<1>3. cnt \in [TagId -> Nat]
  BY <1>2 DEF RowsInv, Rows
<1>4. /\ rows'.parent = [rows.parent EXCEPT ![x] = par]
      /\ rows'.names = [rows.names EXCEPT ![x] = N]
      /\ rows'.primary = [rows.primary EXCEPT ![x] = IF version[p] >= 13 THEN {n} ELSE {}]
      /\ rows'.cnt = cnt
  BY DEF RowsInv, Rows
<1> HIDE DEF cnt
<1>5. rows' \in Rows
  <2> DEFINE par2 == [rows.parent EXCEPT ![x] = par]
             names2 == [rows.names EXCEPT ![x] = N]
             prim2 == [rows.primary EXCEPT ![x] = IF version[p] >= 13 THEN {n} ELSE {}]
  <2>1. /\ par2 \in [TagId -> TagId \cup {NoTag, NoRow}]
        /\ names2 \in [TagId -> SUBSET Name] /\ prim2 \in [TagId -> SUBSET Name]
    BY <1>2 DEF RowsInv, Rows
  <2>2. rows' = [rows EXCEPT !.parent = par2, !.names = names2, !.primary = prim2, !.cnt = cnt]
    BY DEF RowsInv, Rows, cnt
  <2> HIDE DEF par2, names2, prim2
  <2> QED
    BY <1>3, <2>1, <2>2, ZenonT(30) DEF RowsInv, Rows
<1>6. TagRows(rows)' = TagRows(rows) \cup {x}
  BY <1>2, <1>4 DEF RowsInv, Rows, TagRows, HasRow
<1>7. RowsInv'
  <2>1. IsFiniteSet(TagRows(rows)')
    BY <1>6, FS_AddElement DEF RowsInv
  <2>2. ASSUME NEW y \in TagRows(rows)'
        PROVE  rows'.parent[y] \in TagRows(rows)' \cup {NoTag} /\ rows'.names[y] # {}
    BY <1>2, <1>4, <1>6 DEF RowsInv, Rows, TagRows
  <2> QED
    BY <1>5, <2>1, <2>2 DEF RowsInv
<1>8. ASSUME version[p] >= 13, HasPrimaries PROVE HasPrimaries'
  BY <1>4, <1>6, <1>8 DEF HasPrimaries, RowsInv, Rows, TagRows
<1>9. ASSUME version[p] >= 16, Counted PROVE Counted'
  <2> SUFFICES ASSUME NEW y \in TagId
               PROVE  rows'.cnt[y] = Cardinality(ChildRows(rows, y)')
    BY DEF Counted
  <2>1. /\ IsFiniteSet(ChildRows(rows, y)) /\ x \notin ChildRows(rows, y)
        /\ rows.cnt[y] = Cardinality(ChildRows(rows, y))
    BY <1>1, <1>9, FewChildren DEF Counted
  <2>2. ChildRows(rows, y)' = IF y = par THEN ChildRows(rows, y) \cup {x} ELSE ChildRows(rows, y)
    BY <1>2, <1>4, <2>1 DEF ChildRows, RowsInv, Rows
  <2>3. rows'.cnt[y] = IF y = par THEN rows.cnt[y] + 1 ELSE rows.cnt[y]
    BY <1>2, <1>4, <1>9, NoRowAssumption DEF cnt, RowsInv, Rows
  <2>4. Cardinality(ChildRows(rows, y) \cup {x}) = Cardinality(ChildRows(rows, y)) + 1
    BY <2>1, FS_AddElement
  <2> QED
    BY <2>1, <2>2, <2>3, <2>4
<1> QED
  BY <1>7, <1>8, <1>9

LEMMA ReadyStep ==
  ASSUME IInv, VersionInv, ReadyInv, [Next]_vars
  PROVE  ReadyInv'
<1>1. ASSUME rows' = rows PROVE RowsInv' /\ HasPrimaries' = HasPrimaries /\ Counted' = Counted
  BY <1>1 DEF ReadyInv, RowsInv, HasPrimaries, Counted, TagRows, HasRow, ChildRows
<1>2. CASE UNCHANGED vars
  <2>1. \A k : Past(k)' = Past(k)
    BY <1>2 DEF vars, Past, IsPast
  <2> QED
    BY <1>1, <1>2, <2>1 DEF vars, ReadyInv
<1>3. CASE Next
  <2>1. PICK p \in Server : \/ Start(p) \/ Migrate(p) \/ Stop(p)
                            \/ UseBookmarks(p) \/ UseTags(p)
    BY <1>3 DEF Next
  <2>2. CASE Apply(p) /\ Succeeds(next[p])
    <3>1. rows' = RowsAfter(next[p], rows)
      BY <2>2 DEF Apply
    <3>2. ASSUME NEW k \in {13, 16}, Past(k)', next[p] # k PROVE Past(k)
      <4>1. PICK q \in Server : Past(k) \/ (Apply(q) /\ next[q] = k /\ Succeeds(k))
        BY <1>3, <3>2, PastBefore
      <4>2. CASE Apply(q) /\ next[q] = k /\ Succeeds(k)
        <5>1. pc'[q] = "save" /\ pc[q] = "apply" /\ pc'[p] = "save"
          BY <2>2, <4>2 DEF Apply, Go, IInv, TypeInv
        <5>2. \A s \in Server \ {p} : pc'[s] = pc[s]
          BY <2>2 DEF Apply, Go, IInv, TypeInv
        <5> QED
          BY <3>2, <4>2, <5>1, <5>2
      <4> QED
        BY <4>1, <4>2
    <3>3. CASE next[p] = 13
      <4>1. RowsInv' /\ HasPrimaries' /\ (Counted => Counted')
        BY <3>1, <3>3, PrimariesAreSet DEF RowsAfter, ReadyInv
      <4> QED
        BY <3>2, <3>3, <4>1 DEF ReadyInv
    <3>4. CASE next[p] = 16
      <4>1. RowsInv' /\ Counted' /\ (HasPrimaries => HasPrimaries')
        BY <3>1, <3>4, ChildrenAreCounted DEF RowsAfter, ReadyInv
      <4> QED
        BY <3>2, <3>4, <4>1 DEF ReadyInv
    <3>5. CASE next[p] \notin {13, 16}
      BY <1>1, <3>1, <3>2, <3>5 DEF RowsAfter, ReadyInv
    <3> QED
      BY <3>3, <3>4, <3>5
  <2>3. CASE UseTags(p)
    <3>1. /\ RowsInv'
          /\ version[p] >= 13 /\ HasPrimaries => HasPrimaries'
          /\ version[p] >= 16 /\ Counted => Counted'
      BY <2>3, NewTagKeepsRows DEF ReadyInv
    <3>2. \A k : Past(k)' = Past(k)
      BY <2>3 DEF UseTags, Past, IsPast
    <3>3. pc[p] = "serving" /\ version[p] \in Int
      BY <2>3 DEF UseTags, IInv, TypeInv
    <3>4. /\ ~(version[p] >= 13) => ~Past(13)
          /\ ~(version[p] >= 16) => ~Past(16)
      BY <3>3, OlderServes
    <3> QED
      BY <3>1, <3>2, <3>4 DEF ReadyInv
  <2>4. CASE UseBookmarks(p)
    <3>1. /\ rows' \in Rows
          /\ rows'.parent = rows.parent /\ rows'.names = rows.names
          /\ rows'.primary = rows.primary /\ rows'.cnt = rows.cnt
      BY <2>4 DEF UseBookmarks, ReadyInv, RowsInv, Rows
    <3>2. TagRows(rows)' = TagRows(rows) /\ \A x : ChildRows(rows, x)' = ChildRows(rows, x)
      BY <3>1 DEF TagRows, HasRow, ChildRows
    <3>3. RowsInv' /\ HasPrimaries' = HasPrimaries /\ Counted' = Counted
      BY <3>1, <3>2 DEF ReadyInv, RowsInv, HasPrimaries, Counted
    <3>4. \A k : Past(k)' = Past(k)
      BY <2>4 DEF UseBookmarks, Past, IsPast
    <3> QED
      BY <3>3, <3>4 DEF ReadyInv
  <2>5. CASE ~UseTags(p) /\ ~UseBookmarks(p) /\ ~(Apply(p) /\ Succeeds(next[p]))
    <3>1. rows' = rows
      BY <2>1, <2>5 DEF Migrate, Start, Stop, Initialize, GetCurrentMigrationID, Apply,
         SetCurrentMigrationID
    <3>2. ASSUME NEW k \in {13, 16}, Past(k)' PROVE Past(k)
      <4>1. PICK q \in Server : Past(k) \/ (Apply(q) /\ next[q] = k /\ Succeeds(k))
        BY <1>3, <3>2, PastBefore
      <4>2. CASE Apply(q) /\ next[q] = k /\ Succeeds(k)
        <5>1. pc'[q] = "save" /\ pc[q] = "apply"
          BY <4>2 DEF Apply, Go, IInv, TypeInv
        <5>2. \A s \in Server \ {p} : pc'[s] = pc[s]
          BY <2>1, <2>5 DEF IInv, TypeInv, Start, Migrate, Initialize, GetCurrentMigrationID,
             Apply, SetCurrentMigrationID, Stop, Continue, End, Go
        <5>3. p = q
          BY <5>1, <5>2
        <5> QED
          BY <2>5, <4>2, <5>3
      <4> QED
        BY <4>1, <4>2
    <3> QED
      BY <1>1, <3>1, <3>2 DEF ReadyInv
  <2> QED
    BY <2>1, <2>2, <2>3, <2>4, <2>5
<1> QED
  BY <1>2, <1>3

\* A server of version 13 or later finds a primary name for every tag, and one of
\* version 16 or later the right children_cnt, although older programs may have
\* written tags after those migrations (a slower server sets the number back).
THEOREM ServedRows == Spec => []ServedRowsAreReady
<1>1. Init => IInv /\ VersionInv /\ ReadyInv
  <2> SUFFICES ASSUME Init PROVE IInv /\ VersionInv /\ ReadyInv
    OBVIOUS
  <2>1. IInv /\ VersionInv
    BY DEF Init, IInv, TypeInv, SavedIsApplied, NoTable, VersionInv, Alive, Migrating
  <2>2. rows \in Rows /\ TagRows(rows) = {}
    BY DEF Init, NoRows, Rows, TagRows, HasRow
  <2>3. IsFiniteSet(TagRows(rows))
    BY <2>2, FS_EmptySet
  <2>4. ~Past(13) /\ ~Past(16)
    BY DEF Init, NoTable, Past, IsPast
  <2> QED
    BY <2>1, <2>2, <2>3, <2>4 DEF RowsInv, ReadyInv
<1>2. IInv /\ VersionInv /\ ReadyInv /\ [Next]_vars => (IInv /\ VersionInv /\ ReadyInv)'
  BY IInvStep, VersionStep, ReadyStep
<1>3. IInv /\ VersionInv /\ ReadyInv => ServedRowsAreReady
  <2> SUFFICES ASSUME ReadyInv, NEW p \in Server, pc[p] = "serving"
               PROVE  /\ version[p] >= 13 => Past(13)
                      /\ version[p] >= 16 => Past(16)
    BY DEF ServedRowsAreReady, ReadyInv, HasPrimaries, Counted, TagRows
  <2> QED
    BY DEF Past, IsPast
<1> QED
  BY <1>1, <1>2, <1>3, PTL DEF Spec

-----------------------------------------------------------------------------
(* The schema.  Each object is as the last migration made it that touched  *)
(* it, and every migration but four leaves something behind that no later  *)
(* one touches and that it cannot meet again: it does not run twice.  The  *)
(* four, which only change or replace objects, then change nothing.        *)

Made(m) == DOMAIN m.create \cup DOMAIN m.alter \cup DOMAIN m.put
New(m) == m.create ++ m.alter ++ m.put
Needs(m) == m.drop \cup DOMAIN m.alter \cup m.uses

\* Those that may run again.
Again == {2, 4, 12, 15}

\* Objects that no later migration touches.
Kept(k) ==
  IF k = 1 THEN Top({"users"})
  ELSE IF k \in {5, 10} THEN Migrations[k].drop
  ELSE IF k \in Again THEN Made(Migrations[k])
  ELSE DOMAIN Migrations[k].create

\* What the migrations do, as PostgreSQL gets it: the objects each creates, makes,
\* drops and needs (initMigrations).
LEMMA TwentyMigrations == Ids = 1..20
BY DEF Ids, Migrations

LEMMA TableHas ==
  ASSUME NEW t, NEW key, NEW cols
  PROVE  /\ DOMAIN Table(t, key, cols) = {t} \X ({"itself", "pkey"} \cup cols)
         /\ DOMAIN SerialTable(t, cols) = {t} \X ({"itself", "pkey", "id"} \cup cols)
<1>1. ASSUME NEW k PROVE DOMAIN Table(t, k, cols) = {t} \X ({"itself", "pkey"} \cup cols)
  BY DEF Table, Object, Of, ++
<1>2. DOMAIN Object(t, "id", Serial) = {t} \X {"id"}
  BY DEF Object, Of
<1>3. DOMAIN SerialTable(t, cols) = DOMAIN Table(t, <<"id">>, cols) \cup ({t} \X {"id"})
  BY <1>2 DEF SerialTable, ++
<1>4. DOMAIN Table(t, <<"id">>, cols) = {t} \X ({"itself", "pkey"} \cup cols)
  BY <1>1
<1> QED
  BY <1>1, <1>3, <1>4

\* The objects of the first migration's tables.
LEMMA FirstTables ==
  /\ DOMAIN Users = {"users"} \X {"itself", "pkey", "id", "username", "password", "email"}
    /\ DOMAIN Tags = {"tags"} \X {"itself", "pkey", "id", "parent_id", "owner_id",
                   "parent_id_fkey", "owner_id_fkey"}
    /\ DOMAIN TagNames = {"tag_names"} \X {"itself", "pkey", "id", "tag_id", "name",
                       "tag_id_fkey"}
  /\ DOMAIN Taggables = {"taggables"} \X {"itself", "pkey", "id", "type"}
    /\ DOMAIN Bookmarks = {"bookmarks"} \X {"itself", "pkey", "id", "url", "comment",
                        "owner_id", "id_fkey", "owner_id_fkey"}
    /\ DOMAIN Taggings = {"taggings"} \X {"itself", "pkey", "id", "taggable_id", "tag_id",
                       "taggable_id_fkey", "tag_id_fkey"}
<1>1. DOMAIN Users = {"users"} \X {"itself", "pkey", "id", "username", "password", "email"}
  <2> DEFINE f == Of("users", {"username", "password", "email"}, Null)
             g == SerialTable("users", {})
  <2>1. Users = f ++ g
    BY DEF Users
  <2>2. DOMAIN f = {"users"} \X {"username", "password", "email"}
    BY DEF Of
  <2>3. DOMAIN g = {"users"} \X ({"itself", "pkey", "id"} \cup {})
    BY TableHas
  <2> HIDE DEF f, g
  <2> QED
    BY <2>1, <2>2, <2>3 DEF ++
<1>2. DOMAIN Tags = {"tags"} \X {"itself", "pkey", "id", "parent_id", "owner_id",
                    "parent_id_fkey", "owner_id_fkey"}
  <2> DEFINE f == SerialTable("tags", {"parent_id", "owner_id"})
             g == Object("tags", "parent_id_fkey", Refers("tags"))
             h == Object("tags", "owner_id_fkey", Refers("users"))
  <2>1. Tags = f ++ g ++ h
    BY DEF Tags
  <2>2. DOMAIN f = {"tags"} \X ({"itself", "pkey", "id"} \cup {"parent_id", "owner_id"})
    BY TableHas
  <2>3. DOMAIN g = {<<"tags", "parent_id_fkey">>}
    BY DEF Object, Of
  <2>4. DOMAIN h = {<<"tags", "owner_id_fkey">>}
    BY DEF Object, Of
  <2> HIDE DEF f, g, h
  <2>5. DOMAIN Tags = DOMAIN f \cup DOMAIN g \cup DOMAIN h
    BY <2>1 DEF ++
  <2> QED
    BY <2>2, <2>3, <2>4, <2>5
<1>3. DOMAIN TagNames = {"tag_names"} \X {"itself", "pkey", "id", "tag_id", "name",
                        "tag_id_fkey"}
  <2> DEFINE f == SerialTable("tag_names", {"tag_id", "name"})
             g == Object("tag_names", "tag_id_fkey", Refers("tags"))
  <2>1. TagNames = f ++ g
    BY DEF TagNames
  <2>2. DOMAIN f = {"tag_names"} \X ({"itself", "pkey", "id"} \cup {"tag_id", "name"})
    BY TableHas
  <2>3. DOMAIN g = {<<"tag_names", "tag_id_fkey">>}
    BY DEF Object, Of
  <2> HIDE DEF f, g
  <2>4. DOMAIN TagNames = DOMAIN f \cup DOMAIN g
    BY <2>1 DEF ++
  <2> QED
    BY <2>2, <2>3, <2>4
<1>4. DOMAIN Taggables = {"taggables"} \X {"itself", "pkey", "id", "type"}
  <2>1. DOMAIN SerialTable("taggables", {"type"}) =
          {"taggables"} \X ({"itself", "pkey", "id"} \cup {"type"})
    BY TableHas
  <2> QED
    BY <2>1 DEF Taggables
<1>5. DOMAIN Bookmarks = {"bookmarks"} \X {"itself", "pkey", "id", "url", "comment",
                         "owner_id", "id_fkey", "owner_id_fkey"}
  <2> DEFINE f == SerialTable("bookmarks", {"url", "comment", "owner_id"})
             g == Object("bookmarks", "id_fkey", Refers("taggables"))
             h == Object("bookmarks", "owner_id_fkey", Refers("users"))
  <2>1. Bookmarks = f ++ g ++ h
    BY DEF Bookmarks
  <2>2. DOMAIN f = {"bookmarks"} \X ({"itself", "pkey", "id"} \cup {"url", "comment", "owner_id"})
    BY TableHas
  <2>3. DOMAIN g = {<<"bookmarks", "id_fkey">>}
    BY DEF Object, Of
  <2>4. DOMAIN h = {<<"bookmarks", "owner_id_fkey">>}
    BY DEF Object, Of
  <2> HIDE DEF f, g, h
  <2>5. DOMAIN Bookmarks = DOMAIN f \cup DOMAIN g \cup DOMAIN h
    BY <2>1 DEF ++
  <2> QED
    BY <2>2, <2>3, <2>4, <2>5
<1>6. DOMAIN Taggings = {"taggings"} \X {"itself", "pkey", "id", "taggable_id", "tag_id",
                        "taggable_id_fkey", "tag_id_fkey"}
  <2> DEFINE f == SerialTable("taggings", {"taggable_id", "tag_id"})
             g == Object("taggings", "taggable_id_fkey", Refers("taggables"))
             h == Object("taggings", "tag_id_fkey", Refers("tags"))
  <2>1. Taggings = f ++ g ++ h
    BY DEF Taggings
  <2>2. DOMAIN f = {"taggings"} \X ({"itself", "pkey", "id"} \cup {"taggable_id", "tag_id"})
    BY TableHas
  <2>3. DOMAIN g = {<<"taggings", "taggable_id_fkey">>}
    BY DEF Object, Of
  <2>4. DOMAIN h = {<<"taggings", "tag_id_fkey">>}
    BY DEF Object, Of
  <2> HIDE DEF f, g, h
  <2>5. DOMAIN Taggings = DOMAIN f \cup DOMAIN g \cup DOMAIN h
    BY <2>1 DEF ++
  <2> QED
    BY <2>2, <2>3, <2>4, <2>5
<1> QED
  BY <1>1, <1>2, <1>3, <1>4, <1>5, <1>6

LEMMA Parts1 ==
  LET m == Migrations[1]
  IN  /\ DOMAIN m.create = ({"users"} \X {"itself", "pkey", "id", "username", "password",
                            "email"})
                           \cup ({"tags"} \X {"itself", "pkey", "id", "parent_id", "owner_id",
                                 "parent_id_fkey", "owner_id_fkey"})
                           \cup ({"tag_names"} \X {"itself", "pkey", "id", "tag_id", "name",
                                 "tag_id_fkey"})
                           \cup ({"taggables"} \X {"itself", "pkey", "id", "type"})
                           \cup ({"bookmarks"} \X {"itself", "pkey", "id", "url", "comment",
                                 "owner_id", "id_fkey", "owner_id_fkey"})
                           \cup ({"taggings"} \X {"itself", "pkey", "id", "taggable_id",
                                 "tag_id", "taggable_id_fkey", "tag_id_fkey"})
      /\ Made(m) = DOMAIN m.create /\ m.drop = {} /\ Needs(m) = {}
<1>1. Migrations[1] = InitialStructure
  BY DEF Migrations
<1>2. DOMAIN InitialStructure.create =
        DOMAIN Users \cup DOMAIN Tags \cup DOMAIN TagNames
        \cup DOMAIN Taggables \cup DOMAIN Bookmarks \cup DOMAIN Taggings
  <2>1. InitialStructure.create = Users ++ Tags ++ TagNames ++ Taggables ++ Bookmarks ++ Taggings
    BY DEF InitialStructure, NoChange
  <2> QED
    BY <2>1 DEF ++
<1>3. /\ DOMAIN InitialStructure.alter = {} /\ DOMAIN InitialStructure.put = {}
      /\ InitialStructure.drop = {} /\ InitialStructure.uses = {}
  BY DEF InitialStructure, NoChange, Nothing
<1>4. Made(InitialStructure) = DOMAIN InitialStructure.create /\ Needs(InitialStructure) = {}
  BY <1>3 DEF Made, Needs
<1> QED
  BY <1>1, <1>2, <1>3, <1>4, FirstTables

LEMMA Parts2 ==
  LET m == Migrations[2]
  IN  /\ DOMAIN m.create = {}
      /\ Made(m) = {<<"tags", "parent_id">>}
      /\ m.drop = {}
      /\ Needs(m) = {<<"tags", "parent_id">>}
<1>0. Migrations[2] = DropParentNotNull
  BY DEF Migrations
<1> QED
  BY <1>0 DEF DropParentNotNull, NoChange, Nothing, Made, Needs, Of, Object

LEMMA Parts3 ==
  LET m == Migrations[3]
  IN  /\ DOMAIN m.create = ({"taggables"} \X {"owner_id", "owner_id_fkey"})
      /\ Made(m) = ({"taggables"} \X {"owner_id", "owner_id_fkey"})
      /\ m.drop = ({"bookmarks"} \X {"owner_id", "owner_id_fkey"})
      /\ Needs(m) = ({"bookmarks"} \X {"owner_id", "owner_id_fkey"}) \cup {<<"taggables",
                     "itself">>}
                    \cup {<<"users", "itself">>}
<1>0. Migrations[3] = MoveOwnerToTaggables
  BY DEF Migrations
<1> QED
  BY <1>0 DEF MoveOwnerToTaggables, NoChange, Nothing, Made, Needs, Of, Object, ++, Top

LEMMA Parts4 ==
  LET m == Migrations[4]
  IN  /\ DOMAIN m.create = {}
      /\ Made(m) = ({"tags"} \X {"parent_id_fkey", "owner_id_fkey"})
                   \cup {<<"tag_names", "tag_id_fkey">>} \cup {<<"bookmarks", "id_fkey">>}
                   \cup ({"taggings"} \X {"taggable_id_fkey", "tag_id_fkey"})
      /\ m.drop = {}
      /\ Needs(m) = ({"tags"} \X {"parent_id_fkey", "owner_id_fkey"})
                    \cup {<<"tag_names", "tag_id_fkey">>} \cup {<<"bookmarks", "id_fkey">>}
                    \cup ({"taggings"} \X {"taggable_id_fkey", "tag_id_fkey"})
<1>0. Migrations[4] = AddOnDelete
  BY DEF Migrations
<1>1. DOMAIN AddOnDelete.create = {}
  BY DEF AddOnDelete, NoChange, Nothing, Made, Needs, Of, Object, ++
<1>2. Made(AddOnDelete) = ({"tags"} \X {"parent_id_fkey", "owner_id_fkey"})
                          \cup {<<"tag_names", "tag_id_fkey">>}
                          \cup {<<"bookmarks", "id_fkey">>}
                          \cup ({"taggings"} \X {"taggable_id_fkey", "tag_id_fkey"})
  BY DEF AddOnDelete, NoChange, Nothing, Made, Needs, Of, Object, ++
<1>3. AddOnDelete.drop = {}
  BY DEF AddOnDelete, NoChange, Nothing, Made, Needs, Of, Object, ++
<1>4. Needs(AddOnDelete) = ({"tags"} \X {"parent_id_fkey", "owner_id_fkey"})
                           \cup {<<"tag_names", "tag_id_fkey">>}
                           \cup {<<"bookmarks", "id_fkey">>}
                           \cup ({"taggings"} \X {"taggable_id_fkey", "tag_id_fkey"})
  BY DEF AddOnDelete, NoChange, Nothing, Made, Needs, Of, Object, ++
<1> QED
  BY <1>0, <1>1, <1>2, <1>3, <1>4

LEMMA Parts5 ==
  LET m == Migrations[5]
  IN  /\ DOMAIN m.create = {}
      /\ Made(m) = {<<"tag_names", "pkey">>}
      /\ m.drop = {<<"tag_names", "id">>}
      /\ Needs(m) = {<<"tag_names", "id">>} \cup {<<"tag_names", "pkey">>}
<1>0. Migrations[5] = NaturalKeyOfTagNames
  BY DEF Migrations
<1> QED
  BY <1>0 DEF NaturalKeyOfTagNames, NoChange, Nothing, Made, Needs, Of, Object

LEMMA Parts6 ==
  LET m == Migrations[6]
  IN  /\ DOMAIN m.create = {<<"tags", "descr">>}
      /\ Made(m) = {<<"tags", "descr">>}
      /\ m.drop = {}
      /\ Needs(m) = {<<"tags", "itself">>}
<1>0. Migrations[6] = AddTagDescription
  BY DEF Migrations
<1> QED
  BY <1>0 DEF AddTagDescription, NoChange, Nothing, Made, Needs, Of, Object, Top

LEMMA Parts7 ==
  LET m == Migrations[7]
  IN  /\ DOMAIN m.create = {<<"tags", "check_dup_null">>}
      /\ Made(m) = {<<"tags", "check_dup_null">>} \cup {<<"check_dup_null", "itself">>}
      /\ m.drop = {}
      /\ Needs(m) = {<<"tags", "itself">>}
<1>0. Migrations[7] = OneNullParent
  BY DEF Migrations
<1> QED
  BY <1>0 DEF OneNullParent, NoChange, Nothing, Made, Needs, Of, Object, ++, Top

LEMMA Parts8 ==
  LET m == Migrations[8]
  IN  /\ DOMAIN m.create = {<<"taggable_type", "itself">>}
      /\ Made(m) = {<<"taggable_type", "itself">>} \cup {<<"taggables", "type">>}
      /\ m.drop = {}
      /\ Needs(m) = {<<"taggables", "type">>}
<1>0. Migrations[8] = TaggableTypeEnum
  BY DEF Migrations
<1> QED
  BY <1>0 DEF TaggableTypeEnum, NoChange, Nothing, Made, Needs, Of, Object, ++

LEMMA Parts9 ==
  LET m == Migrations[9]
  IN  /\ DOMAIN m.create = ({"taggables"} \X {"created_ts", "updated_ts",
                            "trg_set_created_ts", "trg_set_updated_ts"})
      /\ Made(m) = ({"taggables"} \X {"created_ts", "updated_ts", "trg_set_created_ts",
                    "trg_set_updated_ts"})
                   \cup {<<"set_created_ts", "itself">>} \cup {<<"set_updated_ts", "itself">>}
      /\ m.drop = {}
      /\ Needs(m) = {<<"taggables", "itself">>}
<1>0. Migrations[9] = AddTimestamps
  BY DEF Migrations
<1> QED
  BY <1>0 DEF AddTimestamps, NoChange, Nothing, Made, Needs, Of, Object, ++, Top

LEMMA Parts10 ==
  LET m == Migrations[10]
  IN  /\ DOMAIN m.create = {}
      /\ Made(m) = {<<"taggings", "pkey">>}
      /\ m.drop = {<<"taggings", "id">>}
      /\ Needs(m) = {<<"taggings", "id">>} \cup {<<"taggings", "pkey">>}
<1>0. Migrations[10] = NaturalKeyOfTaggings
  BY DEF Migrations
<1> QED
  BY <1>0 DEF NaturalKeyOfTaggings, NoChange, Nothing, Made, Needs, Of, Object

LEMMA Parts11 ==
  LET m == Migrations[11]
  IN  /\ DOMAIN m.create = {<<"bookmarks", "title">>}
      /\ Made(m) = {<<"bookmarks", "title">>}
      /\ m.drop = {}
      /\ Needs(m) = {<<"bookmarks", "itself">>}
<1>0. Migrations[11] = AddTitle
  BY DEF Migrations
<1> QED
  BY <1>0 DEF AddTitle, NoChange, Nothing, Made, Needs, Of, Object, Top

LEMMA Parts12 ==
  LET m == Migrations[12]
  IN  /\ DOMAIN m.create = {}
      /\ Made(m) = ({"taggings"} \X {"taggable_id_idx", "tag_id_idx"})
                   \cup {<<"tag_names", "tag_id_idx">>}
                   \cup ({"taggables"} \X {"owner_id_idx", "type_idx"})
                   \cup ({"tags"} \X {"parent_id_idx", "owner_id_idx"})
      /\ m.drop = {}
      /\ Needs(m) = ({"taggings"} \X {"taggable_id", "tag_id"}) \cup {<<"tag_names", "tag_id">>}
                    \cup ({"taggables"} \X {"owner_id", "type"})
                    \cup ({"tags"} \X {"parent_id", "owner_id"})
<1>0. Migrations[12] = AddIndexes
  BY DEF Migrations
<1> QED
  BY <1>0 DEF AddIndexes, NoChange, Nothing, Made, Needs, Of, Object, ++, Top

LEMMA Parts13 ==
  LET m == Migrations[13]
  IN  /\ DOMAIN m.create = {<<"tag_names", "primary">>}
      /\ Made(m) = {<<"tag_names", "primary">>}
      /\ m.drop = {}
      /\ Needs(m) = {<<"tag_names", "itself">>}
<1>0. Migrations[13] = AddPrimary
  BY DEF Migrations
<1> QED
  BY <1>0 DEF AddPrimary, NoChange, Nothing, Made, Needs, Of, Object, Top

LEMMA Parts14 ==
  LET m == Migrations[14]
  IN  /\ DOMAIN m.create = {<<"gm_tag_brief", "itself">>}
      /\ Made(m) = {<<"gm_tag_brief", "itself">>}
      /\ m.drop = {}
      /\ Needs(m) = {}
<1>0. Migrations[14] = AddTagBriefType
  BY DEF Migrations
<1> QED
  BY <1>0 DEF AddTagBriefType, NoChange, Nothing, Made, Needs, Of, Object

LEMMA Parts15 ==
  LET m == Migrations[15]
  IN  /\ DOMAIN m.create = {}
      /\ Made(m) = {<<"check_dup_null", "itself">>}
      /\ m.drop = {}
      /\ Needs(m) = {}
<1>0. Migrations[15] = FixDupNull
  BY DEF Migrations
<1>1. DOMAIN FixDupNull.create = {}
  BY DEF FixDupNull, NoChange, Nothing, Made, Needs, Of, Object
<1>2. Made(FixDupNull) = {<<"check_dup_null", "itself">>}
  BY DEF FixDupNull, NoChange, Nothing, Made, Needs, Of, Object
<1>3. FixDupNull.drop = {}
  BY DEF FixDupNull, NoChange, Nothing, Made, Needs, Of, Object
<1>4. Needs(FixDupNull) = {}
  BY DEF FixDupNull, NoChange, Nothing, Made, Needs, Of, Object
<1> QED
  BY <1>0, <1>1, <1>2, <1>3, <1>4

LEMMA Parts16 ==
  LET m == Migrations[16]
  IN  /\ DOMAIN m.create = {<<"tags", "children_cnt">>}
      /\ Made(m) = {<<"tags", "children_cnt">>}
      /\ m.drop = {}
      /\ Needs(m) = {<<"tags", "itself">>}
<1>0. Migrations[16] = AddChildrenCnt
  BY DEF Migrations
<1> QED
  BY <1>0 DEF AddChildrenCnt, NoChange, Nothing, Made, Needs, Of, Object, Top

LEMMA Parts17 ==
  LET m == Migrations[17]
  IN  /\ DOMAIN m.create = ({"access_tokens"} \X {"itself", "pkey", "token", "user_id",
                            "created_ts", "user_id_fkey"})
      /\ Made(m) = ({"access_tokens"} \X {"itself", "pkey", "token", "user_id", "created_ts",
                    "user_id_fkey"})
      /\ m.drop = {}
      /\ Needs(m) = {<<"users", "itself">>}
<1>0. Migrations[17] = AddAccessTokens
  BY DEF Migrations
<1> QED
  BY <1>0 DEF AddAccessTokens, NoChange, Nothing, Made, Needs, Of, Object, Table, ++, Top

LEMMA Parts18 ==
  LET m == Migrations[18]
  IN  /\ DOMAIN m.create = ({"google_auth"} \X {"itself", "pkey", "google_user_id", "user_id",
                            "email", "created_ts", "user_id_fkey"})
      /\ Made(m) = ({"google_auth"} \X {"itself", "pkey", "google_user_id", "user_id",
                    "email", "created_ts", "user_id_fkey"})
      /\ m.drop = {}
      /\ Needs(m) = {<<"users", "itself">>}
<1>0. Migrations[18] = AddGoogleAuth
  BY DEF Migrations
<1> QED
  BY <1>0 DEF AddGoogleAuth, NoChange, Nothing, Made, Needs, Of, Object, Table, ++, Top

LEMMA Parts19 ==
  LET m == Migrations[19]
  IN  /\ DOMAIN m.create = {<<"access_tokens", "descr">>}
      /\ Made(m) = {<<"access_tokens", "descr">>}
      /\ m.drop = {}
      /\ Needs(m) = {<<"access_tokens", "itself">>}
<1>0. Migrations[19] = AddTokenDescription
  BY DEF Migrations
<1> QED
  BY <1>0 DEF AddTokenDescription, NoChange, Nothing, Made, Needs, Of, Object, Top

LEMMA Parts20 ==
  LET m == Migrations[20]
  IN  /\ DOMAIN m.create = ({"users"} \X {"username_unique", "email_unique"})
      /\ Made(m) = ({"users"} \X {"username_unique", "email_unique"})
      /\ m.drop = {}
      /\ Needs(m) = {<<"users", "itself">>}
<1>0. Migrations[20] = UniqueUsers
  BY DEF Migrations
<1> QED
  BY <1>0 DEF UniqueUsers, NoChange, Nothing, Made, Needs, Of, Object, Top

LEMMA KeptIs ==
  /\ Kept(1) = {<<"users", "itself">>}
  /\ Kept(2) = {<<"tags", "parent_id">>}
  /\ Kept(3) = ({"taggables"} \X {"owner_id", "owner_id_fkey"})
  /\ Kept(4) = ({"tags"} \X {"parent_id_fkey", "owner_id_fkey"})
               \cup {<<"tag_names", "tag_id_fkey">>} \cup {<<"bookmarks", "id_fkey">>}
               \cup ({"taggings"} \X {"taggable_id_fkey", "tag_id_fkey"})
  /\ Kept(5) = {<<"tag_names", "id">>}
  /\ Kept(6) = {<<"tags", "descr">>}
  /\ Kept(7) = {<<"tags", "check_dup_null">>}
  /\ Kept(8) = {<<"taggable_type", "itself">>}
  /\ Kept(9) = ({"taggables"} \X {"created_ts", "updated_ts", "trg_set_created_ts",
                "trg_set_updated_ts"})
  /\ Kept(10) = {<<"taggings", "id">>}
  /\ Kept(11) = {<<"bookmarks", "title">>}
  /\ Kept(12) = ({"taggings"} \X {"taggable_id_idx", "tag_id_idx"})
                \cup {<<"tag_names", "tag_id_idx">>}
                \cup ({"taggables"} \X {"owner_id_idx", "type_idx"})
                \cup ({"tags"} \X {"parent_id_idx", "owner_id_idx"})
  /\ Kept(13) = {<<"tag_names", "primary">>}
  /\ Kept(14) = {<<"gm_tag_brief", "itself">>}
  /\ Kept(15) = {<<"check_dup_null", "itself">>}
  /\ Kept(16) = {<<"tags", "children_cnt">>}
  /\ Kept(17) = ({"access_tokens"} \X {"itself", "pkey", "token", "user_id", "created_ts",
                 "user_id_fkey"})
  /\ Kept(18) = ({"google_auth"} \X {"itself", "pkey", "google_user_id", "user_id", "email",
                 "created_ts", "user_id_fkey"})
  /\ Kept(19) = {<<"access_tokens", "descr">>}
  /\ Kept(20) = ({"users"} \X {"username_unique", "email_unique"})
<1>1. Kept(1) = {<<"users", "itself">>}
  BY DEF Kept, Again, Top
<1>2. Kept(2) = {<<"tags", "parent_id">>}
  BY Parts2 DEF Kept, Again
<1>3. Kept(3) = ({"taggables"} \X {"owner_id", "owner_id_fkey"})
  BY Parts3 DEF Kept, Again
<1>4. Kept(4) = ({"tags"} \X {"parent_id_fkey", "owner_id_fkey"})
                \cup {<<"tag_names", "tag_id_fkey">>} \cup {<<"bookmarks", "id_fkey">>}
                \cup ({"taggings"} \X {"taggable_id_fkey", "tag_id_fkey"})
  BY Parts4 DEF Kept, Again
<1>5. Kept(5) = {<<"tag_names", "id">>}
  BY Parts5 DEF Kept, Again
<1>6. Kept(6) = {<<"tags", "descr">>}
  BY Parts6 DEF Kept, Again
<1>7. Kept(7) = {<<"tags", "check_dup_null">>}
  BY Parts7 DEF Kept, Again
<1>8. Kept(8) = {<<"taggable_type", "itself">>}
  BY Parts8 DEF Kept, Again
<1>9. Kept(9) = ({"taggables"} \X {"created_ts", "updated_ts", "trg_set_created_ts",
                 "trg_set_updated_ts"})
  BY Parts9 DEF Kept, Again
<1>10. Kept(10) = {<<"taggings", "id">>}
  BY Parts10 DEF Kept, Again
<1>11. Kept(11) = {<<"bookmarks", "title">>}
  BY Parts11 DEF Kept, Again
<1>12. Kept(12) = ({"taggings"} \X {"taggable_id_idx", "tag_id_idx"})
                  \cup {<<"tag_names", "tag_id_idx">>}
                  \cup ({"taggables"} \X {"owner_id_idx", "type_idx"})
                  \cup ({"tags"} \X {"parent_id_idx", "owner_id_idx"})
  BY Parts12 DEF Kept, Again
<1>13. Kept(13) = {<<"tag_names", "primary">>}
  BY Parts13 DEF Kept, Again
<1>14. Kept(14) = {<<"gm_tag_brief", "itself">>}
  BY Parts14 DEF Kept, Again
<1>15. Kept(15) = {<<"check_dup_null", "itself">>}
  BY Parts15 DEF Kept, Again
<1>16. Kept(16) = {<<"tags", "children_cnt">>}
  BY Parts16 DEF Kept, Again
<1>17. Kept(17) = ({"access_tokens"} \X {"itself", "pkey", "token", "user_id", "created_ts",
                   "user_id_fkey"})
  BY Parts17 DEF Kept, Again
<1>18. Kept(18) = ({"google_auth"} \X {"itself", "pkey", "google_user_id", "user_id", "email",
                   "created_ts", "user_id_fkey"})
  BY Parts18 DEF Kept, Again
<1>19. Kept(19) = {<<"access_tokens", "descr">>}
  BY Parts19 DEF Kept, Again
<1>20. Kept(20) = ({"users"} \X {"username_unique", "email_unique"})
  BY Parts20 DEF Kept, Again
<1> QED
  BY <1>1, <1>2, <1>3, <1>4, <1>5, <1>6, <1>7, <1>8, <1>9, <1>10, <1>11, <1>12, <1>13,
     <1>14, <1>15, <1>16, <1>17, <1>18, <1>19, <1>20

\* What a migration keeps, no later one makes or drops.
LEMMA KeptStays ==
  ASSUME NEW k \in Ids, NEW i \in Ids, i < k
  PROVE  Kept(i) \cap (Made(Migrations[k]) \cup Migrations[k].drop) = {}
<1>1. k \in Int /\ i \in Int /\ 1 <= i /\ k <= 20
  BY TwentyMigrations
<1>2. CASE k = 2
  <2>1. i \in {1}
    BY <1>1, <1>2
  <2> QED
    BY <1>2, <2>1, KeptIs, Parts2
<1>3. CASE k = 3
  <2>1. i \in {1, 2}
    BY <1>1, <1>3
  <2> QED
    BY <1>3, <2>1, KeptIs, Parts3
<1>4. CASE k = 4
  <2>1. i \in {1, 2, 3}
    BY <1>1, <1>4
  <2> QED
    BY <1>4, <2>1, KeptIs, Parts4
<1>5. CASE k = 5
  <2>1. i \in {1, 2, 3, 4}
    BY <1>1, <1>5
  <2> QED
    BY <1>5, <2>1, KeptIs, Parts5
<1>6. CASE k = 6
  <2>1. i \in {1, 2, 3, 4, 5}
    BY <1>1, <1>6
  <2> QED
    BY <1>6, <2>1, KeptIs, Parts6
<1>7. CASE k = 7
  <2>1. i \in {1, 2, 3, 4, 5, 6}
    BY <1>1, <1>7
  <2> QED
    BY <1>7, <2>1, KeptIs, Parts7
<1>8. CASE k = 8
  <2>1. i \in {1, 2, 3, 4, 5, 6, 7}
    BY <1>1, <1>8
  <2> QED
    BY <1>8, <2>1, KeptIs, Parts8
<1>9. CASE k = 9
  <2>1. i \in {1, 2, 3, 4, 5, 6, 7, 8}
    BY <1>1, <1>9
  <2> QED
    BY <1>9, <2>1, KeptIs, Parts9
<1>10. CASE k = 10
  <2>1. i \in {1, 2, 3, 4, 5, 6, 7, 8, 9}
    BY <1>1, <1>10
  <2> QED
    BY <1>10, <2>1, KeptIs, Parts10
<1>11. CASE k = 11
  <2>1. i \in {1, 2, 3, 4, 5, 6, 7, 8, 9, 10}
    BY <1>1, <1>11
  <2> QED
    BY <1>11, <2>1, KeptIs, Parts11
<1>12. CASE k = 12
  <2>1. i \in {1, 2, 3, 4, 5, 6, 7, 8, 9, 10, 11}
    BY <1>1, <1>12
  <2> QED
    BY <1>12, <2>1, KeptIs, Parts12
<1>13. CASE k = 13
  <2>1. i \in {1, 2, 3, 4, 5, 6, 7, 8, 9, 10, 11, 12}
    BY <1>1, <1>13
  <2> QED
    BY <1>13, <2>1, KeptIs, Parts13
<1>14. CASE k = 14
  <2>1. i \in {1, 2, 3, 4, 5, 6, 7, 8, 9, 10, 11, 12, 13}
    BY <1>1, <1>14
  <2> QED
    BY <1>14, <2>1, KeptIs, Parts14
<1>15. CASE k = 15
  <2>1. i \in {1, 2, 3, 4, 5, 6, 7, 8, 9, 10, 11, 12, 13, 14}
    BY <1>1, <1>15
  <2> QED
    BY <1>15, <2>1, KeptIs, Parts15
<1>16. CASE k = 16
  <2>1. i \in {1, 2, 3, 4, 5, 6, 7, 8, 9, 10, 11, 12, 13, 14, 15}
    BY <1>1, <1>16
  <2> QED
    BY <1>16, <2>1, KeptIs, Parts16
<1>17. CASE k = 17
  <2>1. i \in {1, 2, 3, 4, 5, 6, 7, 8, 9, 10, 11, 12, 13, 14, 15, 16}
    BY <1>1, <1>17
  <2> QED
    BY <1>17, <2>1, KeptIs, Parts17
<1>18. CASE k = 18
  <2>1. i \in {1, 2, 3, 4, 5, 6, 7, 8, 9, 10, 11, 12, 13, 14, 15, 16, 17}
    BY <1>1, <1>18
  <2> QED
    BY <1>18, <2>1, KeptIs, Parts18
<1>19. CASE k = 19
  <2>1. i \in {1, 2, 3, 4, 5, 6, 7, 8, 9, 10, 11, 12, 13, 14, 15, 16, 17, 18}
    BY <1>1, <1>19
  <2> QED
    BY <1>19, <2>1, KeptIs, Parts19
<1>20. CASE k = 20
  <2>1. i \in {1, 2, 3, 4, 5, 6, 7, 8, 9, 10, 11, 12, 13, 14, 15, 16, 17, 18, 19}
    BY <1>1, <1>20
  <2> QED
    BY <1>20, <2>1, KeptIs, Parts20
<1> QED
  BY TwentyMigrations, <1>2, <1>3, <1>4, <1>5, <1>6, <1>7, <1>8, <1>9, <1>10, <1>11, <1>12,
     <1>13, <1>14, <1>15, <1>16, <1>17, <1>18, <1>19, <1>20

\* What a migration creates, no earlier one made.
LEMMA CreatesNew ==
  ASSUME NEW k \in Ids, NEW i \in Ids, i < k
  PROVE  DOMAIN Migrations[k].create \cap Made(Migrations[i]) = {}
<1>1. k \in Int /\ i \in Int /\ 1 <= i /\ k <= 20
  BY TwentyMigrations
<1>2. CASE k = 2
  <2>1. i \in {1}
    BY <1>1, <1>2
  <2> QED
    BY <1>2, Parts2
<1>3. CASE k = 3
  <2>1. i \in {1, 2}
    BY <1>1, <1>3
  <2> QED
    BY <1>3, <2>1, Parts1, Parts2, Parts3
<1>4. CASE k = 4
  <2>1. i \in {1, 2, 3}
    BY <1>1, <1>4
  <2> QED
    BY <1>4, Parts4
<1>5. CASE k = 5
  <2>1. i \in {1, 2, 3, 4}
    BY <1>1, <1>5
  <2> QED
    BY <1>5, Parts5
<1>6. CASE k = 6
  <2>1. i \in {1, 2, 3, 4, 5}
    BY <1>1, <1>6
  <2> QED
    BY <1>6, <2>1, Parts1, Parts2, Parts3, Parts4, Parts5, Parts6
<1>7. CASE k = 7
  <2>1. i \in {1, 2, 3, 4, 5, 6}
    BY <1>1, <1>7
  <2> QED
    BY <1>7, <2>1, Parts1, Parts2, Parts3, Parts4, Parts5, Parts6, Parts7
<1>8. CASE k = 8
  <2>1. i \in {1, 2, 3, 4, 5, 6, 7}
    BY <1>1, <1>8
  <2> QED
    BY <1>8, <2>1, Parts1, Parts2, Parts3, Parts4, Parts5, Parts6, Parts7, Parts8
<1>9. CASE k = 9
  <2>1. i \in {1, 2, 3, 4, 5, 6, 7, 8}
    BY <1>1, <1>9
  <2> QED
    BY <1>9, <2>1, Parts1, Parts2, Parts3, Parts4, Parts5, Parts6, Parts7, Parts8, Parts9
<1>10. CASE k = 10
  <2>1. i \in {1, 2, 3, 4, 5, 6, 7, 8, 9}
    BY <1>1, <1>10
  <2> QED
    BY <1>10, Parts10
<1>11. CASE k = 11
  <2>1. i \in {1, 2, 3, 4, 5, 6, 7, 8, 9, 10}
    BY <1>1, <1>11
  <2> QED
    BY <1>11, <2>1, Parts1, Parts2, Parts3, Parts4, Parts5, Parts6, Parts7, Parts8, Parts9,
       Parts10, Parts11
<1>12. CASE k = 12
  <2>1. i \in {1, 2, 3, 4, 5, 6, 7, 8, 9, 10, 11}
    BY <1>1, <1>12
  <2> QED
    BY <1>12, Parts12
<1>13. CASE k = 13
  <2>1. i \in {1, 2, 3, 4, 5, 6, 7, 8, 9, 10, 11, 12}
    BY <1>1, <1>13
  <2> QED
    BY <1>13, <2>1, Parts1, Parts2, Parts3, Parts4, Parts5, Parts6, Parts7, Parts8, Parts9,
       Parts10, Parts11, Parts12, Parts13
<1>14. CASE k = 14
  <2>1. i \in {1, 2, 3, 4, 5, 6, 7, 8, 9, 10, 11, 12, 13}
    BY <1>1, <1>14
  <2> QED
    BY <1>14, <2>1, Parts1, Parts2, Parts3, Parts4, Parts5, Parts6, Parts7, Parts8, Parts9,
       Parts10, Parts11, Parts12, Parts13, Parts14
<1>15. CASE k = 15
  <2>1. i \in {1, 2, 3, 4, 5, 6, 7, 8, 9, 10, 11, 12, 13, 14}
    BY <1>1, <1>15
  <2> QED
    BY <1>15, Parts15
<1>16. CASE k = 16
  <2>1. i \in {1, 2, 3, 4, 5, 6, 7, 8, 9, 10, 11, 12, 13, 14, 15}
    BY <1>1, <1>16
  <2> QED
    BY <1>16, <2>1, Parts1, Parts2, Parts3, Parts4, Parts5, Parts6, Parts7, Parts8, Parts9,
       Parts10, Parts11, Parts12, Parts13, Parts14, Parts15, Parts16
<1>17. CASE k = 17
  <2>1. i \in {1, 2, 3, 4, 5, 6, 7, 8, 9, 10, 11, 12, 13, 14, 15, 16}
    BY <1>1, <1>17
  <2> QED
    BY <1>17, <2>1, Parts1, Parts2, Parts3, Parts4, Parts5, Parts6, Parts7, Parts8, Parts9,
       Parts10, Parts11, Parts12, Parts13, Parts14, Parts15, Parts16, Parts17
<1>18. CASE k = 18
  <2>1. i \in {1, 2, 3, 4, 5, 6, 7, 8, 9, 10, 11, 12, 13, 14, 15, 16, 17}
    BY <1>1, <1>18
  <2> QED
    BY <1>18, <2>1, Parts1, Parts2, Parts3, Parts4, Parts5, Parts6, Parts7, Parts8, Parts9,
       Parts10, Parts11, Parts12, Parts13, Parts14, Parts15, Parts16, Parts17, Parts18
<1>19. CASE k = 19
  <2>1. i \in {1, 2, 3, 4, 5, 6, 7, 8, 9, 10, 11, 12, 13, 14, 15, 16, 17, 18}
    BY <1>1, <1>19
  <2> QED
    BY <1>19, <2>1, Parts1, Parts2, Parts3, Parts4, Parts5, Parts6, Parts7, Parts8, Parts9,
       Parts10, Parts11, Parts12, Parts13, Parts14, Parts15, Parts16, Parts17, Parts18,
       Parts19
<1>20. CASE k = 20
  <2>1. i \in {1, 2, 3, 4, 5, 6, 7, 8, 9, 10, 11, 12, 13, 14, 15, 16, 17, 18, 19}
    BY <1>1, <1>20
  <2> QED
    BY <1>20, <2>1, Parts1, Parts2, Parts3, Parts4, Parts5, Parts6, Parts7, Parts8, Parts9,
       Parts10, Parts11, Parts12, Parts13, Parts14, Parts15, Parts16, Parts17, Parts18,
       Parts19, Parts20
<1> QED
  BY TwentyMigrations, <1>2, <1>3, <1>4, <1>5, <1>6, <1>7, <1>8, <1>9, <1>10, <1>11, <1>12,
     <1>13, <1>14, <1>15, <1>16, <1>17, <1>18, <1>19, <1>20

\* Migration i made o, and none that followed up to the a-th touched it.
MadeLast(i, a, o) ==
  /\ o \in Made(Migrations[i])
  /\ \A j \in (i + 1)..a : o \notin Made(Migrations[j]) \cup Migrations[j].drop

\* What a migration changes, drops or refers to is there.
LEMMA NeedsAreMet ==
  ASSUME NEW k \in Ids, NEW o \in Needs(Migrations[k])
  PROVE  \E i \in 1..(k - 1) : MadeLast(i, k - 1, o)
<1>1. CASE k = 1
  BY <1>1, Parts1
<1>2. CASE k = 2
  <2>1. ASSUME o \in {<<"tags", "parent_id">>}
        PROVE  MadeLast(1, 1, o)
    BY <2>1, Parts1 DEF MadeLast
  <2> QED
    BY <1>2, Parts2, <2>1
<1>3. CASE k = 3
  <2>1. ASSUME o \in ({"bookmarks"} \X {"owner_id", "owner_id_fkey"})
                     \cup {<<"taggables", "itself">>} \cup {<<"users", "itself">>}
        PROVE  MadeLast(1, 2, o)
    <3>1. (1 + 1)..2 = {2}
      OBVIOUS
    <3> QED
      BY <2>1, <3>1, Parts1, Parts2 DEF MadeLast
  <2> QED
    BY <1>3, Parts3, <2>1
<1>4. CASE k = 4
  <2>1. ASSUME o \in ({"tags"} \X {"parent_id_fkey", "owner_id_fkey"})
                     \cup {<<"tag_names", "tag_id_fkey">>} \cup {<<"bookmarks", "id_fkey">>}
                     \cup ({"taggings"} \X {"taggable_id_fkey", "tag_id_fkey"})
        PROVE  MadeLast(1, 3, o)
    <3>1. (1 + 1)..3 = {2, 3}
      OBVIOUS
    <3> QED
      BY <2>1, <3>1, Parts1, Parts2, Parts3 DEF MadeLast
  <2> QED
    BY <1>4, Parts4, <2>1
<1>5. CASE k = 5
  <2>1. ASSUME o \in ({"tag_names"} \X {"id", "pkey"})
        PROVE  MadeLast(1, 4, o)
    <3>1. (1 + 1)..4 = {2, 3, 4}
      OBVIOUS
    <3> QED
      BY <2>1, <3>1, Parts1, Parts2, Parts3, Parts4 DEF MadeLast
  <2> QED
    BY <1>5, Parts5, <2>1
<1>6. CASE k = 6
  <2>1. ASSUME o \in {<<"tags", "itself">>}
        PROVE  MadeLast(1, 5, o)
    <3>1. (1 + 1)..5 = {2, 3, 4, 5}
      OBVIOUS
    <3> QED
      BY <2>1, <3>1, Parts1, Parts2, Parts3, Parts4, Parts5 DEF MadeLast
  <2> QED
    BY <1>6, Parts6, <2>1
<1>7. CASE k = 7
  <2>1. ASSUME o \in {<<"tags", "itself">>}
        PROVE  MadeLast(1, 6, o)
    <3>1. (1 + 1)..6 = {2, 3, 4, 5, 6}
      OBVIOUS
    <3> QED
      BY <2>1, <3>1, Parts1, Parts2, Parts3, Parts4, Parts5, Parts6 DEF MadeLast
  <2> QED
    BY <1>7, Parts7, <2>1
<1>8. CASE k = 8
  <2>1. ASSUME o \in {<<"taggables", "type">>}
        PROVE  MadeLast(1, 7, o)
    <3>1. (1 + 1)..7 = {2, 3, 4, 5, 6, 7}
      OBVIOUS
    <3> QED
      BY <2>1, <3>1, Parts1, Parts2, Parts3, Parts4, Parts5, Parts6, Parts7 DEF MadeLast
  <2> QED
    BY <1>8, Parts8, <2>1
<1>9. CASE k = 9
  <2>1. ASSUME o \in {<<"taggables", "itself">>}
        PROVE  MadeLast(1, 8, o)
    <3>1. (1 + 1)..8 = {2, 3, 4, 5, 6, 7, 8}
      OBVIOUS
    <3> QED
      BY <2>1, <3>1, Parts1, Parts2, Parts3, Parts4, Parts5, Parts6, Parts7, Parts8 DEF MadeLast
  <2> QED
    BY <1>9, Parts9, <2>1
<1>10. CASE k = 10
  <2>1. ASSUME o \in ({"taggings"} \X {"id", "pkey"})
        PROVE  MadeLast(1, 9, o)
    <3>1. (1 + 1)..9 = {2, 3, 4, 5, 6, 7, 8, 9}
      OBVIOUS
    <3> QED
      BY <2>1, <3>1, Parts1, Parts2, Parts3, Parts4, Parts5, Parts6, Parts7, Parts8, Parts9
         DEF MadeLast
  <2> QED
    BY <1>10, Parts10, <2>1
<1>11. CASE k = 11
  <2>1. ASSUME o \in {<<"bookmarks", "itself">>}
        PROVE  MadeLast(1, 10, o)
    <3>1. (1 + 1)..10 = {2, 3, 4, 5, 6, 7, 8, 9, 10}
      OBVIOUS
    <3> QED
      BY <2>1, <3>1, Parts1, Parts2, Parts3, Parts4, Parts5, Parts6, Parts7, Parts8, Parts9,
         Parts10 DEF MadeLast
  <2> QED
    BY <1>11, Parts11, <2>1
<1>12. CASE k = 12
  <2>1. ASSUME o \in ({"taggings"} \X {"taggable_id", "tag_id"})
                     \cup {<<"tag_names", "tag_id">>} \cup {<<"tags", "owner_id">>}
        PROVE  MadeLast(1, 11, o)
    <3>1. (1 + 1)..11 = {2, 3, 4, 5, 6, 7, 8, 9, 10, 11}
      OBVIOUS
    <3> QED
      BY <2>1, <3>1, Parts1, Parts2, Parts3, Parts4, Parts5, Parts6, Parts7, Parts8, Parts9,
         Parts10, Parts11 DEF MadeLast
  <2>2. ASSUME o \in {<<"taggables", "owner_id">>}
        PROVE  MadeLast(3, 11, o)
    <3>1. (3 + 1)..11 = {4, 5, 6, 7, 8, 9, 10, 11}
      OBVIOUS
    <3> QED
      BY <2>2, <3>1, Parts3, Parts4, Parts5, Parts6, Parts7, Parts8, Parts9, Parts10,
         Parts11 DEF MadeLast
  <2>3. ASSUME o \in {<<"taggables", "type">>}
        PROVE  MadeLast(8, 11, o)
    <3>1. (8 + 1)..11 = {9, 10, 11}
      OBVIOUS
    <3> QED
      BY <2>3, <3>1, Parts8, Parts9, Parts10, Parts11 DEF MadeLast
  <2>4. ASSUME o \in {<<"tags", "parent_id">>}
        PROVE  MadeLast(2, 11, o)
    <3>1. (2 + 1)..11 = {3, 4, 5, 6, 7, 8, 9, 10, 11}
      OBVIOUS
    <3> QED
      BY <2>4, <3>1, Parts2, Parts3, Parts4, Parts5, Parts6, Parts7, Parts8, Parts9,
         Parts10, Parts11 DEF MadeLast
  <2> QED
    BY <1>12, Parts12, <2>1, <2>2, <2>3, <2>4
<1>13. CASE k = 13
  <2>1. ASSUME o \in {<<"tag_names", "itself">>}
        PROVE  MadeLast(1, 12, o)
    <3>1. (1 + 1)..12 = {2, 3, 4, 5, 6, 7, 8, 9, 10, 11, 12}
      OBVIOUS
    <3> QED
      BY <2>1, <3>1, Parts1, Parts2, Parts3, Parts4, Parts5, Parts6, Parts7, Parts8, Parts9,
         Parts10, Parts11, Parts12 DEF MadeLast
  <2> QED
    BY <1>13, Parts13, <2>1
<1>14. CASE k = 14
  BY <1>14, Parts14
<1>15. CASE k = 15
  BY <1>15, Parts15
<1>16. CASE k = 16
  <2>1. ASSUME o \in {<<"tags", "itself">>}
        PROVE  MadeLast(1, 15, o)
    <3>1. (1 + 1)..15 = {2, 3, 4, 5, 6, 7, 8, 9, 10, 11, 12, 13, 14, 15}
      OBVIOUS
    <3> QED
      BY <2>1, <3>1, Parts1, Parts2, Parts3, Parts4, Parts5, Parts6, Parts7, Parts8, Parts9,
         Parts10, Parts11, Parts12, Parts13, Parts14, Parts15 DEF MadeLast
  <2> QED
    BY <1>16, Parts16, <2>1
<1>17. CASE k = 17
  <2>1. ASSUME o \in {<<"users", "itself">>}
        PROVE  MadeLast(1, 16, o)
    <3>1. (1 + 1)..16 = {2, 3, 4, 5, 6, 7, 8, 9, 10, 11, 12, 13, 14, 15, 16}
      OBVIOUS
    <3> QED
      BY <2>1, <3>1, Parts1, Parts2, Parts3, Parts4, Parts5, Parts6, Parts7, Parts8, Parts9,
         Parts10, Parts11, Parts12, Parts13, Parts14, Parts15, Parts16 DEF MadeLast
  <2> QED
    BY <1>17, Parts17, <2>1
<1>18. CASE k = 18
  <2>1. ASSUME o \in {<<"users", "itself">>}
        PROVE  MadeLast(1, 17, o)
    <3>1. (1 + 1)..17 = {2, 3, 4, 5, 6, 7, 8, 9, 10, 11, 12, 13, 14, 15, 16, 17}
      OBVIOUS
    <3> QED
      BY <2>1, <3>1, Parts1, Parts2, Parts3, Parts4, Parts5, Parts6, Parts7, Parts8, Parts9,
         Parts10, Parts11, Parts12, Parts13, Parts14, Parts15, Parts16, Parts17 DEF MadeLast
  <2> QED
    BY <1>18, Parts18, <2>1
<1>19. CASE k = 19
  <2>1. ASSUME o \in {<<"access_tokens", "itself">>}
        PROVE  MadeLast(17, 18, o)
    <3>1. (17 + 1)..18 = {18}
      OBVIOUS
    <3> QED
      BY <2>1, <3>1, Parts17, Parts18 DEF MadeLast
  <2> QED
    BY <1>19, Parts19, <2>1
<1>20. CASE k = 20
  <2>1. ASSUME o \in {<<"users", "itself">>}
        PROVE  MadeLast(1, 19, o)
    <3>1. (1 + 1)..19 = {2, 3, 4, 5, 6, 7, 8, 9, 10, 11, 12, 13, 14, 15, 16, 17, 18, 19}
      OBVIOUS
    <3> QED
      BY <2>1, <3>1, Parts1, Parts2, Parts3, Parts4, Parts5, Parts6, Parts7, Parts8, Parts9,
         Parts10, Parts11, Parts12, Parts13, Parts14, Parts15, Parts16, Parts17, Parts18,
         Parts19 DEF MadeLast
  <2> QED
    BY <1>20, Parts20, <2>1
<1> QED
  BY TwentyMigrations, <1>1, <1>2, <1>3, <1>4, <1>5, <1>6, <1>7, <1>8, <1>9, <1>10, <1>11,
     <1>12, <1>13, <1>14, <1>15, <1>16, <1>17, <1>18, <1>19, <1>20

\* No migration drops a whole table, type or function.
LEMMA DropsNoTable ==
  ASSUME NEW k \in Ids, NEW o \in Migrations[k].drop
  PROVE  o[2] # "itself"
BY TwentyMigrations, Parts1, Parts2, Parts3, Parts4, Parts5, Parts6, Parts7, Parts8, Parts9,
   Parts10, Parts11, Parts12, Parts13, Parts14, Parts15, Parts16, Parts17, Parts18, Parts19,
   Parts20

\* What a migration keeps, it made, except the two that run once because of what
\* they drop; the others that run once created it.
LEMMA Keeps ==
  ASSUME NEW k \in Ids
  PROVE  /\ Kept(k) # {}
         /\ k \in {5, 10} => Kept(k) = Migrations[k].drop
         /\ k \notin {5, 10} => Kept(k) \subseteq Made(Migrations[k])
         /\ k \notin {5, 10} \cup Again => Kept(k) \subseteq DOMAIN Migrations[k].create
         /\ k \in Again => /\ Kept(k) = Made(Migrations[k]) /\ Migrations[k].drop = {}
                           /\ DOMAIN Migrations[k].create = {}
         /\ Made(Migrations[k]) \cap Migrations[k].drop = {}

<1>1. k \in {5, 10} => Kept(k) = Migrations[k].drop
  BY DEF Kept
<1>2. k \in Again => Kept(k) = Made(Migrations[k])
  BY DEF Kept, Again
<1>3. k \notin {5, 10} \cup Again => Kept(k) \subseteq DOMAIN Migrations[k].create
  <2>1. CASE k = 1
    BY <2>1, KeptIs, Parts1
  <2> QED
    BY <2>1 DEF Kept
<1>4. DOMAIN Migrations[k].create \subseteq Made(Migrations[k])
  BY DEF Made
<1>5. k \in Again => Migrations[k].drop = {} /\ DOMAIN Migrations[k].create = {}
  BY Parts2, Parts4, Parts12, Parts15 DEF Again
<1>6. Kept(k) # {}
  <2>1. CASE k = 1
    <3>1. <<"users", "itself">> \in Kept(1)
      BY KeptIs
    <3> QED
      BY <2>1, <3>1
  <2>2. CASE k = 2
    <3>1. <<"tags", "parent_id">> \in Kept(2)
      BY KeptIs
    <3> QED
      BY <2>2, <3>1
  <2>3. CASE k = 3
    <3>1. <<"taggables", "owner_id">> \in Kept(3)
      BY KeptIs
    <3> QED
      BY <2>3, <3>1
  <2>4. CASE k = 4
    <3>1. <<"tags", "parent_id_fkey">> \in Kept(4)
      BY KeptIs
    <3> QED
      BY <2>4, <3>1
  <2>5. CASE k = 5
    <3>1. <<"tag_names", "id">> \in Kept(5)
      BY KeptIs
    <3> QED
      BY <2>5, <3>1
  <2>6. CASE k = 6
    <3>1. <<"tags", "descr">> \in Kept(6)
      BY KeptIs
    <3> QED
      BY <2>6, <3>1
  <2>7. CASE k = 7
    <3>1. <<"tags", "check_dup_null">> \in Kept(7)
      BY KeptIs
    <3> QED
      BY <2>7, <3>1
  <2>8. CASE k = 8
    <3>1. <<"taggable_type", "itself">> \in Kept(8)
      BY KeptIs
    <3> QED
      BY <2>8, <3>1
  <2>9. CASE k = 9
    <3>1. <<"taggables", "created_ts">> \in Kept(9)
      BY KeptIs
    <3> QED
      BY <2>9, <3>1
  <2>10. CASE k = 10
    <3>1. <<"taggings", "id">> \in Kept(10)
      BY KeptIs
    <3> QED
      BY <2>10, <3>1
  <2>11. CASE k = 11
    <3>1. <<"bookmarks", "title">> \in Kept(11)
      BY KeptIs
    <3> QED
      BY <2>11, <3>1
  <2>12. CASE k = 12
    <3>1. <<"taggings", "taggable_id_idx">> \in Kept(12)
      BY KeptIs
    <3> QED
      BY <2>12, <3>1
  <2>13. CASE k = 13
    <3>1. <<"tag_names", "primary">> \in Kept(13)
      BY KeptIs
    <3> QED
      BY <2>13, <3>1
  <2>14. CASE k = 14
    <3>1. <<"gm_tag_brief", "itself">> \in Kept(14)
      BY KeptIs
    <3> QED
      BY <2>14, <3>1
  <2>15. CASE k = 15
    <3>1. <<"check_dup_null", "itself">> \in Kept(15)
      BY KeptIs
    <3> QED
      BY <2>15, <3>1
  <2>16. CASE k = 16
    <3>1. <<"tags", "children_cnt">> \in Kept(16)
      BY KeptIs
    <3> QED
      BY <2>16, <3>1
  <2>17. CASE k = 17
    <3>1. <<"access_tokens", "itself">> \in Kept(17)
      BY KeptIs
    <3> QED
      BY <2>17, <3>1
  <2>18. CASE k = 18
    <3>1. <<"google_auth", "itself">> \in Kept(18)
      BY KeptIs
    <3> QED
      BY <2>18, <3>1
  <2>19. CASE k = 19
    <3>1. <<"access_tokens", "descr">> \in Kept(19)
      BY KeptIs
    <3> QED
      BY <2>19, <3>1
  <2>20. CASE k = 20
    <3>1. <<"users", "username_unique">> \in Kept(20)
      BY KeptIs
    <3> QED
      BY <2>20, <3>1
  <2> QED
    BY TwentyMigrations, <2>1, <2>2, <2>3, <2>4, <2>5, <2>6, <2>7, <2>8, <2>9, <2>10, <2>11,
       <2>12, <2>13, <2>14, <2>15, <2>16, <2>17, <2>18, <2>19, <2>20
<1>7. Made(Migrations[k]) \cap Migrations[k].drop = {}
  <2>1. CASE k = 1
    BY <2>1, Parts1
  <2>2. CASE k = 2
    BY <2>2, Parts2
  <2>3. CASE k = 3
    BY <2>3, Parts3
  <2>4. CASE k = 4
    BY <2>4, Parts4
  <2>5. CASE k = 5
    BY <2>5, Parts5
  <2>6. CASE k = 6
    BY <2>6, Parts6
  <2>7. CASE k = 7
    BY <2>7, Parts7
  <2>8. CASE k = 8
    BY <2>8, Parts8
  <2>9. CASE k = 9
    BY <2>9, Parts9
  <2>10. CASE k = 10
    BY <2>10, Parts10
  <2>11. CASE k = 11
    BY <2>11, Parts11
  <2>12. CASE k = 12
    BY <2>12, Parts12
  <2>13. CASE k = 13
    BY <2>13, Parts13
  <2>14. CASE k = 14
    BY <2>14, Parts14
  <2>15. CASE k = 15
    BY <2>15, Parts15
  <2>16. CASE k = 16
    BY <2>16, Parts16
  <2>17. CASE k = 17
    BY <2>17, Parts17
  <2>18. CASE k = 18
    BY <2>18, Parts18
  <2>19. CASE k = 19
    BY <2>19, Parts19
  <2>20. CASE k = 20
    BY <2>20, Parts20
  <2> QED
    BY TwentyMigrations, <2>1, <2>2, <2>3, <2>4, <2>5, <2>6, <2>7, <2>8, <2>9, <2>10, <2>11,
       <2>12, <2>13, <2>14, <2>15, <2>16, <2>17, <2>18, <2>19, <2>20
<1> QED
  BY <1>1, <1>2, <1>3, <1>4, <1>5, <1>6, <1>7

\* The schema s after the first a migrations.
SchemaInv(a, s) ==
  /\ s = [o \in DOMAIN s |-> s[o]]
  /\ \A o : o \in DOMAIN s <=> \E i \in 1..a : MadeLast(i, a, o)
  /\ \A i \in 1..a : \A o : MadeLast(i, a, o) => s[o] = New(Migrations[i])[o]

\* After has what m makes, as m makes it, and what it leaves, as that was.
LEMMA AfterHas ==
  ASSUME NEW m, NEW s
  PROVE  DOMAIN After(m, s) = Made(m) \cup (DOMAIN s \ m.drop)
BY DEF After, Made, ++

LEMMA AfterMakes ==
  ASSUME NEW m, NEW s, NEW o \in Made(m)
  PROVE  After(m, s)[o] = New(m)[o]
BY DEF After, Made, New, ++

LEMMA AfterLeaves ==
  ASSUME NEW m, NEW s, NEW o \in DOMAIN s \ m.drop, o \notin Made(m)
  PROVE  After(m, s)[o] = s[o]
BY DEF After, Made, ++

LEMMA AfterIsFunction ==
  ASSUME NEW m, NEW s
  PROVE  After(m, s) = [o \in DOMAIN After(m, s) |-> After(m, s)[o]]
BY DEF After, ++

LEMMA NextSchema ==
  ASSUME NEW a \in 0..19, NEW s, SchemaInv(a, s)
  PROVE  SchemaInv(a + 1, After(Migrations[a + 1], s))
<1> DEFINE k == a + 1
           m == Migrations[k]
           t == After(m, s)
<1>1. /\ t = [o \in DOMAIN t |-> t[o]]
      /\ DOMAIN t = Made(m) \cup (DOMAIN s \ m.drop)
      /\ \A o \in Made(m) : t[o] = New(m)[o]
      /\ \A o \in DOMAIN s \ m.drop : o \notin Made(m) => t[o] = s[o]
  <2>1. t = [o \in DOMAIN t |-> t[o]]
    BY AfterIsFunction
  <2>2. DOMAIN t = Made(m) \cup (DOMAIN s \ m.drop)
    BY AfterHas
  <2>3. \A o \in Made(m) : t[o] = New(m)[o]
    BY AfterMakes
  <2>4. \A o \in DOMAIN s \ m.drop : o \notin Made(m) => t[o] = s[o]
    BY AfterLeaves
  <2> QED
    BY <2>1, <2>2, <2>3, <2>4, Zenon
<1>2. \A o : MadeLast(k, k, o) <=> o \in Made(m)
  <2>1. (k + 1)..k = {}
    OBVIOUS
  <2> HIDE DEF k
  <2> QED
    BY <2>1 DEF MadeLast
<1>3. ASSUME NEW i \in 1..a, NEW o
      PROVE  MadeLast(i, k, o) <=> MadeLast(i, a, o) /\ o \notin Made(m) \cup m.drop
  <2>1. (i + 1)..k = ((i + 1)..a) \cup {k}
    OBVIOUS
  <2> QED
    BY <2>1 DEF MadeLast
<1>4. 1..k = (1..a) \cup {k}
  OBVIOUS
<1> HIDE DEF k, m, t
<1>5. ASSUME NEW o PROVE o \in DOMAIN t <=> \E i \in 1..k : MadeLast(i, k, o)
  <2>1. CASE o \in Made(m)
    BY <1>1, <1>2, <1>4, <2>1
  <2>2. CASE o \notin Made(m)
    <3>1. o \in DOMAIN t <=> o \in DOMAIN s /\ o \notin m.drop
      BY <1>1, <2>2
    <3>2. o \in DOMAIN s <=> \E i \in 1..a : MadeLast(i, a, o)
      BY DEF SchemaInv
    <3>3. (\E i \in 1..k : MadeLast(i, k, o)) <=> \E i \in 1..a : MadeLast(i, k, o)
      BY <1>2, <1>4, <2>2
    <3>4. (\E i \in 1..a : MadeLast(i, k, o)) <=>
            \E i \in 1..a : MadeLast(i, a, o) /\ o \notin m.drop
      BY <1>3, <2>2
    <3> QED
      BY <3>1, <3>2, <3>3, <3>4
  <2> QED
    BY <2>1, <2>2
<1>6. ASSUME NEW i \in 1..k, NEW o, MadeLast(i, k, o) PROVE t[o] = New(Migrations[i])[o]
  <2>1. CASE i = k
    BY <1>1, <1>2, <1>6, <2>1 DEF m
  <2>2. CASE i \in 1..a
    <3>1. MadeLast(i, a, o) /\ o \notin Made(m) \cup m.drop
      BY <1>3, <1>6, <2>2
    <3>2. o \in DOMAIN s /\ s[o] = New(Migrations[i])[o]
      BY <2>2, <3>1 DEF SchemaInv
    <3> QED
      BY <1>1, <3>1, <3>2
  <2> QED
    BY <1>4, <2>1, <2>2
<1>7. SchemaInv(k, t)
  BY <1>1, <1>5, <1>6 DEF SchemaInv
<1> QED
  BY <1>7 DEF k, m, t

\* Of what a migration keeps, the last that made it is this migration.
LEMMA KeptIsLast ==
  ASSUME NEW a \in 0..20, NEW k \in 1..a, NEW o \in Kept(k), o \in Made(Migrations[k])
  PROVE  MadeLast(k, a, o)
<1>1. ASSUME NEW j \in (k + 1)..a PROVE o \notin Made(Migrations[j]) \cup Migrations[j].drop
  <2>1. j \in Ids /\ k \in Ids /\ k < j
    BY TwentyMigrations
  <2> QED
    BY <2>1, KeptStays
<1> QED
  BY <1>1 DEF MadeLast

\* A migration that the database has got, and that runs again, changes nothing.
LEMMA RunsAgain ==
  ASSUME NEW a \in 0..20, NEW s, SchemaInv(a, s), NEW k \in 1..a, Fits(Migrations[k], s)
  PROVE  After(Migrations[k], s) = s
<1> DEFINE m == Migrations[k]
<1>1. k \in Ids
  BY TwentyMigrations
<1>2. /\ DOMAIN m.create \cap DOMAIN s = {}
      /\ m.drop \subseteq DOMAIN s
  BY DEF Fits
<1> HIDE DEF m
<1>3. k \notin {5, 10}
  <2> SUFFICES ASSUME k \in {5, 10} PROVE FALSE
    OBVIOUS
  <2>1. PICK o : o \in Kept(k) /\ o \in m.drop
    BY <1>1, Keeps DEF m
  <2>2. PICK i \in 1..a : MadeLast(i, a, o)
    BY <1>2, <2>1 DEF SchemaInv
  <2>3. o \in Made(Migrations[i]) /\ \A j \in (i + 1)..a : o \notin Migrations[j].drop
    BY <2>2 DEF MadeLast
  <2>4. CASE i < k
    <3>1. k \in (i + 1)..a
      BY <2>4
    <3> QED
      BY <2>1, <2>3, <3>1 DEF m
  <2>5. CASE i = k
    BY <1>1, <2>1, <2>3, <2>5, Keeps DEF m
  <2>6. CASE i > k
    <3>1. i \in Ids /\ k < i
      BY <2>6, TwentyMigrations
    <3> QED
      BY <1>1, <2>1, <2>3, <3>1, KeptStays
  <2> QED
    BY <2>4, <2>5, <2>6
<1>4. k \in Again
  <2> SUFFICES ASSUME k \notin Again PROVE FALSE
    OBVIOUS
  <2>1. PICK o : o \in Kept(k) /\ o \in DOMAIN m.create /\ o \in Made(m)
    BY <1>1, <1>3, Keeps DEF m
  <2>2. MadeLast(k, a, o)
    BY <2>1, KeptIsLast DEF m
  <2>3. o \in DOMAIN s
    BY <2>2 DEF SchemaInv
  <2> QED
    BY <1>2, <2>1, <2>3
<1>5. Kept(k) = Made(m) /\ m.drop = {}
  BY <1>1, <1>4, Keeps DEF m
<1>6. ASSUME NEW o \in Made(m) PROVE o \in DOMAIN s /\ s[o] = New(m)[o]
  <2>1. MadeLast(k, a, o)
    BY <1>5, KeptIsLast DEF m
  <2> QED
    BY <2>1 DEF SchemaInv, m
<1> DEFINE t == After(m, s)
<1>7. /\ t = [o \in DOMAIN t |-> t[o]]
      /\ DOMAIN t = Made(m) \cup (DOMAIN s \ m.drop)
      /\ \A o \in Made(m) : t[o] = New(m)[o]
      /\ \A o \in DOMAIN s \ m.drop : o \notin Made(m) => t[o] = s[o]
  <2>1. t = [o \in DOMAIN t |-> t[o]]
    BY AfterIsFunction
  <2>2. DOMAIN t = Made(m) \cup (DOMAIN s \ m.drop)
    BY AfterHas
  <2>3. \A o \in Made(m) : t[o] = New(m)[o]
    BY AfterMakes
  <2>4. \A o \in DOMAIN s \ m.drop : o \notin Made(m) => t[o] = s[o]
    BY AfterLeaves
  <2> QED
    BY <2>1, <2>2, <2>3, <2>4, Zenon
<1> HIDE DEF t
<1>8. DOMAIN t = DOMAIN s /\ \A o \in DOMAIN s : t[o] = s[o]
  BY <1>5, <1>6, <1>7
<1>9. s = [o \in DOMAIN s |-> s[o]]
  BY DEF SchemaInv
<1>10. t = s
  <2>1. [o \in DOMAIN t |-> t[o]] = [o \in DOMAIN s |-> s[o]]
    BY <1>8
  <2> QED
    BY <1>7, <1>9, <2>1, Zenon
<1> QED
  BY <1>10 DEF t, m

\* The next migration finds what it needs, and nothing in its way.
LEMMA NextFits ==
  ASSUME NEW a \in 0..19, NEW s, SchemaInv(a, s)
  PROVE  Fits(Migrations[a + 1], s)
<1> DEFINE k == a + 1
           m == Migrations[k]
<1>1. k \in Ids
  BY TwentyMigrations
<1>2. Needs(m) \subseteq DOMAIN s
  <2> SUFFICES ASSUME NEW o \in Needs(m) PROVE o \in DOMAIN s
    OBVIOUS
  <2>1. k - 1 = a
    OBVIOUS
  <2>2. \E i \in 1..a : MadeLast(i, a, o)
    BY <1>1, <2>1, NeedsAreMet
  <2> QED
    BY <2>2 DEF SchemaInv
<1>3. ASSUME NEW o \in DOMAIN m.create, o \in DOMAIN s PROVE FALSE
  <2>1. PICK i \in 1..a : o \in Made(Migrations[i])
    BY <1>3 DEF SchemaInv, MadeLast
  <2>2. i \in Ids /\ i < k
    BY TwentyMigrations
  <2> QED
    BY <1>1, <1>3, <2>1, <2>2, CreatesNew
<1>4. NoDangling(m, s)
  BY <1>1, DropsNoTable DEF NoDangling
<1> QED
  BY <1>2, <1>3, <1>4 DEF Fits, Needs

\* SchemaAt, whose definition is recursive, is what its equation says.
LEMMA SchemaAtIs ==
  /\ SchemaAt[0] = Nothing
  /\ \A k \in Ids : SchemaAt[k] = After(Migrations[k], SchemaAt[k - 1])
<1> DEFINE Next1(f, k) == IF k = 0 THEN Nothing ELSE After(Migrations[k], f[k - 1])
           Chain(f, n) == f = [k \in 0..n |-> Next1(f, k)]
           Some(n) == \E f : Chain(f, n)
           Less == {ss \in Nat \X Nat : ss[1] < ss[2]}
<1>1. Some(0)
  <2> DEFINE f == [k \in 0..0 |-> Nothing]
  <2>1. Chain(f, 0)
    OBVIOUS
  <2> QED
    BY <2>1
<1>2. ASSUME NEW n \in Nat, Some(n) PROVE Some(n + 1)
  <2>1. PICK f : Chain(f, n)
    BY <1>2
  <2> DEFINE g == [k \in 0..(n + 1) |-> IF k = n + 1 THEN After(Migrations[k], f[n]) ELSE f[k]]
  <2>2. ASSUME NEW k \in 0..(n + 1) PROVE g[k] = Next1(g, k)
    <3>1. CASE k = n + 1
      <4>1. g[k] = After(Migrations[k], f[n]) /\ g[k - 1] = f[n] /\ k # 0
        BY <3>1
      <4>2. k - 1 = n
        BY <3>1
      <4> QED
        BY <4>1
    <3>2. CASE k \in 0..n /\ k # 0
      <4>1. g[k] = f[k] /\ g[k - 1] = f[k - 1]
        BY <3>2
      <4>2. f[k] = After(Migrations[k], f[k - 1])
        BY <2>1, <3>2
      <4> QED
        BY <3>2, <4>1, <4>2
    <3>3. CASE k = 0
      <4>1. g[k] = f[k] /\ f[k] = Nothing
        BY <2>1, <3>3
      <4> QED
        BY <3>3, <4>1
    <3> QED
      BY <3>1, <3>2, <3>3
  <2>3. Chain(g, n + 1)
    <3>1. g = [k \in 0..(n + 1) |-> g[k]]
      OBVIOUS
    <3>2. [k \in 0..(n + 1) |-> g[k]] = [k \in 0..(n + 1) |-> Next1(g, k)]
      BY <2>2
    <3> QED
      BY <3>1, <3>2, Zenon
  <2> HIDE DEF g
  <2> QED
    BY <2>3
<1> HIDE DEF Some
<1>3. \A n \in Nat : Some(n)
  <2> SUFFICES ASSUME {n \in Nat : ~Some(n)} # {} PROVE FALSE
    OBVIOUS
  <2>1. IsWellFoundedOn(Less, Nat)
    BY NatLessThanWellFounded DEF OpToRel
  <2>2. PICK m \in {n \in Nat : ~Some(n)} : \A k \in {n \in Nat : ~Some(n)} : <<k, m>> \notin Less
    <3> HIDE DEF Less
    <3> QED
      BY <2>1, WFMin
  <2>3. m # 0
    BY <1>1, <2>2
  <2>4. m - 1 \in Nat /\ m - 1 < m
    BY <2>3
  <2>5. <<m - 1, m>> \in Less
    BY <2>4
  <2>6. Some(m - 1)
    BY <2>2, <2>4, <2>5
  <2>7. m - 1 + 1 = m
    BY <2>2
  <2> QED
    BY <1>2, <2>2, <2>4, <2>6, <2>7
<1>4. {0} \cup Ids = 0..20
  BY TwentyMigrations
<1>5. PICK f : f = [k \in 0..20 |-> Next1(f, k)]
  BY <1>3 DEF Some
<1>6. SchemaAt = [k \in 0..20 |-> Next1(SchemaAt, k)]
  <2>1. SchemaAt = CHOOSE g : g = [k \in {0} \cup Ids |-> Next1(g, k)]
    BY DEF SchemaAt
  <2> HIDE DEF Next1
  <2>2. SchemaAt = CHOOSE g : g = [k \in 0..20 |-> Next1(g, k)]
    BY <1>4, <2>1, Zenon
  <2> QED
    BY <1>5, <2>2, Zenon
<1>7. \A k \in 0..20 : SchemaAt[k] = Next1(SchemaAt, k)
  <2> HIDE DEF Next1
  <2> QED
    BY <1>6, Zenon
<1> QED
  BY <1>7, TwentyMigrations

-----------------------------------------------------------------------------
(* The servers' migrations on the schema.                                  *)

\* Servers that have read the saved number work on migrations that there are.
NumbersInv ==
  /\ saved >= NoTable
  /\ \A p \in Server : pc[p] \in {"read", "apply", "save", "serving"} => saved >= 0
  /\ \A p \in Server : Alive(p) => version[p] \in Ids
  /\ \A p \in Server : pc[p] \in {"apply", "save"} => next[p] \in Ids

LEMMA ContinueKeepsNumbers ==
  ASSUME TypeInv, NumbersInv, NEW p \in Server, Alive(p), NEW k \in Int, 0 <= k, k <= version[p],
         Continue(p, k), saved' = k
  PROVE  NumbersInv'
<1>1. version[p] \in 1..20
  BY TwentyMigrations DEF NumbersInv
<1>2. \A q \in Server \ {p} : pc'[q] = pc[q] /\ next'[q] = next[q]
  BY DEF Continue, Go, Set, TypeInv
<1>3. \/ pc'[p] = "serving"
      \/ pc'[p] = "apply" /\ next'[p] = k + 1 /\ k # version[p]
  BY DEF Continue, Go, Set, TypeInv
<1>4. version' = version
  BY DEF Continue
<1>5. pc'[p] = "apply" => next'[p] \in Ids
  BY <1>1, <1>3, TwentyMigrations
<1> QED
  BY <1>2, <1>3, <1>4, <1>5 DEF NumbersInv, Alive, Migrating, NoTable

LEMMA EndKeepsNumbers ==
  ASSUME TypeInv, NumbersInv, NEW p \in Server, End(p, "down") \/ End(p, "failed"),
         UNCHANGED saved
  PROVE  NumbersInv'
<1>1. \A q \in Server \ {p} : pc'[q] = pc[q] /\ next'[q] = next[q] /\ version'[q] = version[q]
  BY DEF End, Go, Set, TypeInv
<1>2. pc'[p] \in {"down", "failed"}
  BY DEF End, Go, TypeInv
<1> QED
  BY <1>1, <1>2 DEF NumbersInv, Alive, Migrating, NoTable

LEMMA NumbersStep ==
  ASSUME IInv, VersionInv, NumbersInv, [Next]_vars
  PROVE  NumbersInv'
<1> USE DEF IInv
<1>1. ASSUME NEW p \in Server, Start(p) PROVE NumbersInv'
  <2>1. PICK v \in Version : version' = [version EXCEPT ![p] = v]
    BY <1>1 DEF Start
  <2>2. v \in Ids
    BY VersionAssumption
  <2>3. \A q \in Server \ {p} : pc'[q] = pc[q] /\ version'[q] = version[q]
    BY <1>1, <2>1 DEF Start, TypeInv, Go
  <2>4. pc'[p] = "initialize" /\ version'[p] = v /\ UNCHANGED <<saved, next>>
    BY <1>1, <2>1 DEF Start, TypeInv, Go
  <2> QED
    BY <2>2, <2>3, <2>4 DEF NumbersInv, Alive, Migrating
<1>2. ASSUME NEW p \in Server, Initialize(p) PROVE NumbersInv'
  <2>1. /\ \A q \in Server \ {p} : pc'[q] = pc[q]
        /\ pc'[p] = "read" /\ pc[p] = "initialize" /\ UNCHANGED <<version, next>>
    BY <1>2 DEF Initialize, TypeInv, Go
  <2>2. saved' \in Int /\ saved' >= 0 /\ saved' >= NoTable
    BY <1>2 DEF Initialize, NumbersInv, NoTable, TypeInv
  <2> QED
    BY <2>1, <2>2 DEF NumbersInv, Alive, Migrating, NoTable
<1>3. ASSUME NEW p \in Server, GetCurrentMigrationID(p) PROVE NumbersInv'
  <2>1. CASE saved > version[p]
    BY <1>3, <2>1, EndKeepsNumbers DEF GetCurrentMigrationID
  <2>2. CASE ~(saved > version[p])
    <3>1. pc[p] = "read" /\ Continue(p, saved) /\ saved' = saved
      BY <1>3, <2>2 DEF GetCurrentMigrationID
    <3>2. Alive(p) /\ saved \in Int /\ saved >= 0 /\ version[p] \in Int /\ saved <= version[p]
      BY <2>2, <3>1 DEF Alive, Migrating, TypeInv, NumbersInv
    <3> QED
      BY <3>1, <3>2, ContinueKeepsNumbers
  <2> QED
    BY <2>1, <2>2
<1>4. ASSUME NEW p \in Server, Apply(p) PROVE NumbersInv'
  <2>1. CASE Succeeds(next[p])
    <3>1. /\ pc' = [pc EXCEPT ![p] = "save"] /\ pc[p] = "apply"
          /\ UNCHANGED <<saved, version, next>>
      BY <1>4, <2>1 DEF Apply, Go
    <3> QED
      BY <3>1 DEF TypeInv, NumbersInv, Alive, Migrating
  <2>2. CASE ~Succeeds(next[p])
    BY <1>4, <2>2, EndKeepsNumbers DEF Apply
  <2> QED
    BY <2>1, <2>2
<1>5. ASSUME NEW p \in Server, SetCurrentMigrationID(p) PROVE NumbersInv'
  <2>1. pc[p] = "save" /\ Continue(p, next[p]) /\ saved' = next[p]
    BY <1>5 DEF SetCurrentMigrationID, SavedNumber
  <2>2. next[p] \in Ids /\ next[p] <= version[p] /\ Alive(p)
    BY <2>1 DEF VersionInv, NumbersInv, Alive, Migrating
  <2>3. next[p] \in Int /\ 0 <= next[p]
    BY <2>2, TwentyMigrations
  <2> QED
    BY <2>1, <2>2, <2>3, ContinueKeepsNumbers
<1>6. ASSUME NEW p \in Server, Stop(p) PROVE NumbersInv'
  BY <1>6, EndKeepsNumbers DEF Stop
<1>7. ASSUME NEW p \in Server, UseBookmarks(p) \/ UseTags(p) PROVE NumbersInv'
  BY <1>7 DEF UseBookmarks, UseTags, NumbersInv, Alive
<1>8. CASE UNCHANGED vars
  BY <1>8 DEF vars, NumbersInv, Alive
<1> QED
  BY <1>1, <1>2, <1>3, <1>4, <1>5, <1>6, <1>7, <1>8 DEF Next, Migrate

\* What the schema is, and that each object is as the last migration made it.
WholeInv ==
  /\ applied \in 0..20
  /\ schema = SchemaAt[applied]
  /\ SchemaInv(applied, schema)
  /\ indexes \in Nat
  /\ indexes > 0 <=> applied >= 12

AllInv == IInv /\ VersionInv /\ NumbersInv /\ WholeInv

\* A server's migration is one the database has got, or the next one.
LEMMA AppliesNext ==
  ASSUME AllInv, NEW p \in Server, pc[p] = "apply"
  PROVE  /\ next[p] \in Ids
         /\ \/ next[p] \in 1..applied
            \/ next[p] = applied + 1 /\ applied \in 0..19
<1>1. next[p] \in 1..20 /\ applied \in 0..20 /\ next[p] <= applied + 1
  BY TwentyMigrations DEF AllInv, IInv, SavedIsApplied, NumbersInv, WholeInv
<1> QED
  BY <1>1, TwentyMigrations

LEMMA ApplySucceeds ==
  ASSUME AllInv, NEW p \in Server, Apply(p), Succeeds(next[p])
  PROVE  \/ UNCHANGED <<schema, applied>>
         \/ /\ applied \in 0..19 /\ applied' = applied + 1 /\ next[p] = applied'
            /\ Fits(Migrations[applied'], schema)
            /\ schema' = After(Migrations[applied'], schema)
<1> DEFINE k == next[p]
<1>1. /\ pc[p] = "apply" /\ Fits(Migrations[k], schema)
      /\ schema' = After(Migrations[k], schema)
      /\ applied' = IF k > applied THEN k ELSE applied
  BY DEF Apply, Succeeds
<1>2. k \in 1..applied \/ (k = applied + 1 /\ applied \in 0..19)
  BY <1>1, AppliesNext
<1>3. applied \in 0..20 /\ SchemaInv(applied, schema)
  BY DEF AllInv, WholeInv
<1>4. CASE k \in 1..applied
  <2>1. schema' = schema
    BY <1>1, <1>3, <1>4, RunsAgain
  <2> QED
    BY <1>1, <1>3, <1>4, <2>1
<1>5. CASE k = applied + 1 /\ applied \in 0..19
  <2>1. applied' = k
    BY <1>1, <1>5
  <2> QED
    BY <1>1, <1>5, <2>1
<1> QED
  BY <1>2, <1>4, <1>5

\* Nothing but a migration that succeeds changes the schema.
LEMMA SchemaChanges ==
  ASSUME AllInv, [Next]_vars
  PROVE  \/ UNCHANGED <<schema, applied>>
         \/ /\ applied \in 0..19 /\ applied' = applied + 1
            /\ Fits(Migrations[applied'], schema)
            /\ schema' = After(Migrations[applied'], schema)
<1>1. ASSUME NEW p \in Server, Apply(p)
      PROVE  UNCHANGED <<schema, applied>> \/ Succeeds(next[p])
  BY <1>1 DEF Apply
<1>2. ASSUME NEW p \in Server,
             Start(p) \/ Initialize(p) \/ GetCurrentMigrationID(p) \/ SetCurrentMigrationID(p)
             \/ Stop(p) \/ UseBookmarks(p) \/ UseTags(p)
      PROVE  UNCHANGED <<schema, applied>>
  BY <1>2 DEF Start, Initialize, GetCurrentMigrationID, SetCurrentMigrationID, Stop,
     UseBookmarks, UseTags
<1>3. CASE UNCHANGED vars
  BY <1>3 DEF vars
<1>4. ASSUME NEW p \in Server, Apply(p)
      PROVE  \/ UNCHANGED <<schema, applied>>
             \/ /\ applied \in 0..19 /\ applied' = applied + 1
                /\ Fits(Migrations[applied'], schema)
                /\ schema' = After(Migrations[applied'], schema)
  BY <1>1, <1>4, ApplySucceeds
<1> QED
  BY <1>2, <1>3, <1>4 DEF Next, Migrate

\* Indexes are made by migration 12, when it is the next one and when it runs again.
LEMMA IndexesChange ==
  ASSUME AllInv, [Next]_vars
  PROVE  \/ UNCHANGED <<indexes, applied>>
         \/ applied' = applied + 1 /\ indexes' = IndexesAfter(applied', indexes)
         \/ /\ applied' = applied /\ applied >= 12 /\ indexes' = indexes + 1
            /\ \E p \in Server : pc[p] = "apply" /\ next[p] = 12
<1>1. ASSUME NEW p \in Server, Apply(p)
      PROVE  \/ UNCHANGED <<indexes, applied>>
             \/ applied' = applied + 1 /\ indexes' = IndexesAfter(applied', indexes)
             \/ /\ applied' = applied /\ applied >= 12 /\ indexes' = indexes + 1
                /\ pc[p] = "apply" /\ next[p] = 12
  <2>1. pc[p] = "apply" /\ applied \in 0..20
    BY <1>1 DEF Apply, AllInv, WholeInv
  <2>2. \/ UNCHANGED <<indexes, applied>>
        \/ /\ indexes' = IndexesAfter(next[p], indexes)
           /\ applied' = IF next[p] > applied THEN next[p] ELSE applied
    BY <1>1 DEF Apply
  <2>3. next[p] \in 1..applied \/ next[p] = applied + 1
    BY <2>1, AppliesNext
  <2> QED
    BY <2>1, <2>2, <2>3 DEF IndexesAfter
<1>2. ASSUME NEW p \in Server,
             Start(p) \/ Initialize(p) \/ GetCurrentMigrationID(p) \/ SetCurrentMigrationID(p)
             \/ Stop(p) \/ UseBookmarks(p) \/ UseTags(p)
      PROVE  UNCHANGED <<indexes, applied>>
  BY <1>2 DEF Start, Initialize, GetCurrentMigrationID, SetCurrentMigrationID, Stop,
     UseBookmarks, UseTags
<1>3. CASE UNCHANGED vars
  BY <1>3 DEF vars
<1> QED
  BY <1>1, <1>2, <1>3 DEF Next, Migrate

LEMMA WholeStep ==
  ASSUME AllInv, [Next]_vars
  PROVE  WholeInv'
<1>1. applied \in 0..20 /\ schema = SchemaAt[applied] /\ SchemaInv(applied, schema)
      /\ indexes \in Nat /\ (indexes > 0 <=> applied >= 12)
  BY DEF AllInv, WholeInv
<1>2. indexes' \in Nat /\ (indexes' > 0 <=> applied' >= 12)
  BY <1>1, IndexesChange DEF IndexesAfter
<1>3. CASE UNCHANGED <<schema, applied>>
  BY <1>1, <1>2, <1>3 DEF WholeInv
<1>4. CASE /\ applied \in 0..19 /\ applied' = applied + 1
           /\ schema' = After(Migrations[applied'], schema)
  <2>1. applied' \in Ids /\ applied' - 1 = applied /\ applied' \in 0..20
    BY <1>4, TwentyMigrations
  <2>2. schema' = SchemaAt[applied']
    BY <1>1, <1>4, <2>1, SchemaAtIs
  <2>3. SchemaInv(applied', schema')
    BY <1>1, <1>4, NextSchema
  <2> QED
    BY <1>2, <2>1, <2>2, <2>3 DEF WholeInv
<1> QED
  BY <1>3, <1>4, SchemaChanges

LEMMA AllInit == Init => AllInv
<1> SUFFICES ASSUME Init PROVE AllInv
  OBVIOUS
<1>1. IInv /\ VersionInv /\ NumbersInv
  BY DEF Init, IInv, TypeInv, SavedIsApplied, NoTable, VersionInv, NumbersInv, Alive, Migrating
<1>2. SchemaInv(0, Nothing)
  <2>1. DOMAIN Nothing = {} /\ Nothing = [o \in {} |-> Nothing[o]]
    BY DEF Nothing
  <2>2. 1..0 = {}
    OBVIOUS
  <2> QED
    BY <2>1, <2>2 DEF SchemaInv
<1>3. WholeInv
  BY <1>2, SchemaAtIs DEF Init, WholeInv
<1> QED
  BY <1>1, <1>3 DEF AllInv

LEMMA AllStep == AllInv /\ [Next]_vars => AllInv'
BY IInvStep, VersionStep, NumbersStep, WholeStep DEF AllInv

\* However servers that migrate at once interleave and wherever they stop, and
\* although the saved number may be behind and migrations run again (Migrate), the
\* schema is the one that the first so many migrations make, but for the indexes of
\* migration 12, of which each further run of it adds a set.
THEOREM SchemaStaysWhole == Spec => SchemaIsWhole
<1>1. ASSUME AllInv, [Next]_vars, <<schema, indexes, applied>>' # <<schema, indexes, applied>>
      PROVE  /\ schema' = SchemaAt[applied']
             /\ indexes' > 0 <=> applied' >= 12
             /\ applied' = applied =>
                  indexes' = indexes + 1 /\ \E p \in Server : pc[p] = "apply" /\ next[p] = 12
  <2>1. schema' = SchemaAt[applied'] /\ (indexes' > 0 <=> applied' >= 12)
    BY <1>1, AllStep DEF AllInv, WholeInv
  <2>2. ASSUME applied' = applied
        PROVE  indexes' = indexes + 1 /\ \E p \in Server : pc[p] = "apply" /\ next[p] = 12
    <3>1. applied \in 0..20 /\ applied' # applied + 1
      BY <1>1, <2>2 DEF AllInv, WholeInv
    <3>2. schema' = schema
      BY <1>1, <2>2, <3>1, SchemaChanges
    <3>3. indexes' # indexes
      BY <1>1, <2>2, <3>2
    <3> QED
      BY <1>1, <3>1, <3>3, IndexesChange
  <2> QED
    BY <2>1, <2>2
<1>2. AllInv /\ [Next]_vars =>
        (<<schema, indexes, applied>>' # <<schema, indexes, applied>> =>
           /\ schema' = SchemaAt[applied']
           /\ indexes' > 0 <=> applied' >= 12
           /\ applied' = applied =>
                indexes' = indexes + 1 /\ \E p \in Server : pc[p] = "apply" /\ next[p] = 12)
  BY <1>1
<1> QED
  BY <1>2, AllInit, AllStep, PTL DEF Spec, SchemaIsWhole

\* The next migration fails only because of rows: by migration 16 the trigger does
\* not count the row that is written.
LEMMA NextFails ==
  ASSUME NEW a \in 0..19, NEW s, SchemaInv(a, s), NEW r
  PROVE  ~TriggerRaises(a + 1, s, r)
<1> SUFFICES ASSUME a = 15 PROVE s[<<"check_dup_null", "itself">>] # <<"counts_all">>
  BY DEF TriggerRaises
<1>1. <<"check_dup_null", "itself">> \in Made(Migrations[15])
  BY Parts15
<1>2. MadeLast(15, 15, <<"check_dup_null", "itself">>)
  <2>1. (15 + 1)..15 = {}
    OBVIOUS
  <2> QED
    BY <1>1, <2>1 DEF MadeLast
<1>3. s[<<"check_dup_null", "itself">>] = New(Migrations[15])[<<"check_dup_null", "itself">>]
  BY <1>2 DEF SchemaInv
<1>4. Migrations[15] = FixDupNull
  BY DEF Migrations
<1>5. New(FixDupNull)[<<"check_dup_null", "itself">>] = <<"counts_others">>
  BY DEF New, FixDupNull, NoChange, Of, Object, Nothing, ++
<1>6. <<"counts_others">> # <<"counts_all">>
  OBVIOUS
<1> QED
  BY <1>3, <1>4, <1>5, <1>6

\* A migration fails only because of the rows that its keys and columns refuse, or
\* because the database has got it: none gets in the way of another, however the
\* servers interleave (initMigrations).
THEOREM MigrationsFit == Spec => FailsForAReason
<1>1. ASSUME AllInv, [Next]_vars, NEW p \in Server, pc[p] = "apply", pc'[p] = "failed"
      PROVE  next[p] <= applied \/ RefusesRows(next[p], rows)
  <2>1. Apply(p) /\ ~Succeeds(next[p])
    <3>1. ASSUME NEW q \in Server, q # p \/ ~Apply(q), Next,
                 \/ Start(q) \/ Initialize(q) \/ GetCurrentMigrationID(q) \/ Apply(q)
                 \/ SetCurrentMigrationID(q) \/ Stop(q) \/ UseBookmarks(q) \/ UseTags(q)
          PROVE  FALSE
      BY <1>1, <3>1 DEF AllInv, IInv, TypeInv, Start, Initialize, GetCurrentMigrationID,
         Apply, SetCurrentMigrationID, Stop, UseBookmarks, UseTags, Continue, Go, End,
         Alive, Migrating
    <3>2. CASE UNCHANGED vars
      BY <1>1, <3>2 DEF vars
    <3>3. Apply(p)
      BY <1>1, <3>1, <3>2 DEF Next, Migrate
    <3>4. ASSUME Succeeds(next[p]) PROVE FALSE
      BY <1>1, <3>3, <3>4 DEF Apply, Go, AllInv, IInv, TypeInv
    <3> QED
      BY <3>3, <3>4
  <2>2. CASE next[p] \in 1..applied
    BY <2>2 DEF AllInv, WholeInv
  <2>3. CASE next[p] = applied + 1 /\ applied \in 0..19
    <3>1. SchemaInv(applied, schema)
      BY <1>1 DEF AllInv, WholeInv
    <3>2. Fits(Migrations[next[p]], schema)
      BY <2>3, <3>1, NextFits
    <3>3. ~TriggerRaises(next[p], schema, rows)
      BY <2>3, <3>1, NextFails
    <3> QED
      BY <2>1, <3>2, <3>3 DEF Succeeds
  <2> QED
    BY <1>1, <2>2, <2>3, AppliesNext
<1>2. AllInv /\ [Next]_vars =>
        \A p \in Server : pc[p] = "apply" /\ pc'[p] = "failed" =>
          next[p] <= applied \/ RefusesRows(next[p], rows)
  BY <1>1
<1> QED
  BY <1>2, AllInit, AllStep, PTL DEF Spec, FailsForAReason

-----------------------------------------------------------------------------
(* The "down" functions.  One that drops what its migration created and    *)
(* makes the rest again as it was leads back; of what the dropped types    *)
(* and tables leave, nothing refers to them.                               *)

RefersTo(v, x) == v = Refers(x) \/ v = Cascades(x)

\* d undoes m, which was done to s.
Reverts(d, m, s) ==
  /\ DOMAIN m.put = {} /\ DOMAIN d.put = {}
  /\ m.drop \cap DOMAIN m.alter = {}
  /\ d.drop = DOMAIN m.create /\ DOMAIN d.create = m.drop /\ DOMAIN d.alter = DOMAIN m.alter
  /\ d.uses \subseteq DOMAIN s \ m.drop
  /\ \A o \in DOMAIN d.create : d.create[o] = s[o]
  /\ \A o \in DOMAIN d.alter : d.alter[o] = s[o]
  /\ \A o \in d.drop : o[2] = "itself" => \A c \in DOMAIN s : ~RefersTo(s[c], o[1])

LEMMA RevertsLeadBack ==
  ASSUME NEW m, NEW d, NEW s, s = [o \in DOMAIN s |-> s[o]], Fits(m, s), Reverts(d, m, s)
  PROVE  Fits(d, After(m, s)) /\ After(d, After(m, s)) = s
<1> DEFINE t == After(m, s)
           u == After(d, t)
<1>1. /\ m.drop \cup DOMAIN m.alter \subseteq DOMAIN s
      /\ DOMAIN m.create \cap DOMAIN s = {}
  BY DEF Fits
<1>2. Made(m) = DOMAIN m.create \cup DOMAIN m.alter /\ Made(d) = m.drop \cup DOMAIN m.alter
  BY DEF Made, Reverts
<1>3. \A o \in Made(d) : New(d)[o] = s[o]
  BY DEF Made, New, Reverts, ++
<1>4. DOMAIN t = Made(m) \cup (DOMAIN s \ m.drop)
  BY AfterHas
<1>5. \A o \in DOMAIN s \ m.drop : o \notin Made(m) => t[o] = s[o]
  BY AfterLeaves
<1> HIDE DEF t
<1>6. DOMAIN u = Made(d) \cup (DOMAIN t \ d.drop)
  BY AfterHas
<1>7. \A o \in Made(d) : u[o] = New(d)[o]
  BY AfterMakes
<1>8. \A o \in DOMAIN t \ d.drop : o \notin Made(d) => u[o] = t[o]
  BY AfterLeaves
<1>9. u = [o \in DOMAIN u |-> u[o]]
  BY AfterIsFunction
<1> HIDE DEF u
<1>10. d.drop = DOMAIN m.create
  BY DEF Reverts
<1>11. DOMAIN u = DOMAIN s
  BY <1>1, <1>2, <1>4, <1>6, <1>10
<1>12. ASSUME NEW o \in DOMAIN s PROVE u[o] = s[o]
  BY <1>1, <1>2, <1>3, <1>4, <1>5, <1>7, <1>8, <1>10
<1>13. [o \in DOMAIN u |-> u[o]] = [o \in DOMAIN s |-> s[o]]
  BY <1>11, <1>12
<1>14. u = s
  BY <1>9, <1>13, Zenon
<1>15. d.drop \cup DOMAIN d.alter \cup d.uses \subseteq DOMAIN t
  BY <1>2, <1>4 DEF Reverts
<1>16. DOMAIN d.create \cap DOMAIN t = {}
  <2>1. DOMAIN d.create = m.drop
    BY DEF Reverts
  <2>2. m.drop \cap DOMAIN m.alter = {}
    BY DEF Reverts
  <2> QED
    BY <1>1, <1>2, <1>4, <2>1, <2>2
<1>17. NoDangling(d, t)
  BY <1>14 DEF NoDangling, Reverts, RefersTo, u
<1> QED
  BY <1>14, <1>15, <1>16, <1>17 DEF Fits, t, u


\* What the objects are that are no keys to a dropped table and of no dropped type.
Single ==
  {"NULL", "NOT_NULL", "NOT_NULL_DEFAULT", "SERIAL", "UNIQUE", "TABLE", "ENUM", "TYPE",
   "FUNCTION", "INDEX", "id", "token", "google_user_id", "counts_all", "counts_others",
   "check_dup_null", "set_created_ts", "set_updated_ts", "users", "tags", "taggables"}
Other ==
  {<<n>> : n \in Single} \cup {<<"tag_id", "name">>, <<"taggable_id", "tag_id">>}
  \cup {Cascades(t) : t \in {"users", "tags", "taggables"}}
Droppable == {"taggable_type", "gm_tag_brief", "access_tokens", "google_auth"}

LEMMA OtherRefersNot ==
  ASSUME NEW v \in Other, NEW x \in Droppable
  PROVE  ~RefersTo(v, x)
<1>1. CASE v \in {<<n>> : n \in Single}
  <2>1. PICK n \in Single : v = <<n>>
    BY <1>1
  <2>2. n # x
    BY DEF Single, Droppable
  <2> QED
    BY <2>1, <2>2 DEF RefersTo, Refers, Cascades
<1>2. CASE v \in {<<"tag_id", "name">>, <<"taggable_id", "tag_id">>}
  BY <1>2 DEF RefersTo, Refers, Cascades, Droppable
<1>3. CASE v \in {Cascades(t) : t \in {"users", "tags", "taggables"}}
  <2>1. PICK t \in {"users", "tags", "taggables"} : v = Cascades(t)
    BY <1>3
  <2>2. t # x
    BY DEF Droppable
  <2> QED
    BY <2>1, <2>2 DEF RefersTo, Refers, Cascades
<1> QED
  BY <1>1, <1>2, <1>3 DEF Other

LEMMA OtherHas ==
  /\ Null \in Other /\ NotNull \in Other /\ Default \in Other /\ Serial \in Other
  /\ Unique \in Other
  /\ Refers("users") \in Other /\ Refers("tags") \in Other /\ Refers("taggables") \in Other
  /\ Cascades("users") \in Other /\ Cascades("tags") \in Other /\ Cascades("taggables") \in Other
  /\ \A n \in Single : <<n>> \in Other
  /\ <<"tag_id", "name">> \in Other /\ <<"taggable_id", "tag_id">> \in Other
BY DEF Other, Single, Null, NotNull, Default, Serial, Unique, Refers

AreOther(f) == \A o \in DOMAIN f : f[o] \in Other

LEMMA OfAreOther ==
  ASSUME NEW t, NEW names, NEW v \in Other
  PROVE  AreOther(Of(t, names, v))
BY DEF AreOther, Of

LEMMA JoinedAreOther ==
  ASSUME NEW f, NEW g, AreOther(f), AreOther(g)
  PROVE  AreOther(f ++ g)
BY DEF AreOther, ++

LEMMA NothingIsOther == AreOther(Nothing)
BY DEF AreOther, Nothing

LEMMA TablesAreOther ==
  ASSUME NEW t, NEW key \in Other, NEW cols
  PROVE  AreOther(Table(t, key, cols)) /\ AreOther(SerialTable(t, cols))
<1>1. AreOther(Object(t, "itself", <<"TABLE">>))
  BY OfAreOther, OtherHas DEF Object, Single
<1>2. AreOther(Object(t, "pkey", key))
  BY OfAreOther DEF Object
<1>3. AreOther(Object(t, "pkey", <<"id">>))
  BY OfAreOther, OtherHas DEF Object, Single
<1>4. AreOther(Of(t, cols, NotNull)) /\ AreOther(Object(t, "id", Serial))
  BY OfAreOther, OtherHas DEF Object
<1> QED
  BY <1>1, <1>2, <1>3, <1>4, JoinedAreOther DEF Table, SerialTable

\* Only the type of taggables refers to one of them, from migration 8 on.
LEMMA MigrationsMakeOther ==
  ASSUME NEW k \in Ids
  PROVE  LET m == Migrations[k]
         IN  /\ AreOther(m.create) /\ AreOther(m.put)
             /\ IF k = 8 THEN m.alter = Object("taggables", "type", <<"taggable_type">>)
                         ELSE AreOther(m.alter)
<1>1. CASE k = 1
  <2>1. Migrations[1] = InitialStructure
    BY DEF Migrations
  <2>2. <<"id">> \in Other
    BY OtherHas DEF Single
  <2>3. AreOther(Users)
    BY OfAreOther, OtherHas, JoinedAreOther, TablesAreOther DEF Users
  <2>4. AreOther(Tags)
    <3>1. AreOther(Object("tags", "parent_id_fkey", Refers("tags")))
      BY OfAreOther, OtherHas DEF Object
    <3>2. AreOther(Object("tags", "owner_id_fkey", Refers("users")))
      BY OfAreOther, OtherHas DEF Object
    <3>3. AreOther(SerialTable("tags", {"parent_id", "owner_id"}))
      BY <2>2, TablesAreOther
    <3> QED
      BY <3>1, <3>2, <3>3, JoinedAreOther DEF Tags
  <2>5. AreOther(TagNames)
    <3>1. AreOther(Object("tag_names", "tag_id_fkey", Refers("tags")))
      BY OfAreOther, OtherHas DEF Object
    <3> QED
      BY <2>2, <3>1, JoinedAreOther, TablesAreOther DEF TagNames
  <2>6. AreOther(Taggables)
    BY <2>2, TablesAreOther DEF Taggables
  <2>7. AreOther(Bookmarks)
    <3>1. AreOther(Object("bookmarks", "id_fkey", Refers("taggables")))
      BY OfAreOther, OtherHas DEF Object
    <3>2. AreOther(Object("bookmarks", "owner_id_fkey", Refers("users")))
      BY OfAreOther, OtherHas DEF Object
    <3>3. AreOther(SerialTable("bookmarks", {"url", "comment", "owner_id"}))
      BY <2>2, TablesAreOther
    <3> QED
      BY <3>1, <3>2, <3>3, JoinedAreOther DEF Bookmarks
  <2>8. AreOther(Taggings)
    <3>1. AreOther(Object("taggings", "taggable_id_fkey", Refers("taggables")))
      BY OfAreOther, OtherHas DEF Object
    <3>2. AreOther(Object("taggings", "tag_id_fkey", Refers("tags")))
      BY OfAreOther, OtherHas DEF Object
    <3>3. AreOther(SerialTable("taggings", {"taggable_id", "tag_id"}))
      BY <2>2, TablesAreOther
    <3> QED
      BY <3>1, <3>2, <3>3, JoinedAreOther DEF Taggings
  <2>9. AreOther(Users ++ Tags ++ TagNames ++ Taggables ++ Bookmarks ++ Taggings)
    BY <2>3, <2>4, <2>5, <2>6, <2>7, <2>8, JoinedAreOther
  <2> QED
    BY <1>1, <2>1, <2>9, NothingIsOther DEF InitialStructure, NoChange
<1>2. CASE k = 2
  <2>1. Migrations[2] = DropParentNotNull
    BY DEF Migrations
  <2> QED
    BY <1>2, <2>1, NothingIsOther, OfAreOther, OtherHas
    DEF DropParentNotNull, NoChange, Object, Single
<1>3. CASE k = 3
  <2>1. Migrations[3] = MoveOwnerToTaggables
    BY DEF Migrations
  <2>2. /\ AreOther(Object("taggables", "owner_id", NotNull))
        /\ AreOther(Object("taggables", "owner_id_fkey", Cascades("users")))
    BY OfAreOther, OtherHas DEF Object
  <2>3. AreOther(MoveOwnerToTaggables.create)
    BY <2>2, JoinedAreOther DEF MoveOwnerToTaggables, NoChange
  <2> QED
    BY <1>3, <2>1, <2>3, NothingIsOther DEF MoveOwnerToTaggables, NoChange
<1>4. CASE k = 4
  <2>1. Migrations[4] = AddOnDelete
    BY DEF Migrations
  <2>2. /\ AreOther(Object("tags", "parent_id_fkey", Cascades("tags")))
        /\ AreOther(Object("tags", "owner_id_fkey", Cascades("users")))
        /\ AreOther(Object("tag_names", "tag_id_fkey", Cascades("tags")))
        /\ AreOther(Object("bookmarks", "id_fkey", Cascades("taggables")))
        /\ AreOther(Object("taggings", "taggable_id_fkey", Cascades("taggables")))
        /\ AreOther(Object("taggings", "tag_id_fkey", Cascades("tags")))
    BY OfAreOther, OtherHas DEF Object
  <2>3. AreOther(AddOnDelete.alter)
    BY <2>2, JoinedAreOther DEF AddOnDelete, NoChange
  <2> QED
    BY <1>4, <2>1, <2>3, NothingIsOther DEF AddOnDelete, NoChange
<1>5. CASE k = 5
  <2>1. Migrations[5] = NaturalKeyOfTagNames
    BY DEF Migrations
  <2> QED
    BY <1>5, <2>1, NothingIsOther, OfAreOther, OtherHas
    DEF NaturalKeyOfTagNames, NoChange, Object, Single
<1>6. CASE k = 6
  <2>1. Migrations[6] = AddTagDescription
    BY DEF Migrations
  <2> QED
    BY <1>6, <2>1, NothingIsOther, OfAreOther, OtherHas
    DEF AddTagDescription, NoChange, Object, Single
<1>7. CASE k = 7
  <2>1. Migrations[7] = OneNullParent
    BY DEF Migrations
  <2> QED
    BY <1>7, <2>1, NothingIsOther, OfAreOther, OtherHas
    DEF OneNullParent, NoChange, Object, Single
<1>8. CASE k = 8
  <2>1. Migrations[8] = TaggableTypeEnum
    BY DEF Migrations
  <2> QED
    BY <1>8, <2>1, NothingIsOther, OfAreOther, OtherHas
    DEF TaggableTypeEnum, NoChange, Object, Single
<1>9. CASE k = 9
  <2>1. Migrations[9] = AddTimestamps
    BY DEF Migrations
  <2>2. /\ AreOther(Of("taggables", {"created_ts", "updated_ts"}, NotNull))
        /\ AreOther(Object("taggables", "trg_set_created_ts", <<"set_created_ts">>))
        /\ AreOther(Object("taggables", "trg_set_updated_ts", <<"set_updated_ts">>))
        /\ AreOther(Object("set_created_ts", "itself", <<"FUNCTION">>))
        /\ AreOther(Object("set_updated_ts", "itself", <<"FUNCTION">>))
    BY OfAreOther, OtherHas DEF Object, Single
  <2>3. AreOther(AddTimestamps.create) /\ AreOther(AddTimestamps.put)
    BY <2>2, JoinedAreOther DEF AddTimestamps, NoChange
  <2> QED
    BY <1>9, <2>1, <2>3, NothingIsOther DEF AddTimestamps, NoChange
<1>10. CASE k = 10
  <2>1. Migrations[10] = NaturalKeyOfTaggings
    BY DEF Migrations
  <2> QED
    BY <1>10, <2>1, NothingIsOther, OfAreOther, OtherHas
    DEF NaturalKeyOfTaggings, NoChange, Object, Single
<1>11. CASE k = 11
  <2>1. Migrations[11] = AddTitle
    BY DEF Migrations
  <2> QED
    BY <1>11, <2>1, NothingIsOther, OfAreOther, OtherHas
    DEF AddTitle, NoChange, Object, Single
<1>12. CASE k = 12
  <2>1. Migrations[12] = AddIndexes
    BY DEF Migrations
  <2> QED
    BY <1>12, <2>1, NothingIsOther, OfAreOther, OtherHas
    DEF AddIndexes, NoChange, Object, Single, AreOther
<1>13. CASE k = 13
  <2>1. Migrations[13] = AddPrimary
    BY DEF Migrations
  <2> QED
    BY <1>13, <2>1, NothingIsOther, OfAreOther, OtherHas
    DEF AddPrimary, NoChange, Object, Single
<1>14. CASE k = 14
  <2>1. Migrations[14] = AddTagBriefType
    BY DEF Migrations
  <2> QED
    BY <1>14, <2>1, NothingIsOther, OfAreOther, OtherHas
    DEF AddTagBriefType, NoChange, Object, Single
<1>15. CASE k = 15
  <2>1. Migrations[15] = FixDupNull
    BY DEF Migrations
  <2> QED
    BY <1>15, <2>1, NothingIsOther, OfAreOther, OtherHas
    DEF FixDupNull, NoChange, Object, Single
<1>16. CASE k = 16
  <2>1. Migrations[16] = AddChildrenCnt
    BY DEF Migrations
  <2> QED
    BY <1>16, <2>1, NothingIsOther, OfAreOther, OtherHas
    DEF AddChildrenCnt, NoChange, Object, Single
<1>17. CASE k = 17
  <2>1. Migrations[17] = AddAccessTokens
    BY DEF Migrations
  <2>2. AreOther(Table("access_tokens", <<"token">>, {"token", "user_id"}))
    BY OtherHas, TablesAreOther DEF Single
  <2>3. /\ AreOther(Object("access_tokens", "created_ts", Default))
        /\ AreOther(Object("access_tokens", "user_id_fkey", Cascades("users")))
    BY OfAreOther, OtherHas DEF Object
  <2>4. AreOther(AddAccessTokens.create)
    BY <2>2, <2>3, JoinedAreOther DEF AddAccessTokens, NoChange
  <2> QED
    BY <1>17, <2>1, <2>4, NothingIsOther DEF AddAccessTokens, NoChange
<1>18. CASE k = 18
  <2>1. Migrations[18] = AddGoogleAuth
    BY DEF Migrations
  <2>2. AreOther(Table("google_auth", <<"google_user_id">>,
                       {"google_user_id", "user_id", "email"}))
    BY OtherHas, TablesAreOther DEF Single
  <2>3. /\ AreOther(Object("google_auth", "created_ts", Default))
        /\ AreOther(Object("google_auth", "user_id_fkey", Cascades("users")))
    BY OfAreOther, OtherHas DEF Object
  <2>4. AreOther(AddGoogleAuth.create)
    BY <2>2, <2>3, JoinedAreOther DEF AddGoogleAuth, NoChange
  <2> QED
    BY <1>18, <2>1, <2>4, NothingIsOther DEF AddGoogleAuth, NoChange
<1>19. CASE k = 19
  <2>1. Migrations[19] = AddTokenDescription
    BY DEF Migrations
  <2> QED
    BY <1>19, <2>1, NothingIsOther, OfAreOther, OtherHas
    DEF AddTokenDescription, NoChange, Object, Single
<1>20. CASE k = 20
  <2>1. Migrations[20] = UniqueUsers
    BY DEF Migrations
  <2> QED
    BY <1>20, <2>1, NothingIsOther, OfAreOther, OtherHas
    DEF UniqueUsers, NoChange, Object, Single
<1> QED
  BY TwentyMigrations, <1>1, <1>2, <1>3, <1>4, <1>5, <1>6, <1>7, <1>8, <1>9, <1>10, <1>11,
     <1>12, <1>13, <1>14, <1>15, <1>16, <1>17, <1>18, <1>19, <1>20

LEMMA SchemaRefersNot ==
  ASSUME NEW a \in 0..20, NEW s, SchemaInv(a, s), NEW x \in Droppable, NEW c \in DOMAIN s,
         a < 8 \/ x # "taggable_type"
  PROVE  ~RefersTo(s[c], x)
<1>1. PICK i \in 1..a : MadeLast(i, a, c)
  BY DEF SchemaInv
<1> DEFINE m == Migrations[i]
<1>2. s[c] = New(m)[c] /\ c \in Made(m)
  BY <1>1 DEF SchemaInv, MadeLast
<1>3. i \in Ids
  BY TwentyMigrations
<1> HIDE DEF m
<1>4. CASE s[c] \in Other
  BY <1>4, OtherRefersNot
<1>5. CASE s[c] \notin Other
  <2>1. AreOther(m.create) /\ AreOther(m.put) /\ (i # 8 => AreOther(m.alter))
    BY <1>3, MigrationsMakeOther DEF m
  <2>2. i = 8 /\ c \in DOMAIN m.alter /\ s[c] = m.alter[c]
    BY <1>2, <1>5, <2>1 DEF Made, New, AreOther, ++
  <2>3. m.alter = Object("taggables", "type", <<"taggable_type">>)
    BY <1>3, <2>2, MigrationsMakeOther DEF m
  <2>4. s[c] = <<"taggable_type">>
    BY <2>2, <2>3 DEF Object, Of
  <2>5. x # "taggable_type"
    BY <1>1, <2>2
  <2> QED
    BY <2>4, <2>5 DEF RefersTo, Refers, Cascades
<1> QED
  BY <1>4, <1>5

LEMMA ObjectHas ==
  ASSUME NEW t, NEW n, NEW v
  PROVE  DOMAIN Object(t, n, v) = {<<t, n>>}
BY DEF Object, Of

LEMMA ColumnIs ==
  ASSUME NEW t, NEW cols, NEW c \in cols, c \notin {"itself", "pkey"}
  PROVE  <<t, c>> \in DOMAIN SerialTable(t, cols) /\ SerialTable(t, cols)[<<t, c>>] = NotNull
<1> DEFINE f == Object(t, "itself", <<"TABLE">>)
           g == Object(t, "pkey", <<"id">>)
           h == Of(t, cols, NotNull)
           k == Object(t, "id", Serial)
<1>1. SerialTable(t, cols) = f ++ g ++ h ++ k
  BY DEF SerialTable, Table
<1>2. <<t, c>> \in DOMAIN h /\ h[<<t, c>>] = NotNull
  BY DEF Of
<1>3. <<t, c>> \notin DOMAIN f /\ <<t, c>> \notin DOMAIN g
  BY DEF Object, Of
<1> HIDE DEF f, g, h, k
<1> QED
  BY <1>1, <1>2, <1>3 DEF ++

\* The objects of the first migration that "down" functions make again.
LEMMA FirstObjects ==
  LET new == New(Migrations[1])
  IN  /\ new[<<"tags", "parent_id">>] = NotNull
      /\ new[<<"bookmarks", "owner_id">>] = NotNull
      /\ new[<<"bookmarks", "owner_id_fkey">>] = Refers("users")
      /\ new[<<"taggables", "type">>] = NotNull
<1> DEFINE f == InitialStructure.create
<1>1. Migrations[1] = InitialStructure
  BY DEF Migrations
<1>2. \A o \in DOMAIN f : New(InitialStructure)[o] = f[o]
  BY DEF New, InitialStructure, NoChange, Nothing, ++
<1>3. \A o \in DOMAIN Users : o[1] = "users"
  BY FirstTables
<1>4. \A o \in DOMAIN Tags : o[1] = "tags"
  BY FirstTables
<1>5. \A o \in DOMAIN TagNames : o[1] = "tag_names"
  BY FirstTables
<1>6. \A o \in DOMAIN Taggables : o[1] = "taggables"
  BY FirstTables
<1>7. <<"tags", "parent_id">> \in DOMAIN Tags /\ Tags[<<"tags", "parent_id">>] = NotNull
  <2> DEFINE g == SerialTable("tags", {"parent_id", "owner_id"})
             h == Object("tags", "parent_id_fkey", Refers("tags"))
             k == Object("tags", "owner_id_fkey", Refers("users"))
  <2>1. Tags = g ++ h ++ k
    BY DEF Tags
  <2>2. <<"tags", "parent_id">> \in DOMAIN g /\ g[<<"tags", "parent_id">>] = NotNull
    BY ColumnIs
  <2> HIDE DEF g, h, k
  <2> QED
    BY <2>1, <2>2 DEF ++
<1>8. /\ <<"taggables", "type">> \in DOMAIN Taggables
      /\ Taggables[<<"taggables", "type">>] = NotNull
  BY ColumnIs DEF Taggables
<1>9. /\ <<"bookmarks", "owner_id">> \in DOMAIN Bookmarks
      /\ Bookmarks[<<"bookmarks", "owner_id">>] = NotNull
      /\ <<"bookmarks", "owner_id_fkey">> \in DOMAIN Bookmarks
      /\ Bookmarks[<<"bookmarks", "owner_id_fkey">>] = Refers("users")
  <2> DEFINE g == SerialTable("bookmarks", {"url", "comment", "owner_id"})
             h == Object("bookmarks", "id_fkey", Refers("taggables"))
             k == Object("bookmarks", "owner_id_fkey", Refers("users"))
  <2>1. Bookmarks = g ++ h ++ k
    BY DEF Bookmarks
  <2>2. <<"bookmarks", "owner_id">> \in DOMAIN g /\ g[<<"bookmarks", "owner_id">>] = NotNull
    BY ColumnIs
  <2>3. DOMAIN g = {"bookmarks"} \X ({"itself", "pkey", "id"} \cup {"url", "comment", "owner_id"})
    BY TableHas
  <2>4. DOMAIN h = {<<"bookmarks", "id_fkey">>}
    BY ObjectHas, Zenon
  <2>5. DOMAIN k = {<<"bookmarks", "owner_id_fkey">>}
    BY ObjectHas, Zenon
  <2>6. k[<<"bookmarks", "owner_id_fkey">>] = Refers("users")
    <3>1. \A v : Object("bookmarks", "owner_id_fkey", v)[<<"bookmarks", "owner_id_fkey">>] = v
      BY DEF Object, Of
    <3> QED
      BY <3>1, Zenon
  <2> HIDE DEF g, h, k
  <2>7. /\ <<"bookmarks", "owner_id_fkey">> \notin DOMAIN g
        /\ <<"bookmarks", "owner_id_fkey">> \notin DOMAIN h
    BY <2>3, <2>4
  <2>8. <<"bookmarks", "owner_id_fkey">> \in DOMAIN k
    BY <2>5
  <2>9. <<"bookmarks", "owner_id">> \in DOMAIN (g ++ h ++ k)
        /\ (g ++ h ++ k)[<<"bookmarks", "owner_id">>] = NotNull
    BY <2>2 DEF ++
  <2>10. <<"bookmarks", "owner_id_fkey">> \in DOMAIN (g ++ h ++ k)
         /\ (g ++ h ++ k)[<<"bookmarks", "owner_id_fkey">>] = k[<<"bookmarks", "owner_id_fkey">>]
    BY <2>7, <2>8 DEF ++
  <2> QED
    BY <2>1, <2>6, <2>9, <2>10, Zenon
<1>10. f = Users ++ Tags ++ TagNames ++ Taggables ++ Bookmarks ++ Taggings
  BY DEF InitialStructure, NoChange
<1>11. <<"tags", "parent_id">> \in DOMAIN f /\ f[<<"tags", "parent_id">>] = NotNull
  <2>1. <<"tags", "parent_id">> \notin DOMAIN Users
    BY <1>3
  <2> QED
    BY <1>7, <1>10, <2>1 DEF ++
<1>12. <<"taggables", "type">> \in DOMAIN f /\ f[<<"taggables", "type">>] = NotNull
  <2>1. /\ <<"taggables", "type">> \notin DOMAIN Users
        /\ <<"taggables", "type">> \notin DOMAIN Tags
        /\ <<"taggables", "type">> \notin DOMAIN TagNames
    BY <1>3, <1>4, <1>5
  <2> QED
    BY <1>8, <1>10, <2>1 DEF ++
<1>13. ASSUME NEW o \in DOMAIN Bookmarks, o[1] = "bookmarks"
       PROVE  o \in DOMAIN f /\ f[o] = Bookmarks[o]
  <2>1. /\ o \notin DOMAIN Users /\ o \notin DOMAIN Tags /\ o \notin DOMAIN TagNames
        /\ o \notin DOMAIN Taggables
    BY <1>3, <1>4, <1>5, <1>6, <1>13
  <2> QED
    BY <1>10, <2>1 DEF ++
<1>14. /\ <<"bookmarks", "owner_id">> \in DOMAIN f
       /\ f[<<"bookmarks", "owner_id">>] = NotNull
  BY <1>9, <1>13
<1>15. /\ <<"bookmarks", "owner_id_fkey">> \in DOMAIN f
       /\ f[<<"bookmarks", "owner_id_fkey">>] = Refers("users")
  BY <1>9, <1>13
<1> HIDE DEF f
<1> QED
  BY <1>1, <1>2, <1>11, <1>12, <1>14, <1>15

\* Nothing of the two tables that "down" functions drop is there before them.
LEMMA NewTables ==
  ASSUME NEW a \in {16, 17}, NEW s, SchemaInv(a, s), NEW o \in DOMAIN s
  PROVE  o[1] # "google_auth" /\ (a = 16 => o[1] # "access_tokens")
<1>1. PICK i \in 1..a : o \in Made(Migrations[i])
  BY DEF SchemaInv, MadeLast
<1>2. CASE i \in 1..8
  BY <1>1, <1>2, Parts1, Parts2, Parts3, Parts4, Parts5, Parts6, Parts7, Parts8
<1>3. CASE i \in 9..16
  BY <1>1, <1>3, Parts9, Parts10, Parts11, Parts12, Parts13, Parts14, Parts15, Parts16
<1>4. CASE i = 17
  BY <1>1, <1>4, Parts17
<1> QED
  BY <1>2, <1>3, <1>4

\* Those that lead back.
Back == {2, 3, 6, 8, 11, 13, 14, 16, 17, 18, 19, 20}

LEMMA DownReverts ==
  ASSUME NEW k \in Back, NEW s, SchemaInv(k - 1, s)
  PROVE  Reverts(Downs(After(Migrations[k], s))[k], Migrations[k], s)
<1> DEFINE m == Migrations[k]
           t == After(m, s)
<1>1. \A i \in 1..(k - 1) : \A o : MadeLast(i, k - 1, o) =>
        o \in DOMAIN s /\ s[o] = New(Migrations[i])[o]
  BY DEF SchemaInv
<1>2. CASE k = 2
  <2>1. m = DropParentNotNull /\ Downs(t)[2] = SetParentNotNull
    BY <1>2 DEF Migrations, Downs
  <2>2. MadeLast(1, 1, <<"tags", "parent_id">>)
    <3>1. (1 + 1)..1 = {}
      OBVIOUS
    <3> QED
      BY <3>1, Parts1 DEF MadeLast
  <2>3. s[<<"tags", "parent_id">>] = NotNull
    BY <1>1, <1>2, <2>2, FirstObjects
  <2> QED
    BY <1>2, <2>1, <2>3
    DEF DropParentNotNull, SetParentNotNull, NoChange, Nothing, Object, Of, Reverts
<1>3. CASE k = 3
  <2>1. m = MoveOwnerToTaggables /\ Downs(t)[3] = MoveOwnerToBookmarks
    BY <1>3 DEF Migrations, Downs
  <2>2. ASSUME NEW o \in {<<"bookmarks", "owner_id">>, <<"bookmarks", "owner_id_fkey">>,
                          <<"bookmarks", "itself">>, <<"users", "itself">>}
        PROVE  o \in DOMAIN s /\ s[o] = New(Migrations[1])[o]
    <3>1. (1 + 1)..2 = {2}
      OBVIOUS
    <3>2. o \in Made(Migrations[1])
      BY Parts1
    <3>3. o \notin Made(Migrations[2]) \cup Migrations[2].drop
      BY Parts2
    <3>4. MadeLast(1, 2, o)
      BY <3>1, <3>2, <3>3 DEF MadeLast
    <3> QED
      BY <1>1, <1>3, <3>4
  <2>3. /\ s[<<"bookmarks", "owner_id">>] = NotNull
        /\ s[<<"bookmarks", "owner_id_fkey">>] = Refers("users")
    BY <2>2, FirstObjects
  <2>4. /\ DOMAIN m.put = {} /\ DOMAIN m.alter = {}
        /\ m.drop = {"bookmarks"} \X {"owner_id", "owner_id_fkey"}
        /\ DOMAIN m.create = {"taggables"} \X {"owner_id", "owner_id_fkey"}
    BY <2>1 DEF MoveOwnerToTaggables, NoChange, Nothing, Object, Of, ++
  <2> DEFINE d == MoveOwnerToBookmarks
  <2>5. /\ DOMAIN d.put = {} /\ DOMAIN d.alter = {}
        /\ d.drop = {"taggables"} \X {"owner_id", "owner_id_fkey"}
        /\ d.uses = {<<"bookmarks", "itself">>, <<"users", "itself">>}
    BY DEF MoveOwnerToBookmarks, NoChange, Nothing, Top
  <2>6. DOMAIN d.create = {"bookmarks"} \X {"owner_id", "owner_id_fkey"}
    BY DEF MoveOwnerToBookmarks, NoChange, Object, Of, ++
  <2>7. /\ d.create[<<"bookmarks", "owner_id">>] = NotNull
        /\ d.create[<<"bookmarks", "owner_id_fkey">>] = Refers("users")
    BY DEF MoveOwnerToBookmarks, NoChange, Object, Of, ++
  <2> HIDE DEF d
  <2>8. \A o \in DOMAIN d.create : d.create[o] = s[o]
    BY <2>3, <2>6, <2>7
  <2>9. d.uses \subseteq DOMAIN s \ m.drop
    BY <2>2, <2>4, <2>5
  <2>10. \A o \in d.drop : o[2] # "itself"
    BY <2>5
  <2>11. Reverts(d, m, s)
    BY <2>4, <2>5, <2>6, <2>8, <2>9, <2>10 DEF Reverts
  <2> QED
    BY <1>3, <2>1, <2>11 DEF d
<1>8. CASE k = 8
  <2>1. m = TaggableTypeEnum /\ Downs(t)[8] = TypeAsText
    BY <1>8 DEF Migrations, Downs
  <2>2. MadeLast(1, 7, <<"taggables", "type">>)
    <3>1. (1 + 1)..7 = {2, 3, 4, 5, 6, 7}
      OBVIOUS
    <3>2. <<"taggables", "type">> \in Made(Migrations[1])
      BY Parts1
    <3>3. ASSUME NEW j \in {2, 3, 4, 5, 6, 7}
          PROVE  <<"taggables", "type">> \notin Made(Migrations[j]) \cup Migrations[j].drop
      BY Parts2, Parts3, Parts4, Parts5, Parts6, Parts7
    <3> QED
      BY <3>1, <3>2, <3>3 DEF MadeLast
  <2>3. s[<<"taggables", "type">>] = NotNull
    BY <1>1, <1>8, <2>2, FirstObjects
  <2>4. /\ DOMAIN m.put = {} /\ DOMAIN m.alter = {<<"taggables", "type">>} /\ m.drop = {}
        /\ DOMAIN m.create = {<<"taggable_type", "itself">>}
    BY <2>1 DEF TaggableTypeEnum, NoChange, Nothing, Object, Of
  <2> DEFINE d == TypeAsText
  <2>5. /\ DOMAIN d.put = {} /\ DOMAIN d.create = {} /\ d.uses = {}
        /\ DOMAIN d.alter = {<<"taggables", "type">>}
        /\ d.alter[<<"taggables", "type">>] = NotNull
        /\ d.drop = {<<"taggable_type", "itself">>}
    BY DEF TypeAsText, NoChange, Nothing, Object, Of, Top
  <2> HIDE DEF d
  <2>6. \A c \in DOMAIN s : ~RefersTo(s[c], "taggable_type")
    BY <1>8, SchemaRefersNot DEF Droppable
  <2>7. Reverts(d, m, s)
    BY <2>3, <2>4, <2>5, <2>6 DEF Reverts
  <2> QED
    BY <1>8, <2>1, <2>7 DEF d
<1>14. CASE k = 14
  <2>1. m = AddTagBriefType /\ Downs(t)[14] = DropObjects(Top({"gm_tag_brief"}))
    BY <1>14 DEF Migrations, Downs
  <2>2. \A c \in DOMAIN s : ~RefersTo(s[c], "gm_tag_brief")
    BY <1>14, SchemaRefersNot DEF Droppable
  <2> DEFINE d == DropObjects(Top({"gm_tag_brief"}))
  <2>3. /\ DOMAIN d.put = {} /\ DOMAIN d.create = {} /\ DOMAIN d.alter = {} /\ d.uses = {}
        /\ d.drop = {<<"gm_tag_brief", "itself">>}
    BY DEF DropObjects, NoChange, Nothing, Top
  <2>4. /\ DOMAIN m.put = {} /\ DOMAIN m.alter = {} /\ m.drop = {}
        /\ DOMAIN m.create = {<<"gm_tag_brief", "itself">>}
    BY <2>1 DEF AddTagBriefType, NoChange, Nothing, Object, Of
  <2> HIDE DEF d
  <2>5. Reverts(d, m, s)
    BY <2>2, <2>3, <2>4 DEF Reverts
  <2> QED
    BY <1>14, <2>1, <2>5 DEF d
<1>17. CASE k = 17
  <2> DEFINE d == DropObjects(TableObjects(t, "access_tokens"))
  <2>1. m = AddAccessTokens /\ Downs(t)[17] = d
    BY <1>17 DEF Migrations, Downs
  <2>2. \A c \in DOMAIN s : ~RefersTo(s[c], "access_tokens")
    BY <1>17, SchemaRefersNot DEF Droppable
  <2>3. /\ DOMAIN m.put = {} /\ DOMAIN m.alter = {} /\ m.drop = {} /\ Made(m) = DOMAIN m.create
    BY <2>1 DEF AddAccessTokens, NoChange, Nothing, Made
  <2>4. \A o \in Made(m) : o[1] = "access_tokens"
    BY <1>17, Parts17
  <2>5. \A o \in DOMAIN s : o[1] # "access_tokens"
    BY <1>17, NewTables
  <2>6. DOMAIN t = Made(m) \cup (DOMAIN s \ m.drop)
    BY AfterHas
  <2>7. /\ DOMAIN d.put = {} /\ DOMAIN d.create = {} /\ DOMAIN d.alter = {} /\ d.uses = {}
        /\ d.drop = TableObjects(t, "access_tokens")
    BY DEF DropObjects, NoChange, Nothing
  <2> HIDE DEF d, m, t
  <2>8. TableObjects(t, "access_tokens") = DOMAIN m.create
    BY <2>3, <2>4, <2>5, <2>6 DEF TableObjects
  <2>9. Reverts(d, m, s)
    BY <2>2, <2>3, <2>4, <2>7, <2>8 DEF Reverts
  <2> QED
    BY <1>17, <2>1, <2>9 DEF m, t
<1>18. CASE k = 18
  <2> DEFINE d == DropObjects(TableObjects(t, "google_auth"))
  <2>1. m = AddGoogleAuth /\ Downs(t)[18] = d
    BY <1>18 DEF Migrations, Downs
  <2>2. \A c \in DOMAIN s : ~RefersTo(s[c], "google_auth")
    BY <1>18, SchemaRefersNot DEF Droppable
  <2>3. /\ DOMAIN m.put = {} /\ DOMAIN m.alter = {} /\ m.drop = {} /\ Made(m) = DOMAIN m.create
    BY <2>1 DEF AddGoogleAuth, NoChange, Nothing, Made
  <2>4. \A o \in Made(m) : o[1] = "google_auth"
    BY <1>18, Parts18
  <2>5. \A o \in DOMAIN s : o[1] # "google_auth"
    BY <1>18, NewTables
  <2>6. DOMAIN t = Made(m) \cup (DOMAIN s \ m.drop)
    BY AfterHas
  <2>7. /\ DOMAIN d.put = {} /\ DOMAIN d.create = {} /\ DOMAIN d.alter = {} /\ d.uses = {}
        /\ d.drop = TableObjects(t, "google_auth")
    BY DEF DropObjects, NoChange, Nothing
  <2> HIDE DEF d, m, t
  <2>8. TableObjects(t, "google_auth") = DOMAIN m.create
    BY <2>3, <2>4, <2>5, <2>6 DEF TableObjects
  <2>9. Reverts(d, m, s)
    BY <2>2, <2>3, <2>4, <2>7, <2>8 DEF Reverts
  <2> QED
    BY <1>18, <2>1, <2>9 DEF m, t
<1>6. CASE k = 6
  <2> DEFINE d == DropObjects({<<"tags", "descr">>})
  <2>1. m = AddTagDescription /\ Downs(t)[6] = d
    BY <1>6 DEF Migrations, Downs
  <2>2. /\ DOMAIN m.put = {} /\ DOMAIN m.alter = {} /\ m.drop = {}
        /\ DOMAIN m.create = {<<"tags", "descr">>}
    BY <2>1 DEF AddTagDescription, NoChange, Nothing, Object, Of
  <2>3. /\ DOMAIN d.put = {} /\ DOMAIN d.create = {} /\ DOMAIN d.alter = {} /\ d.uses = {}
        /\ d.drop = {<<"tags", "descr">>}
    BY DEF DropObjects, NoChange, Nothing
  <2> HIDE DEF d
  <2>4. Reverts(d, m, s)
    BY <2>2, <2>3 DEF Reverts
  <2> QED
    BY <1>6, <2>1, <2>4
<1>11. CASE k = 11
  <2> DEFINE d == DropObjects({<<"bookmarks", "title">>})
  <2>1. m = AddTitle /\ Downs(t)[11] = d
    BY <1>11 DEF Migrations, Downs
  <2>2. /\ DOMAIN m.put = {} /\ DOMAIN m.alter = {} /\ m.drop = {}
        /\ DOMAIN m.create = {<<"bookmarks", "title">>}
    BY <2>1 DEF AddTitle, NoChange, Nothing, Object, Of
  <2>3. /\ DOMAIN d.put = {} /\ DOMAIN d.create = {} /\ DOMAIN d.alter = {} /\ d.uses = {}
        /\ d.drop = {<<"bookmarks", "title">>}
    BY DEF DropObjects, NoChange, Nothing
  <2> HIDE DEF d
  <2>4. Reverts(d, m, s)
    BY <2>2, <2>3 DEF Reverts
  <2> QED
    BY <1>11, <2>1, <2>4
<1>13. CASE k = 13
  <2> DEFINE d == DropObjects({<<"tag_names", "primary">>})
  <2>1. m = AddPrimary /\ Downs(t)[13] = d
    BY <1>13 DEF Migrations, Downs
  <2>2. /\ DOMAIN m.put = {} /\ DOMAIN m.alter = {} /\ m.drop = {}
        /\ DOMAIN m.create = {<<"tag_names", "primary">>}
    BY <2>1 DEF AddPrimary, NoChange, Nothing, Object, Of
  <2>3. /\ DOMAIN d.put = {} /\ DOMAIN d.create = {} /\ DOMAIN d.alter = {} /\ d.uses = {}
        /\ d.drop = {<<"tag_names", "primary">>}
    BY DEF DropObjects, NoChange, Nothing
  <2> HIDE DEF d
  <2>4. Reverts(d, m, s)
    BY <2>2, <2>3 DEF Reverts
  <2> QED
    BY <1>13, <2>1, <2>4
<1>16. CASE k = 16
  <2> DEFINE d == DropObjects({<<"tags", "children_cnt">>})
  <2>1. m = AddChildrenCnt /\ Downs(t)[16] = d
    BY <1>16 DEF Migrations, Downs
  <2>2. /\ DOMAIN m.put = {} /\ DOMAIN m.alter = {} /\ m.drop = {}
        /\ DOMAIN m.create = {<<"tags", "children_cnt">>}
    BY <2>1 DEF AddChildrenCnt, NoChange, Nothing, Object, Of
  <2>3. /\ DOMAIN d.put = {} /\ DOMAIN d.create = {} /\ DOMAIN d.alter = {} /\ d.uses = {}
        /\ d.drop = {<<"tags", "children_cnt">>}
    BY DEF DropObjects, NoChange, Nothing
  <2> HIDE DEF d
  <2>4. Reverts(d, m, s)
    BY <2>2, <2>3 DEF Reverts
  <2> QED
    BY <1>16, <2>1, <2>4
<1>19. CASE k = 19
  <2> DEFINE d == DropObjects({<<"access_tokens", "descr">>})
  <2>1. m = AddTokenDescription /\ Downs(t)[19] = d
    BY <1>19 DEF Migrations, Downs
  <2>2. /\ DOMAIN m.put = {} /\ DOMAIN m.alter = {} /\ m.drop = {}
        /\ DOMAIN m.create = {<<"access_tokens", "descr">>}
    BY <2>1 DEF AddTokenDescription, NoChange, Nothing, Object, Of
  <2>3. /\ DOMAIN d.put = {} /\ DOMAIN d.create = {} /\ DOMAIN d.alter = {} /\ d.uses = {}
        /\ d.drop = {<<"access_tokens", "descr">>}
    BY DEF DropObjects, NoChange, Nothing
  <2> HIDE DEF d
  <2>4. Reverts(d, m, s)
    BY <2>2, <2>3 DEF Reverts
  <2> QED
    BY <1>19, <2>1, <2>4
<1>20. CASE k = 20
  <2> DEFINE d == DropObjects({"users"} \X {"username_unique", "email_unique"})
  <2>1. m = UniqueUsers /\ Downs(t)[20] = d
    BY <1>20 DEF Migrations, Downs
  <2>2. /\ DOMAIN m.put = {} /\ DOMAIN m.alter = {} /\ m.drop = {}
        /\ DOMAIN m.create = {"users"} \X {"username_unique", "email_unique"}
    BY <2>1 DEF UniqueUsers, NoChange, Nothing, Object, Of
  <2>3. /\ DOMAIN d.put = {} /\ DOMAIN d.create = {} /\ DOMAIN d.alter = {} /\ d.uses = {}
        /\ d.drop = {"users"} \X {"username_unique", "email_unique"}
    BY DEF DropObjects, NoChange, Nothing
  <2> HIDE DEF d
  <2>4. Reverts(d, m, s)
    BY <2>2, <2>3 DEF Reverts
  <2> QED
    BY <1>20, <2>1, <2>4
<1> QED
  BY <1>2, <1>3, <1>6, <1>8, <1>11, <1>13, <1>14, <1>16, <1>17, <1>18, <1>19, <1>20 DEF Back

\* Whenever servers stop or interleave, the "down" function of the last migration
\* that the database has got leads back to the schema before it, but for those that
\* do nothing, the first one and the two that lose a sequence (initMigrations).
THEOREM DownsLeadBack == Spec => DownLeadsBack
<1>1. ASSUME AllInv, [Next]_vars, applied' # applied,
             applied' \notin {1, 4, 5, 7, 9, 10, 12, 15}
      PROVE  LET down == Downs(schema')[applied']
             IN  Fits(down, schema') /\ After(down, schema') = schema
  <2>1. /\ applied \in 0..19 /\ applied' = applied + 1
        /\ Fits(Migrations[applied'], schema)
        /\ schema' = After(Migrations[applied'], schema)
    BY <1>1, SchemaChanges
  <2>2. applied' \in Back /\ applied' - 1 = applied
    BY <1>1, <2>1 DEF Back
  <2>3. SchemaInv(applied, schema)
    BY <1>1 DEF AllInv, WholeInv
  <2>4. Reverts(Downs(schema')[applied'], Migrations[applied'], schema)
    BY <2>1, <2>2, <2>3, DownReverts
  <2>5. schema = [o \in DOMAIN schema |-> schema[o]]
    BY <2>3 DEF SchemaInv
  <2> QED
    BY <2>1, <2>4, <2>5, RevertsLeadBack
<1>2. AllInv /\ [Next]_vars =>
        (applied' # applied /\ applied' \notin {1, 4, 5, 7, 9, 10, 12, 15} =>
           LET down == Downs(schema')[applied']
           IN  Fits(down, schema') /\ After(down, schema') = schema)
  BY <1>1
<1> QED
  BY <1>2, AllInit, AllStep, PTL DEF Spec, DownLeadsBack
=============================================================================
