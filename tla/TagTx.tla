------------------------------- MODULE TagTx -------------------------------
(***************************************************************************)
(* The requests of TagStore as PostgreSQL runs them: several transactions  *)
(* at a time at isolation level READ COMMITTED (StoragePostgres.Tx), each  *)
(* a sequence of statements.  A statement sees what is committed when it   *)
(* starts and what its own transaction has written.  A row that a          *)
(* transaction writes stays locked until its end, a row that a foreign key *)
(* refers to may not be deleted until then, and a statement waits for the  *)
(* locks of others.                                                        *)
(*                                                                         *)
(* The rows of one UPDATE, INSERT or DELETE loop over one table are        *)
(* written in one step here, once none of them is locked by another: that  *)
(* only hides deadlocks, and a request that ends in one changes nothing.   *)
(* Every request is one user's, and its handler runs it once.              *)
(***************************************************************************)
EXTENDS TagTree, Sequences

CONSTANTS Request,     \* the requests running at the same time
          Name,        \* names that ValidateTagName accepts
          EmptyName,   \* the name of the root tag
          Taggable,    \* the user's bookmarks
          MaxNames,    \* bound: names a request gives to one tag
          MaxTags,     \* bound: tags a request gives to a bookmark
          NoRow,       \* stands for a row that does not exist
          Nobody,      \* the owner of the lock on a row nobody writes
          Kinds,       \* the kinds of requests made
          Races        \* pairs of requests that may overlap, see Clash

ASSUME RequestAssumption == IsFiniteSet(Request) /\ Nobody \notin Request
ASSUME BoundAssumption == MaxNames \in Nat \ {0} /\ MaxTags \in Nat

\* Rows, by primary key: of tags, bookmarks, tag_names and taggings.
NameRow == TagId \X (Name \cup {EmptyName})
TaggingRow == Taggable \X TagId
Row == TagId \cup Taggable \cup NameRow \cup TaggingRow

TagRecord == [parent : TagId \cup {NoTag}, cnt : Int]

\* A row belongs to one table.
ASSUME RowAssumption ==
  /\ TagId \cap (Taggable \cup NameRow \cup TaggingRow) = {}
  /\ Taggable \cap (NameRow \cup TaggingRow) = {}
  /\ NoRow \notin TagRecord \cup BOOLEAN

VARIABLES
  com,     \* the committed rows: a tag's parent and children_cnt, a name's
           \* "primary" flag, TRUE for a bookmark and a tagging; NoRow
  cur,     \* the rows as the transaction that has locked them sees them
  lock,    \* the transaction that has written a row and is still open
  share,   \* the transactions whose foreign keys refer to a tag (KEY SHARE)
  fresh,   \* the ids the sequence tags_id_seq has not given yet
  op,      \* what a request asks for
  steps,   \* the statements it still has to run, the next one first
  loc,     \* its local variables
  out      \* how it ended: "committed", "failed", "panicked"; "" before that

rows == <<com, cur, lock, share>>
vars == <<com, cur, lock, share, fresh, op, steps, loc, out>>

Ended == {"committed", "failed"}
Open(p) == steps[p] # <<>>
\* The transaction of p is open: p is running, or it has panicked (see Panic).
Holds(p) == Open(p) \/ out[p] = "panicked"
At(p, s) == Open(p) /\ Head(steps[p]) = s

-----------------------------------------------------------------------------
(* What a transaction sees.                                                *)

Sees(p, r) == IF lock[r] = p THEN cur[r] ELSE com[r]

SeesTags(p) == {x \in TagId : Sees(p, x) # NoRow}
KidsSeen(p, x) == {y \in SeesTags(p) : Sees(p, y).parent = x}
NamesSeen(p, x) == {n \in Name \cup {EmptyName} : Sees(p, <<x, n>>) # NoRow}
TagsSeen(p, b) == {x \in TagId : Sees(p, <<b, x>>) # NoRow}

(* The same of the committed rows: the tables of TagStore.                 *)
Tags == {x \in TagId : com[x] # NoRow}
Parent == [x \in TagId |-> IF com[x] = NoRow THEN NoTag ELSE com[x].parent]
Cnt == [x \in TagId |-> IF com[x] = NoRow THEN 0 ELSE com[x].cnt]
Names == [x \in TagId |-> {n \in Name \cup {EmptyName} : com[<<x, n>>] # NoRow}]
Primary == [x \in TagId |-> {n \in Names[x] : com[<<x, n>>]}]
Taggings == [b \in Taggable |-> {x \in TagId : com[<<b, x>>] # NoRow}]

-----------------------------------------------------------------------------
(* The statements of the requests, in the code's order.                    *)

\* (variant: the parent's count comes after the names)
CreateSteps_CountLast == <<"select", "insert", "addNames", "count">>

\* CreateTag
CreateSteps == <<"select", "count", "insert", "addNames">>

\* UpdateTag, first part: the move
MoveSteps == <<"walk", "affected", "retag", "setParent", "dec", "inc">>

\* UpdateTag, second part: the names
RenameSteps == <<"getNames", "getParent", "addNames", "delNames", "setPrimary">>

\* DeleteTag
DeleteSteps == <<"getTag", "cascade", "uncount", "clean">>

\* userBookmarkPut: UpdateBookmark, then SetTaggings in mode "leafs"
TagSteps == <<"bookmark", "walk", "current", "apply">>

Steps(o) ==
  (CASE o.kind = "create" -> CreateSteps
     [] o.kind = "move"   -> MoveSteps \o (IF o.names = {} THEN <<>> ELSE RenameSteps)
     [] o.kind = "rename" -> RenameSteps
     [] o.kind = "delete" -> DeleteSteps
     [] o.kind = "tag"    -> TagSteps) \o <<"commit">>

\* Sequences of distinct tags, in the order the client names them.
TagLists(S) ==
  UNION {{s \in [1..k -> S] : \A i, j \in 1..k : i # j => s[i] # s[j]} : k \in 0..MaxTags}

NameSet == {N \in SUBSET Name : N # {} /\ Cardinality(N) <= MaxNames}

\* The requests a client may make when the tags in T exist.
Ops(T) ==
  {o \in [kind : {"create"}, par : T, names : NameSet, first : Name] : o.first \in o.names}
  \cup {o \in [kind : {"move"}, id : T, par : T, policy : {"keep", "del"},
               names : NameSet \cup {{}}, first : Name \cup {EmptyName}] :
          IF o.names = {} THEN o.first = EmptyName ELSE o.first \in o.names}
  \cup {o \in [kind : {"rename"}, id : T, names : NameSet, first : Name] : o.first \in o.names}
  \cup [kind : {"delete"}, id : T \ {Root}]
  \cup [kind : {"tag"}, b : Taggable, list : TagLists(T)]

(***************************************************************************)
(* Pairs of requests that this code does not keep apart, by name.  What    *)
(* holds when none of them overlaps, and what breaks when one does, is     *)
(* checked separately.                                                     *)
(***************************************************************************)
Clash(o, q) ==
  LET kinds == {o.kind, q.kind}
      Both(k) == kinds = {k}
  IN  {r \in {"TwoMoves", "MoveAndDelete", "SameTag", "Retag", "Rename"} :
        CASE r = "TwoMoves" -> Both("move")
          [] r = "MoveAndDelete" -> kinds = {"move", "delete"}
          [] r = "SameTag" -> Both("delete") /\ o.id = q.id
          [] r = "Retag" -> kinds \in {{"tag", "move"}, {"tag", "delete"}}
          [] r = "Rename" -> "rename" \in kinds /\ "tag" \notin kinds}

-----------------------------------------------------------------------------
(* Locks.                                                                  *)

\* ON DELETE CASCADE: the names and the taggings of a tag.
Cascades(p, x) ==
  {r \in NameRow : r[1] = x /\ Sees(p, r) # NoRow}
    \cup {r \in TaggingRow : r[2] = x /\ Sees(p, r) # NoRow}

\* The rows a statement writes, those it deletes and the tags its foreign keys
\* refer to.
Needs(p) ==
  LET o == op[p]
      l == loc[p]
      none == [write |-> {}, del |-> {}, key |-> {}]
      Write(S) == [none EXCEPT !.write = S]
      Change == (l.want \ l.have) \cup (l.have \ l.want)
  IN  CASE At(p, "count") \/ At(p, "inc") -> Write({o.par})
        [] At(p, "dec") \/ At(p, "uncount") -> Write({l.par} \ {NoTag})
        [] At(p, "setParent") -> [none EXCEPT !.write = {o.id}, !.key = {o.par}]
        [] At(p, "insert") -> [none EXCEPT !.key = {o.par}]
        [] At(p, "insertName") -> [none EXCEPT !.write = {<<l.id, l.name>>}, !.key = {l.id}]
        [] At(p, "delNames") -> Write({<<l.id, n>> : n \in l.del})
        [] At(p, "setPrimary") -> Write({<<l.id, n>> : n \in l.set \cup l.clear})
        [] At(p, "bookmark") -> Write({o.b})
        [] At(p, "apply") -> [none EXCEPT !.write = {<<l.b, x>> : x \in Change},
                                          !.key = l.want \ l.have]
        [] At(p, "deleteRow") -> [none EXCEPT !.del = {l.id}, !.write = Cascades(p, l.id)]
        [] OTHER -> none

\* The transactions a request waits for.
Blockers(p) ==
  LET n == Needs(p)
  IN  ({lock[r] : r \in n.write \cup n.del}
         \cup (UNION {share[r] : r \in n.del})
         \cup {lock[r] : r \in {x \in n.key : com[x] # NoRow /\ cur[x] = NoRow}})
      \ {p, Nobody}

\* p is in a circle of requests that wait for each other.
Deadlocked(p) ==
  \E S \in SUBSET Request :
    /\ p \in S
    /\ \A q \in S : Blockers(q) \cap S # {} /\ \E r \in S : q \in Blockers(r)

-----------------------------------------------------------------------------
(* How a statement ends.                                                   *)

NoOp == [kind |-> "none"]

NoLocals ==
  [id |-> NoTag, par |-> NoTag, todo |-> <<>>, known |-> {}, proto |-> {}, th |-> [x \in TagId |-> NoTag],
   bs |-> {}, b |-> NoTag, have |-> {}, want |-> {}, gone |-> {}, via |-> NoTag, name |-> EmptyName,
   add |-> {}, del |-> {}, set |-> {}, clear |-> {}]

Go(p, s) == steps' = [steps EXCEPT ![p] = s]
Done(p) == Go(p, Tail(steps[p]))
Set(p, l) == loc' = [loc EXCEPT ![p] = l]
\* The end of a transaction: its locks go, and so do the request's variables.
Free(p) ==
  /\ op' = [op EXCEPT ![p] = NoOp]
  /\ Set(p, NoLocals)
  /\ lock' = [r \in Row |-> IF lock[r] = p THEN Nobody ELSE lock[r]]
  /\ share' = [x \in TagId |-> share[x] \ {p}]

\* (variant: the transaction is not rolled back)
Fail_NoRollback(p) ==
  /\ Go(p, <<>>)
  /\ out' = [out EXCEPT ![p] = "failed"]
  /\ UNCHANGED <<rows, fresh, op, loc>>

\* A statement or a check fails: TxOpt rolls back.  SetTaggings ignores an error
\* of its INSERTs, but every later statement of the transaction, COMMIT included,
\* then fails as well.
Fail(p) ==
  /\ cur' = [r \in Row |-> IF lock[r] = p THEN com[r] ELSE cur[r]]
  /\ Free(p)
  /\ Go(p, <<>>)
  /\ out' = [out EXCEPT ![p] = "failed"]
  /\ UNCHANGED <<com, fresh>>

\* The goroutine panics in fn: TxOpt neither commits nor rolls back, and the
\* transaction stays open with its locks.
Panic(p) ==
  /\ Go(p, <<>>)
  /\ out' = [out EXCEPT ![p] = "panicked"]
  /\ UNCHANGED <<rows, fresh, op, loc>>

\* The statement only reads: its result is kept in l, s is what remains to do.
Read(p, l, s) ==
  /\ Set(p, l)
  /\ Go(p, s)
  /\ UNCHANGED <<rows, fresh, op, out>>

\* The statement writes val(r) to the rows of W, and its foreign keys refer to
\* the tags in K.
Write(p, W, K, val(_)) ==
  /\ cur' = [r \in Row |-> IF r \in W THEN val(r) ELSE cur[r]]
  /\ lock' = [r \in Row |-> IF r \in W THEN p ELSE lock[r]]
  /\ share' = [x \in TagId |-> IF x \in K THEN share[x] \cup {p} ELSE share[x]]
  /\ UNCHANGED <<com, op, out>>

Present(p, W) == {r \in W : Sees(p, r) # NoRow}

\* UPDATE of rows: those that do not exist are passed over without an error.
Update(p, W, val(_)) ==
  /\ Blockers(p) = {}
  /\ Write(p, Present(p, W), {}, val)
  /\ Done(p)
  /\ UNCHANGED <<fresh, loc>>

-----------------------------------------------------------------------------
(* A request starts when its client sends it; the tags it names exist.     *)

LocalsOf(o) ==
  CASE o.kind = "create" -> [NoLocals EXCEPT !.par = o.par, !.add = o.names]
    [] o.kind = "move"   -> [NoLocals EXCEPT !.id = o.id, !.todo = <<o.id, o.par>>]
    [] o.kind = "tag"    -> [NoLocals EXCEPT !.b = o.b, !.todo = o.list]
    [] OTHER             -> [NoLocals EXCEPT !.id = o.id]

\* A creation starts only while an id is left for it: a bound of the model.
Start(p) ==
  /\ out[p] = "" /\ ~Open(p)
  /\ \E o \in Ops(Tags) :
       /\ o.kind \in Kinds
       /\ o.kind = "create" =>
            Cardinality({q \in Request : Open(q) /\ op[q].kind = "create"}) < Cardinality(fresh)
       /\ \A q \in Request : Open(q) => Clash(o, op[q]) \subseteq Races
       /\ op' = [op EXCEPT ![p] = o]
       /\ Go(p, Steps(o))
       /\ Set(p, LocalsOf(o))
  /\ UNCHANGED <<rows, fresh, out>>

-----------------------------------------------------------------------------
(* CreateTag                                                               *)

\* SELECT id FROM tags WHERE id = parentID
SelectParent(p) ==
  /\ At(p, "select")
  /\ IF op[p].par \in SeesTags(p) THEN Read(p, loc[p], Tail(steps[p])) ELSE Fail(p)

CountedUp(p, x) == [Sees(p, x) EXCEPT !.cnt = @ + 1]
CountedDown(p, x) == [Sees(p, x) EXCEPT !.cnt = @ - 1]

\* UPDATE tags SET children_cnt = children_cnt + 1: CreateTag, UpdateTag
CountUp(p) ==
  /\ At(p, "count") \/ At(p, "inc")
  /\ LET Val(x) == CountedUp(p, x) IN Update(p, {op[p].par}, Val)

\* INSERT INTO tags: the foreign key to the parent is checked.
InsertTag(p) ==
  /\ At(p, "insert")
  /\ Blockers(p) = {}
  /\ IF op[p].par \notin SeesTags(p) THEN Fail(p)
     ELSE \E id \in fresh :
            /\ LET Val(x) == [parent |-> op[p].par, cnt |-> 0]
               IN  Write(p, {id}, {op[p].par}, Val)
            /\ fresh' = fresh \ {id}
            /\ loc' = [loc EXCEPT ![p].id = id]
            /\ Done(p)

-----------------------------------------------------------------------------
(* addTagName for each of the names to add: the check, then the INSERT.    *)

\* tagExists for one of the names
CheckName(p) ==
  /\ At(p, "addNames")
  /\ LET l == loc[p]
     IN  IF l.add = {} THEN Read(p, l, Tail(steps[p]))
         ELSE \E n \in l.add :
                IF \E y \in KidsSeen(p, l.par) : n \in NamesSeen(p, y) THEN Fail(p)
                ELSE Read(p, [l EXCEPT !.name = n, !.add = @ \ {n}],
                          <<"insertName">> \o steps[p])

\* INSERT INTO tag_names: the row must be new and its tag must exist.
InsertName(p) ==
  /\ At(p, "insertName")
  /\ Blockers(p) = {}
  /\ LET l == loc[p]
         r == <<l.id, l.name>>
         Val(x) == op[p].kind = "create" /\ l.name = op[p].first
     IN  IF Sees(p, r) # NoRow \/ l.id \notin SeesTags(p) THEN Fail(p)
         ELSE /\ Write(p, {r}, {l.id}, Val)
              /\ Done(p)
              /\ UNCHANGED <<fresh, loc>>

-----------------------------------------------------------------------------
(* UpdateTag, the names.                                                   *)

\* GetTagNames and getNamesDiff, which takes the first name for the primary
\* one, and panics when the tag has no name left.
GetNames(p) ==
  /\ At(p, "getNames")
  /\ LET l == loc[p]
         now == NamesSeen(p, l.id)
         flagged == {n \in now : Sees(p, <<l.id, n>>)}
     IN  IF now = {} THEN Panic(p)
         ELSE \E first \in IF flagged = {} THEN now ELSE flagged :
                Read(p, [l EXCEPT !.add = op[p].names \ now,
                                  !.del = now \ op[p].names,
                                  !.set = {op[p].first} \ {first},
                                  !.clear = (op[p].names \cap {first}) \ {op[p].first}],
                     Tail(steps[p]))

\* GetTag, for the parent under which the names to add must be new
GetParent(p) ==
  /\ At(p, "getParent")
  /\ LET l == loc[p]
     IN  IF l.add = {} THEN Read(p, l, Tail(steps[p]))
         ELSE IF l.id \notin SeesTags(p) THEN Fail(p)
         ELSE Read(p, [l EXCEPT !.par = Sees(p, l.id).parent], Tail(steps[p]))

\* deleteTagName
DeleteNames(p) ==
  /\ At(p, "delNames")
  /\ LET Val(r) == NoRow IN Update(p, {<<loc[p].id, n>> : n \in loc[p].del}, Val)

\* setTagNamePrimary, for the former and for the new primary name
SetPrimary(p) ==
  /\ At(p, "setPrimary")
  /\ LET l == loc[p]
         Val(r) == r[2] \in l.set
     IN  Update(p, {<<l.id, n>> : n \in l.set \cup l.clear}, Val)

-----------------------------------------------------------------------------
(* TagHier.Add: the tags still to add are asked for their parents, one     *)
(* after the other, until all paths have reached a tag without a parent.   *)

Walk(p) ==
  /\ At(p, "walk")
  /\ LET l == loc[p]
         x == Head(l.todo)
         par == Sees(p, x).parent
     IN  IF l.todo = <<>> THEN Read(p, l, Tail(steps[p]))
         ELSE IF x \in l.known THEN Read(p, [l EXCEPT !.todo = Tail(@)], steps[p])
         ELSE IF x \notin SeesTags(p) THEN Fail(p)
         ELSE Read(p, [l EXCEPT !.known = @ \cup {x}, !.th[x] = par,
                                !.todo = (IF par = NoTag THEN <<>> ELSE <<par>>) \o Tail(@)],
                   steps[p])

-----------------------------------------------------------------------------
(* UpdateTag, the move.                                                    *)

\* IsSubnode on what was read, then GetTaggedTaggableIDs
GetAffected(p) ==
  /\ At(p, "affected")
  /\ LET o == op[p]
         l == loc[p]
     IN  IF o.id \in Path(l.th, o.par) THEN Fail(p)
         ELSE Read(p, [l EXCEPT !.par = l.th[o.id],
                                !.proto = l.known,
                                !.bs = {b \in Taggable : o.id \in TagsSeen(p, b)}],
                   Tail(steps[p]))

\* GetTaggings of the next affected bookmark, to be added to a copy of hierProto
NextBookmark(p) ==
  /\ At(p, "retag")
  /\ LET l == loc[p]
         New(b) == TagsSeen(p, b) \ l.proto
     IN  IF l.bs = {} THEN Read(p, l, Tail(steps[p]))
         ELSE \E b \in l.bs : \E order \in [1..Cardinality(New(b)) -> New(b)] :
                /\ {order[i] : i \in DOMAIN order} = New(b)
                /\ Read(p, [l EXCEPT !.b = b, !.bs = @ \ {b}, !.todo = order,
                                     !.known = l.proto],
                        <<"walk", "current", "apply">> \o steps[p])

\* SetTaggings: GetTaggings once more, and GetDiff with the desired tags, which
\* are those of the bookmark after TagHier.Move, or the paths of those given.
Current(p) ==
  /\ At(p, "current")
  /\ LET o == op[p]
         l == loc[p]
         Desire(W) == Read(p, [l EXCEPT !.want = W, !.have = TagsSeen(p, l.b)], Tail(steps[p]))
     IN  IF o.kind = "tag" THEN Desire(l.known)
         ELSE IF o.kind = "delete" THEN Desire({})
         ELSE IF MovePanics(l.th, l.known, o.id, o.par, o.policy = "del") THEN Panic(p)
         ELSE Desire(TagsAfterMove(l.th, l.known, o.id, o.par, o.policy = "del"))

\* addTaggings and deleteTaggings
Apply(p) ==
  /\ At(p, "apply")
  /\ Blockers(p) = {}
  /\ LET l == loc[p]
         added == l.want \ l.have
         new == {<<l.b, x>> : x \in added}
         Val(r) == IF r \in new THEN TRUE ELSE NoRow
     IN  IF Present(p, new) # {} \/ ~(added \subseteq SeesTags(p)) THEN Fail(p)
         ELSE /\ Write(p, new \cup Present(p, {<<l.b, x>> : x \in l.have \ l.want}), added, Val)
              /\ Done(p)
              /\ UNCHANGED <<fresh, loc>>

\* UPDATE tags SET parent_id: the foreign key to the new parent is checked.
SetParent(p) ==
  /\ At(p, "setParent")
  /\ Blockers(p) = {}
  /\ LET o == op[p]
         Val(x) == [Sees(p, x) EXCEPT !.parent = o.par]
         W == Present(p, {o.id})
     IN  IF W # {} /\ o.par \notin SeesTags(p) THEN Fail(p)
         ELSE /\ Write(p, W, IF W = {} THEN {} ELSE {o.par}, Val)
              /\ Done(p)
              /\ UNCHANGED <<fresh, loc>>

\* UPDATE tags SET children_cnt = children_cnt - 1, of the parent that was read
\* before: UpdateTag, DeleteTag
CountDown(p) ==
  /\ At(p, "dec") \/ At(p, "uncount")
  /\ LET Val(x) == CountedDown(p, x) IN Update(p, {loc[p].par} \ {NoTag}, Val)

-----------------------------------------------------------------------------
(* DeleteTag.                                                              *)

\* GetTag; the root is refused before anything is sent to the database.
GetTag(p) ==
  /\ At(p, "getTag")
  /\ LET id == op[p].id
     IN  IF id \notin SeesTags(p) THEN Fail(p)
         ELSE Read(p, [loc[p] EXCEPT !.par = Sees(p, id).parent, !.gone = {<<id, NoTag>>}],
                   Tail(steps[p]))

\* The rows that DELETE and the cascade to the subtags still have to look at,
\* with the parent they were found under.
NextRow(p) ==
  /\ At(p, "cascade")
  /\ LET l == loc[p]
     IN  IF l.gone = {} THEN Read(p, l, Tail(steps[p]))
         ELSE \E e \in l.gone : Read(p, [l EXCEPT !.id = e[1], !.via = e[2], !.gone = @ \ {e}],
                                     <<"deleteRow">> \o steps[p])

\* One row with its names and its taggings; a row that is gone, or that has
\* moved elsewhere, is passed over.
DeleteRow(p) ==
  /\ At(p, "deleteRow")
  /\ Blockers(p) = {}
  /\ LET l == loc[p]
         x == l.id
         Val(r) == NoRow
     IN  IF x \notin SeesTags(p) \/ (l.via # NoTag /\ Sees(p, x).parent # l.via)
           THEN Done(p) /\ UNCHANGED <<rows, fresh, op, loc, out>>
           ELSE /\ Write(p, {x} \cup Cascades(p, x), {}, Val)
                /\ loc' = [loc EXCEPT ![p].gone = @ \cup {<<y, x>> : y \in KidsSeen(p, x)}]
                /\ Done(p)
                /\ UNCHANGED fresh

\* getTaggablesTaggedWithOnlyOneTag, when the tag was right under the root
GetRootOnly(p) ==
  /\ At(p, "clean")
  /\ LET l == loc[p]
         only == {b \in Taggable : TagsSeen(p, b) = {Root}}
     IN  IF l.par = Root
           THEN Read(p, [l EXCEPT !.bs = only], <<"untag">> \o Tail(steps[p]))
           ELSE Read(p, l, Tail(steps[p]))

\* SetTaggings(b, {}) for each of them
NextRootOnly(p) ==
  /\ At(p, "untag")
  /\ LET l == loc[p]
     IN  IF l.bs = {} THEN Read(p, l, Tail(steps[p]))
         ELSE \E b \in l.bs : Read(p, [l EXCEPT !.b = b, !.bs = @ \ {b}],
                                   <<"current", "apply">> \o steps[p])

-----------------------------------------------------------------------------
(* UpdateBookmark                                                          *)

UpdateBookmark(p) ==
  /\ At(p, "bookmark")
  /\ LET Val(r) == TRUE IN Update(p, {op[p].b}, Val)

-----------------------------------------------------------------------------
Commit(p) ==
  /\ At(p, "commit")
  /\ com' = [r \in Row |-> IF lock[r] = p THEN cur[r] ELSE com[r]]
  /\ Free(p)
  /\ Go(p, <<>>)
  /\ out' = [out EXCEPT ![p] = "committed"]
  /\ UNCHANGED <<cur, fresh>>

\* PostgreSQL fails a statement of one of the transactions in a deadlock.
DeadlockVictim(p) ==
  /\ Open(p)
  /\ Deadlocked(p)
  /\ Fail(p)

RequestStep(p) ==
  \/ Start(p) \/ SelectParent(p) \/ CountUp(p) \/ InsertTag(p)
  \/ CheckName(p) \/ InsertName(p)
  \/ GetNames(p) \/ GetParent(p) \/ DeleteNames(p) \/ SetPrimary(p)
  \/ Walk(p) \/ GetAffected(p) \/ NextBookmark(p) \/ Current(p) \/ Apply(p)
  \/ SetParent(p) \/ CountDown(p)
  \/ GetTag(p) \/ NextRow(p) \/ DeleteRow(p) \/ GetRootOnly(p) \/ NextRootOnly(p)
  \/ UpdateBookmark(p)
  \/ Commit(p) \/ DeadlockVictim(p)

\* Every request has ended, or hangs behind one that panicked and left its
\* transaction open.
Finished ==
  /\ \A p \in Request : out[p] # "" \/ (Blockers(p) # {} /\ ~Deadlocked(p))
  /\ UNCHANGED vars

Next == Finished \/ \E p \in Request : RequestStep(p)

-----------------------------------------------------------------------------
(* The rows requests find: any that TagStore can get to.                   *)

RowsOf(T, p, nm, tg) ==
  [r \in Row |->
     IF r \in TagId THEN (IF r \in T THEN [parent |-> p[r], cnt |-> Cardinality(Kids(p, r))] ELSE NoRow)
     ELSE IF r \in Taggable THEN TRUE
     ELSE IF r \in NameRow THEN (IF r[1] \in T /\ nm[r[1]] = r[2] THEN TRUE ELSE NoRow)
     ELSE (IF r[2] \in tg[r[1]] THEN TRUE ELSE NoRow)]

Init ==
  /\ \E T \in SUBSET TagId : \E p \in [TagId -> T \cup {NoTag}],
        nm \in [T -> Name \cup {EmptyName}], tg \in [Taggable -> SUBSET T] :
       /\ \A x \in TagId \ T : p[x] = NoTag
       /\ Rooted(p, T, Root)
       /\ \A x \in T : nm[x] = EmptyName <=> x = Root
       /\ \A x, y \in T : x # y /\ p[x] = p[y] => nm[x] # nm[y]
       /\ \A b \in Taggable : Closed(p, tg[b]) /\ tg[b] # {Root}
       /\ com = RowsOf(T, p, nm, tg)
       /\ fresh = TagId \ T
  /\ cur = com
  /\ lock = [r \in Row |-> Nobody]
  /\ share = [x \in TagId |-> {}]
  /\ op = [p \in Request |-> NoOp]
  /\ steps = [p \in Request |-> <<>>]
  /\ loc = [p \in Request |-> NoLocals]
  /\ out = [p \in Request |-> ""]

Spec == Init /\ [][Next]_vars

-----------------------------------------------------------------------------
(* Serial requests, as TagStore has them.                                  *)
Serial == INSTANCE TagStore
            WITH tags <- Tags, parent <- Parent, childrenCnt <- Cnt, names <- Names,
                 primary <- Primary, taggables <- Taggable, taggings <- Taggings,
                 panicked <- FALSE,
                 Unusual <- {"DelMoveToSameParent", "MoveOntoSameName", "TagWithRootOnly"}

\* Every commit is one request of TagStore on the committed rows: the requests
\* that overlap, statement by statement, have the effect they would have one
\* after the other, in the order they are committed.
Serializable == [][com' # com => Serial!Next]_vars

\* A request waits only for requests whose transaction is open: one that was
\* committed or rolled back holds no lock.  And wherever a request waits, then among
\* those it waits for, directly or through others, one can go on, or is in a circle
\* that PostgreSQL breaks, or has panicked (TxOpt then neither commits nor rolls
\* back): no request waits for good unless a goroutine has panicked before it.
WaitsForOpen ==
  \A p \in Request :
    /\ \A q \in Blockers(p) : Holds(q)
    /\ Blockers(p) # {} =>
         \A S \in SUBSET Request :
           p \in S /\ (\A q \in S : Blockers(q) \subseteq S) =>
             \E q \in S : \/ Open(q) /\ (Blockers(q) = {} \/ Deadlocked(q))
                         \/ out[q] = "panicked"

\* UpdateTag: "Make sure that the new parent is not the current tag or one of its
\* descendants"; checkTaggings: the committed tags form one tree.
CommittedTree == Serial!OneTree
=============================================================================
