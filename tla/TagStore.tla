------------------------------ MODULE TagStore ------------------------------
(***************************************************************************)
(* The tags, tag names and taggings of one user, as the tables tags,       *)
(* tag_names and taggings hold them, under the operations of package       *)
(* storage/postgres that change them.  A request runs in one transaction   *)
(* (StoragePostgres.TxOpt): an error rolls it back, so a request that      *)
(* fails leaves no trace and is not a step here.  Requests are serial in   *)
(* this module.                                                            *)
(*                                                                         *)
(* The columns that no integrity rule reads (descriptions, URLs, titles,   *)
(* times) are left out.  A tag's list of names is a set of names and its   *)
(* first element, the only order the code uses.                            *)
(***************************************************************************)
EXTENDS TagTree

CONSTANTS Name,        \* names that ValidateTagName accepts
          EmptyName,   \* "", the name the root tag is created with
          Taggable,    \* ids the table taggables may hold
          MaxNames,    \* bound: names a request gives to one tag
          Unusual      \* the unusual requests that clients make, see below

(***************************************************************************)
(* Requests the code accepts and that break one of its own rules.  Each    *)
(* is a step of the system only when Unusual contains it, so that what     *)
(* holds without them can be stated, and what each breaks can be shown.    *)
(***************************************************************************)
UnusualRequests ==
  {"DelMoveToSameParent",  \* move with policy "del" to the parent it has
   "MoveOntoSameName",     \* move next to a tag that has one of its names
   "TagWithRootOnly"}      \* bookmark tagged with the root tag alone

ASSUME NameAssumption == EmptyName \notin Name
ASSUME UnusualAssumption == Unusual \subseteq UnusualRequests

ASSUME MaxNamesAssumption == MaxNames \in Nat \ {0}

AnyName == Name \cup {EmptyName}
NameSet == {N \in SUBSET AnyName : N # {} /\ Cardinality(N) <= MaxNames}
LeafPolicy == {"keep", "del"}

VARIABLES
  tags,         \* ids of the rows of tags
  parent,       \* tags.parent_id, NoTag for NULL and for ids not in use
  childrenCnt,  \* tags.children_cnt
  names,        \* tag_names.name by tag_id
  primary,      \* the names of a tag with tag_names.primary set
  taggables,    \* ids of the rows of taggables
  taggings,     \* taggings.tag_id by taggable_id
  panicked      \* whether a request has ended in a panic of its goroutine

vars == <<tags, parent, childrenCnt, names, primary, taggables, taggings,
          panicked>>
nameVars == <<names, primary>>
tagVars == <<tags, parent, childrenCnt, names, primary>>

TypeOK ==
  /\ tags \subseteq TagId
  /\ parent \in [TagId -> tags \cup {NoTag}]
  /\ \A x \in TagId \ tags : parent[x] = NoTag
  /\ childrenCnt \in [TagId -> Int]
  /\ names \in [TagId -> SUBSET AnyName]
  /\ primary \in [TagId -> SUBSET AnyName]
  /\ taggables \subseteq Taggable
  /\ taggings \in [Taggable -> SUBSET tags]
  /\ panicked \in BOOLEAN

\* A user that has just been created owns the root tag and nothing else.
Init ==
  /\ tags = {Root}
  /\ parent = [x \in TagId |-> NoTag]
  /\ childrenCnt = [x \in TagId |-> 0]
  /\ names = [x \in TagId |-> IF x = Root THEN {EmptyName} ELSE {}]
  /\ primary = names
  /\ taggables = {}
  /\ taggings = [b \in Taggable |-> {}]
  /\ panicked = FALSE

-----------------------------------------------------------------------------
(* tagExists: is n the name of a tag under par?  No tag is under NoTag,    *)
(* since NULL equals nothing in SQL.                                       *)
NamesUnder(p, nm, par) ==
  IF par = NoTag THEN {} ELSE UNION {nm[y] : y \in Kids(p, par)}

\* (variant: the check looks under the parent the tag had before the request)
NameTaken_OldParent(p, id, n) == n \in NamesUnder(parent, names, parent[id])

\* The name check of addTagName for a tag that has the parent p[id] by now.
NameTaken(p, id, n) == n \in NamesUnder(p, names, p[id])

\* CreateTag: counts the child, inserts the tag, then its names, the first of
\* them primary; addTagName refuses a name that the parent's children have.
CreateTag(par, id, N, first) ==
  /\ par \in tags
  /\ id \in TagId \ tags
  /\ N \subseteq Name
  /\ first \in N
  /\ N \cap NamesUnder(parent, names, par) = {}
  /\ tags' = tags \cup {id}
  /\ parent' = [parent EXCEPT ![id] = par]
  /\ childrenCnt' = [childrenCnt EXCEPT ![par] = @ + 1]
  /\ names' = [names EXCEPT ![id] = N]
  /\ primary' = [primary EXCEPT ![id] = {first}]
  /\ UNCHANGED <<taggables, taggings, panicked>>

\* userTagsPost with createIntermediary for a path whose last tag but one, mid,
\* does not exist: getTagIDFromPath creates it in the same transaction.
CreateTagWithIntermediary(par, mid, midName, id, N, first) ==
  /\ par \in tags
  /\ mid \in TagId \ tags
  /\ id \in TagId \ (tags \cup {mid})
  /\ N \subseteq Name
  /\ first \in N
  /\ midName \notin NamesUnder(parent, names, par)
  /\ tags' = tags \cup {mid, id}
  /\ parent' = [parent EXCEPT ![mid] = par, ![id] = mid]
  /\ childrenCnt' = [childrenCnt EXCEPT ![par] = @ + 1, ![mid] = 1]
  /\ names' = [names EXCEPT ![mid] = {midName}, ![id] = N]
  /\ primary' = [primary EXCEPT ![mid] = {midName}, ![id] = {first}]
  /\ UNCHANGED <<taggables, taggings, panicked>>

-----------------------------------------------------------------------------
(* UpdateTag moves a tag, renames it, or does both.                        *)

\* (variant: the new parent's path is not added)
HierCur_NoNewParent(b, id, newParent) ==
  UpClosure(parent, taggings[b] \cup {id})

\* The tags a bookmark's TagHier holds before the move: hierProto has the
\* paths of the tag and of the new parent, hierCur the bookmark's tags too.
HierCur(b, id, newParent) ==
  UpClosure(parent, taggings[b] \cup {id, newParent})

\* (variant: only the tag itself is refused)
UnderItself_SelfOnly(id, newParent) == newParent = id

\* The new parent must not be the tag itself or one of its descendants
\* (IsSubnode).
UnderItself(id, newParent) == id \in Path(parent, newParent)

\* (variant: the old parent's count is not brought down)
CntAfterMove_NoDecrement(id, newParent) ==
  [childrenCnt EXCEPT ![newParent] = @ + 1]

\* The two UPDATEs of children_cnt run one after the other, so a move to the
\* same parent leaves the count as it was.
CntAfterMove(id, newParent) ==
  [[childrenCnt EXCEPT ![parent[id]] = @ - 1] EXCEPT ![newParent] = @ + 1]

\* GetTaggedTaggableIDs(id): taggables tagged with id (or a tag under it, as
\* those are tagged with id too).
Affected(id) == {b \in taggables : id \in taggings[b]}

CanMove(id, newParent, policy) ==
  /\ id \in tags
  /\ newParent \in tags
  /\ ~UnderItself(id, newParent)
  /\ (policy = "del" /\ newParent = parent[id])
       => "DelMoveToSameParent" \in Unusual
  /\ (newParent # parent[id]
      /\ names[id] \cap NamesUnder(parent, names, newParent) # {})
       => "MoveOntoSameName" \in Unusual

MovesAll(id, newParent, policy) ==
  \A b \in Affected(id) :
    ~MovePanics(parent, HierCur(b, id, newParent), id, newParent, policy = "del")

MoveTag(id, newParent, policy) ==
  /\ CanMove(id, newParent, policy)
  /\ MovesAll(id, newParent, policy)
  /\ taggings' =
       [b \in Taggable |->
          IF b \in Affected(id)
            THEN TagsAfterMove(parent, HierCur(b, id, newParent), id, newParent,
                               policy = "del")
            ELSE taggings[b]]
  /\ parent' = [parent EXCEPT ![id] = newParent]
  /\ childrenCnt' = CntAfterMove(id, newParent)

\* (variant: the flag of the former primary name is not cleared)
PrimaryAfter_NotCleared(prim, cur, N, first) == (prim \cap N) \cup {first}

\* getNamesDiff and setTagNamePrimary: the rows with the primary flag after the
\* names became N, when cur was taken for the primary name.
PrimaryAfter(prim, cur, N, first) ==
  IF cur = first THEN prim \cap N ELSE ((prim \ {cur}) \cap N) \cup {first}

\* UpdateTag with names: getNamesDiff, then the additions (checked against the
\* children of the parent the tag has by now), the deletions and the change of
\* the primary name.  GetTagNames sorts by "primary", so the name the code
\* takes for the current primary one is any with the flag set.
SetNames(id, N, first) ==
  /\ id \in tags
  /\ first \in N
  /\ EmptyName \notin N \ names[id]
  /\ \A n \in N \ names[id] : ~NameTaken(parent', id, n)
  /\ names' = [names EXCEPT ![id] = N]
  /\ \E cur \in IF primary[id] # {} THEN primary[id] ELSE names[id] :
       primary' = [primary EXCEPT ![id] = PrimaryAfter(@, cur, N, first)]

RenameTag(id, N, first) ==
  /\ UNCHANGED <<tags, parent, childrenCnt, taggables, taggings, panicked>>
  /\ SetNames(id, N, first)

MoveOnly(id, newParent, policy) ==
  /\ MoveTag(id, newParent, policy)
  /\ UNCHANGED <<tags, names, primary, taggables, panicked>>

MoveAndRename(id, newParent, policy) ==
  /\ MoveTag(id, newParent, policy)
  /\ \E N \in NameSet : \E first \in N : SetNames(id, N, first)
  /\ UNCHANGED <<tags, taggables, panicked>>

\* The move of one of the affected bookmarks panics: nothing is committed.
MovePanic(id, newParent, policy) ==
  /\ CanMove(id, newParent, policy)
  /\ ~MovesAll(id, newParent, policy)
  /\ panicked' = TRUE
  /\ UNCHANGED <<tagVars, taggables, taggings>>

-----------------------------------------------------------------------------
(* DeleteTag (policy "keep", the only one implemented).  The subtree, its  *)
(* names and its taggings go by ON DELETE CASCADE.                         *)

CntAfterDelete(id) ==
  [x \in TagId |-> IF x \in Subtree(parent, id) THEN 0
                   ELSE IF x = parent[id] THEN childrenCnt[x] - 1
                   ELSE childrenCnt[x]]

\* (variant: the clean-up is missing)
TaggingsAfterDelete_NoCleanUp(b, id) == taggings[b] \ Subtree(parent, id)

\* After the deletion of a tag right under the root, bookmarks left with the
\* root tag only are untagged.
TaggingsAfterDelete(b, id) ==
  LET left == taggings[b] \ Subtree(parent, id)
  IN  IF parent[id] = Root /\ left = {Root} THEN {} ELSE left

DeleteTag(id) ==
  /\ id \in tags \ {Root}
  /\ LET gone == Subtree(parent, id)
     IN  /\ tags' = tags \ gone
         /\ parent' = [x \in TagId |-> IF x \in gone THEN NoTag ELSE parent[x]]
         /\ names' = [x \in TagId |-> IF x \in gone THEN {} ELSE names[x]]
         /\ primary' = [x \in TagId |-> IF x \in gone THEN {} ELSE primary[x]]
  /\ childrenCnt' = CntAfterDelete(id)
  /\ taggings' = [b \in Taggable |-> TaggingsAfterDelete(b, id)]
  /\ UNCHANGED <<taggables, panicked>>

-----------------------------------------------------------------------------
(* Taggables: a bookmark is created and updated with the tags its user     *)
(* chose, SetTaggings in mode "leafs" adds their ancestors.                *)
\* (variant: the ancestors are not added)
TagsFor_NoAncestors(I) == I

TagsFor(I) == UpClosure(parent, I)

SetTaggings(b, I) ==
  /\ I \subseteq tags
  /\ I = {Root} => "TagWithRootOnly" \in Unusual
  /\ taggings' = [taggings EXCEPT ![b] = TagsFor(I)]

CreateTaggable(b, I) ==
  /\ b \in Taggable \ taggables
  /\ SetTaggings(b, I)
  /\ taggables' = taggables \cup {b}
  /\ UNCHANGED <<tagVars, panicked>>

UpdateTaggable(b, I) ==
  /\ b \in taggables
  /\ SetTaggings(b, I)
  /\ UNCHANGED <<tagVars, taggables, panicked>>

DeleteTaggable(b) ==
  /\ b \in taggables
  /\ taggables' = taggables \ {b}
  /\ taggings' = [taggings EXCEPT ![b] = {}]
  /\ UNCHANGED <<tagVars, panicked>>

\* Bookmarks by tags: those with all of the tags, or those without any.
GetTaggedTaggableIDs(S) ==
  {b \in taggables : IF S = {} THEN taggings[b] = {} ELSE S \subseteq taggings[b]}

-----------------------------------------------------------------------------
(* What CheckIntegrity (maintenance.go) checks, and what the code assumes. *)

\* checkTaggings: the tags form one tree with one root.
OneTree == Rooted(parent, tags, Root)

\* checkChildrenCnt: children_cnt is the number of children.
ChildrenCntOK ==
  \A x \in tags : childrenCnt[x] = Cardinality(Kids(parent, x))

\* checkFullTaggingsPath: a bookmark tagged with a tag is tagged with every
\* tag on the path from the root to it.
FullTaggingPath == \A b \in Taggable : Closed(parent, taggings[b])

\* checkOnlyRootTagging: no bookmark is tagged with the root tag only.
NoRootOnlyTagging == \A b \in Taggable : taggings[b] # {Root}

\* addTagName: no two tags under one parent share a name.
SiblingNamesDistinct ==
  \A x, y \in tags : x # y /\ parent[x] = parent[y] => names[x] \cap names[y] = {}

\* getTagsInternal joins the names with the primary name, so a tag with no
\* primary name would vanish from the tree and one with two would be doubled.
OnePrimaryName ==
  \A x \in tags : \E n \in names[x] : primary[x] = {n}

\* No request makes taghier.go dereference the item of id 0.
NoPanic == ~panicked

\* A search for tags finds the bookmarks that have, for each of them, a tag of their
\* own at it or under it, and a search for none those without a tag: searching needs
\* no look at the tree (GetTaggedTaggableIDs).
SearchFindsBelow ==
  \A S \in SUBSET tags :
    GetTaggedTaggableIDs(S) =
      {b \in taggables :
         LET own == Leafs(parent, taggings[b])
         IN  IF S = {} THEN own = {}
             ELSE \A x \in S : own \cap Subtree(parent, x) # {}}

\* Ids that are not in use have no children and no taggings.
UnusedOK ==
  /\ \A x \in TagId \ tags : childrenCnt[x] = 0
  /\ \A b \in Taggable \ taggables : taggings[b] = {}

\* The part of the invariant that every request keeps, unusual ones included.
TreeInv == TypeOK /\ OneTree /\ UnusedOK

-----------------------------------------------------------------------------
Next ==
  \/ \E par, id \in TagId, N \in NameSet : \E first \in N :
       CreateTag(par, id, N, first)
  \/ \E par, mid, id \in TagId, midName \in Name, N \in NameSet :
       \E first \in N : CreateTagWithIntermediary(par, mid, midName, id, N, first)
  \/ \E id \in TagId, N \in NameSet : \E first \in N :
       RenameTag(id, N, first)
  \/ \E id, newParent \in TagId, policy \in LeafPolicy :
       MoveOnly(id, newParent, policy)
  \/ \E id, newParent \in TagId, policy \in LeafPolicy :
       MoveAndRename(id, newParent, policy)
  \/ \E id, newParent \in TagId, policy \in LeafPolicy :
       MovePanic(id, newParent, policy)
  \/ \E id \in TagId : DeleteTag(id)
  \/ \E b \in Taggable, I \in SUBSET TagId : CreateTaggable(b, I)
  \/ \E b \in Taggable, I \in SUBSET TagId : UpdateTaggable(b, I)
  \/ \E b \in Taggable : DeleteTaggable(b)

Spec == Init /\ [][Next]_vars

-----------------------------------------------------------------------------
\* The tables implement BookmarkTags: what the user sees as the tags of a
\* bookmark is the lowest ones of its taggings (TaggingModeLeafs).
Promise == INSTANCE BookmarkTags
             WITH chosen <- [b \in Taggable |-> Leafs(parent, taggings[b])]

\* Every request does to each bookmark's own tags what BookmarkTags says, the
\* closure of the taggings, the policies and the clean-up included.
ImplementsBookmarkTags == Promise!Spec
=============================================================================
