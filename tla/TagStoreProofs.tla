---------------------------- MODULE TagStoreProofs ----------------------------
(***************************************************************************)
(* The integrity rules of TagStore, for every number of tags, names and    *)
(* bookmarks.  TreeInv holds whatever clients ask for; each of the other   *)
(* rules holds on top of it for clients that make none of the unusual      *)
(* requests named in its theorem.  What is read from the tables            *)
(* (TagLookup) is right because of these rules.                            *)
(***************************************************************************)
EXTENDS TagLookup, TagTreeProofs, FiniteSetTheorems, SequenceTheorems

\* In a state that satisfies TreeInv the columns parent_id form a tree.
LEMMA TreeFacts ==
  ASSUME TreeInv
  PROVE  /\ tags \in SUBSET TagId
         /\ parent \in ParentMap
         /\ Rooted(parent, tags, Root)
         /\ \A x \in TagId \ tags : parent[x] = NoTag
BY DEF TreeInv, TypeOK, OneTree, ParentMap

\* A parent is a tag or NoTag.
LEMMA ParentIsTag ==
  ASSUME TreeInv, NEW x \in TagId
  PROVE  parent[x] \in tags \cup {NoTag}
BY DEF TreeInv, TypeOK

\* All tags but the root are under a tag.
LEMMA ParentOfTag == TreeInv => \A x \in tags : x # Root => parent[x] \in tags
<1> SUFFICES ASSUME TreeInv, NEW x \in tags, x # Root PROVE parent[x] \in tags
  OBVIOUS
<1> QED
  BY TreeFacts, RootOnPath

\* The same of the tree after a step.
LEMMA ParentOfTagNext ==
  TreeInv' => \A x \in tags' : x # Root => parent'[x] \in tags'
<1>1. (TreeInv => \A x \in tags : x # Root => parent[x] \in tags)'
  BY ParentOfTag, PTL
<1> QED
  BY <1>1

\* Facts about a move that the code accepts.
LEMMA CanMoveFacts ==
  ASSUME TreeInv, NEW id \in TagId, NEW newParent \in TagId,
         NEW policy \in LeafPolicy, CanMove(id, newParent, policy)
  PROVE  /\ id \in tags /\ newParent \in tags
         /\ id \notin Path(parent, newParent)
         /\ id # Root
         /\ parent[id] \in tags
<1>1. id \in tags /\ newParent \in tags /\ id \notin Path(parent, newParent)
  BY DEF CanMove, UnderItself
<1> QED
  BY <1>1, TreeFacts, MovedTagStays, ZenonT(30)

\* The TagHier of a bookmark that is moved: full paths, with both tags.
LEMMA HierCurFacts ==
  ASSUME TreeInv, NEW id \in tags, NEW newParent \in tags, NEW b \in Taggable
  PROVE  /\ HierCur(b, id, newParent) \in SUBSET tags
         /\ Closed(parent, HierCur(b, id, newParent))
         /\ taggings[b] \cup {id, newParent} \subseteq HierCur(b, id, newParent)
<1> DEFINE I == taggings[b] \cup {id, newParent}
<1>1. I \in SUBSET tags
  BY DEF TreeInv, TypeOK
<1>2. tags \in SUBSET TagId /\ parent \in ParentMap /\ Closed(parent, tags)
  BY TreeFacts DEF Rooted
<1>3. I \subseteq UpClosure(parent, I) /\ Closed(parent, UpClosure(parent, I))
  BY <1>1, <1>2, UpClosureClosed
<1>4. UpClosure(parent, I) \subseteq tags
  BY <1>1, <1>2, UpClosureLeast
<1> QED
  BY <1>3, <1>4 DEF HierCur

-----------------------------------------------------------------------------
(* TreeInv *)

LEMMA InitTreeInv == Init => TreeInv
<1> SUFFICES ASSUME Init PROVE TreeInv
  OBVIOUS
<1>1. TypeOK
  <2>1. names \in [TagId -> SUBSET AnyName]
    BY DEF Init, AnyName
  <2>2. primary = names /\ taggables = {} /\ panicked = FALSE
    BY DEF Init
  <2>3. /\ tags \subseteq TagId
        /\ parent \in [TagId -> tags \cup {NoTag}]
        /\ \A x \in TagId \ tags : parent[x] = NoTag
    BY RootAssumption DEF Init
  <2>4. childrenCnt \in [TagId -> Int] /\ taggings \in [Taggable -> SUBSET tags]
    BY DEF Init
  <2> QED
    BY <2>1, <2>2, <2>3, <2>4 DEF TypeOK
<1>2. UnusedOK
  BY DEF Init, UnusedOK
<1>3. OneTree
  BY RootAssumption DEF Init, OneTree, Rooted, Closed
<1> QED
  BY <1>1, <1>2, <1>3 DEF TreeInv

\* CreateTag hangs a tag that is not in use under one of the tree: RootedGrow.
LEMMA CreateTagTree ==
  ASSUME TreeInv, NEW par \in TagId, NEW id \in TagId, NEW N, NEW first,
         CreateTag(par, id, N, first)
  PROVE  TreeInv'
<1>1. TypeOK' /\ UnusedOK'
  BY DEF CreateTag, TreeInv, TypeOK, UnusedOK, AnyName
<1>2. OneTree'
  <2>1. Rooted([parent EXCEPT ![id] = par], tags \cup {id}, Root)
    BY TreeFacts, RootedGrow DEF CreateTag
  <2> QED
    BY <2>1 DEF CreateTag, OneTree
<1> QED
  BY <1>1, <1>2 DEF TreeInv

\* Two tags more, one under the other: RootedGrow twice.
LEMMA CreateTagWithIntermediaryTree ==
  ASSUME TreeInv, NEW par \in TagId, NEW mid \in TagId, NEW midName \in Name,
         NEW id \in TagId, NEW N, NEW first,
         CreateTagWithIntermediary(par, mid, midName, id, N, first)
  PROVE  TreeInv'
<1> USE DEF CreateTagWithIntermediary
<1>1. TypeOK' /\ UnusedOK'
  BY DEF TreeInv, TypeOK, UnusedOK, AnyName
<1>2. OneTree'
  <2> DEFINE p1 == [parent EXCEPT ![mid] = par]
             p2 == [p1 EXCEPT ![id] = mid]
  <2>1. Rooted(p1, tags \cup {mid}, Root)
    BY TreeFacts, RootedGrow
  <2>2. p1 \in ParentMap /\ tags \cup {mid} \in SUBSET TagId
    BY TreeFacts DEF ParentMap
  <2>3. Rooted(p2, (tags \cup {mid}) \cup {id}, Root)
    <3> HIDE DEF p1
    <3> QED
      BY <2>1, <2>2, RootedGrow
  <2>4. parent' = p2 /\ tags' = (tags \cup {mid}) \cup {id}
    BY TreeFacts DEF ParentMap
  <2> QED
    BY <2>3, <2>4 DEF OneTree
<1> QED
  BY <1>1, <1>2 DEF TreeInv

\* What a move does to the tree, its names and primary flags aside.
LEMMA MoveTagTree ==
  ASSUME TreeInv, NEW id \in TagId, NEW newParent \in TagId,
         NEW policy \in LeafPolicy, MoveTag(id, newParent, policy),
         UNCHANGED <<tags, taggables, panicked>>
  PROVE  /\ OneTree' /\ UnusedOK'
         /\ parent' \in [TagId -> tags' \cup {NoTag}]
         /\ \A x \in TagId \ tags' : parent'[x] = NoTag
         /\ childrenCnt' \in [TagId -> Int]
         /\ taggings' \in [Taggable -> SUBSET tags']
<1> USE DEF MoveTag
<1>1. /\ id \in tags /\ newParent \in tags
      /\ id \notin Path(parent, newParent)
      /\ id # Root
      /\ parent[id] \in tags
  BY CanMoveFacts
<1>2. OneTree'
  BY <1>1, TreeFacts, RootedMove DEF OneTree
<1>3. childrenCnt' \in [TagId -> Int]
  BY <1>1 DEF CntAfterMove, TreeInv, TypeOK
<1>4. \A x \in TagId \ tags' : parent'[x] = NoTag /\ childrenCnt'[x] = 0
  BY <1>1 DEF CntAfterMove, TreeInv, TypeOK, UnusedOK
<1>5. \A b \in Taggable : taggings'[b] \in SUBSET tags
  <2>1. \A b \in Taggable : HierCur(b, id, newParent) \in SUBSET tags
    BY <1>1, HierCurFacts
  <2> QED
    BY <2>1 DEF TagsAfterMove, TreeInv, TypeOK
<1>6. \A b \in Taggable \ taggables : taggings'[b] = {}
  BY DEF Affected, TreeInv, UnusedOK
<1>7. parent' \in [TagId -> tags' \cup {NoTag}]
  BY <1>1 DEF TreeInv, TypeOK
<1> QED
  BY <1>2, <1>3, <1>4, <1>5, <1>6, <1>7 DEF UnusedOK

\* The names of a tag stay names, whatever getNamesDiff finds.
LEMMA SetNamesTyped ==
  ASSUME TreeInv, NEW id \in TagId, NEW N \in NameSet, NEW first \in N,
         SetNames(id, N, first)
  PROVE  /\ names' \in [TagId -> SUBSET AnyName]
         /\ primary' \in [TagId -> SUBSET AnyName]
BY DEF SetNames, PrimaryAfter, NameSet, TreeInv, TypeOK

\* DeleteTag takes a whole subtree: what is left is a tree (RootedCut) and no row
\* refers to a row that is gone.
LEMMA DeleteTagTree ==
  ASSUME TreeInv, NEW id \in TagId, DeleteTag(id)
  PROVE  TreeInv'
<1> USE DEF DeleteTag
<1>1. id \in tags /\ id # Root
  OBVIOUS
<1>2. \A x \in TagId : parent[x] \in Subtree(parent, id) => x \in Subtree(parent, id)
  BY TreeFacts, SubtreeDown
<1>3. TypeOK'
  <2>1. parent' \in [TagId -> tags' \cup {NoTag}]
    BY <1>2 DEF TreeInv, TypeOK
  <2>2. childrenCnt' \in [TagId -> Int]
    BY DEF CntAfterDelete, TreeInv, TypeOK
  <2>3. taggings' \in [Taggable -> SUBSET tags']
    BY DEF TaggingsAfterDelete, TreeInv, TypeOK
  <2> QED
    BY <2>1, <2>2, <2>3 DEF TreeInv, TypeOK
<1>4. UnusedOK'
  <2>1. ASSUME NEW x \in TagId \ tags' PROVE childrenCnt'[x] = 0
    <3>1. CASE x \in Subtree(parent, id)
      BY <3>1 DEF CntAfterDelete
    <3>2. CASE x \notin Subtree(parent, id)
      <4>1. x \notin tags
        BY <2>1, <3>2
      <4>2. parent[id] \in tags
        BY <1>1, TreeFacts, RootOnPath
      <4> QED
        BY <3>2, <4>1, <4>2 DEF CntAfterDelete, TreeInv, UnusedOK
    <3> QED
      BY <3>1, <3>2
  <2>2. \A b \in Taggable \ taggables : taggings'[b] = {}
    BY DEF TaggingsAfterDelete, TreeInv, UnusedOK
  <2> QED
    BY <2>1, <2>2 DEF UnusedOK
<1>5. OneTree'
  <2>1. \A x \in tags \ Subtree(parent, id) : parent'[x] = parent[x]
    BY TreeFacts
  <2> QED
    BY <1>1, <2>1, TreeFacts, RootedCut DEF OneTree
<1> QED
  BY <1>3, <1>4, <1>5 DEF TreeInv

\* A bookmark's taggings are the full paths of the tags its user gave it.
LEMMA SetTaggingsTyped ==
  ASSUME TreeInv, NEW b \in Taggable, NEW I, SetTaggings(b, I)
  PROVE  taggings' \in [Taggable -> SUBSET tags]
<1>1. TagsFor(I) \in SUBSET tags
  BY TreeFacts, UpClosureLeast DEF SetTaggings, TagsFor, Rooted
<1> QED
  BY <1>1 DEF SetTaggings, TreeInv, TypeOK

\* Every request, the unusual ones and the panics included, keeps TreeInv.
LEMMA TreeInvStep == TreeInv /\ [Next]_vars => TreeInv'
<1> SUFFICES ASSUME TreeInv, [Next]_vars PROVE TreeInv'
  OBVIOUS
<1>1. ASSUME NEW id \in TagId, NEW N \in NameSet, NEW first \in N,
             RenameTag(id, N, first)
      PROVE  TreeInv'
  BY <1>1, SetNamesTyped DEF RenameTag, TreeInv, TypeOK, OneTree, UnusedOK
<1>2. ASSUME NEW id \in TagId, NEW newParent \in TagId, NEW policy \in LeafPolicy,
             MoveOnly(id, newParent, policy)
      PROVE  TreeInv'
  BY <1>2, MoveTagTree DEF MoveOnly, TreeInv, TypeOK
<1>3. ASSUME NEW id \in TagId, NEW newParent \in TagId, NEW policy \in LeafPolicy,
             MoveAndRename(id, newParent, policy)
      PROVE  TreeInv'
  BY <1>3, MoveTagTree, SetNamesTyped DEF MoveAndRename, TreeInv, TypeOK
<1>4. ASSUME NEW id \in TagId, NEW newParent \in TagId, NEW policy \in LeafPolicy,
             MovePanic(id, newParent, policy)
      PROVE  TreeInv'
  BY <1>4 DEF MovePanic, tagVars, TreeInv, TypeOK, OneTree, UnusedOK
<1>5. ASSUME NEW b \in Taggable, NEW I \in SUBSET TagId, CreateTaggable(b, I)
      PROVE  TreeInv'
  <2>1. taggings' \in [Taggable -> SUBSET tags]
    BY <1>5, SetTaggingsTyped DEF CreateTaggable
  <2> QED
    BY <1>5, <2>1 DEF CreateTaggable, SetTaggings, tagVars, TreeInv, TypeOK,
                      OneTree, UnusedOK
<1>6. ASSUME NEW b \in Taggable, NEW I \in SUBSET TagId, UpdateTaggable(b, I)
      PROVE  TreeInv'
  <2>1. taggings' \in [Taggable -> SUBSET tags]
    BY <1>6, SetTaggingsTyped DEF UpdateTaggable
  <2> QED
    BY <1>6, <2>1 DEF UpdateTaggable, SetTaggings, tagVars, TreeInv, TypeOK,
                      OneTree, UnusedOK
<1>7. ASSUME NEW b \in Taggable, DeleteTaggable(b)
      PROVE  TreeInv'
  BY <1>7 DEF DeleteTaggable, tagVars, TreeInv, TypeOK, OneTree, UnusedOK
<1>8. CASE UNCHANGED vars
  BY <1>8 DEF vars, TreeInv, TypeOK, OneTree, UnusedOK
<1> QED
  BY <1>1, <1>2, <1>3, <1>4, <1>5, <1>6, <1>7, <1>8, CreateTagTree,
     CreateTagWithIntermediaryTree, DeleteTagTree DEF Next

\* The tags of a user are one tree without cycles whatever requests are made,
\* and rows refer to rows that exist.
THEOREM TreeInvariance == Spec => []TreeInv
BY InitTreeInv, TreeInvStep, PTL DEF Spec

-----------------------------------------------------------------------------
(* FullTaggingPath *)

\* The bookmarks that a move does not touch are not tagged with the tag moved.
LEMMA NotAffected ==
  ASSUME TreeInv, NEW id, NEW b \in Taggable, b \notin Affected(id)
  PROVE  id \notin taggings[b]
BY DEF Affected, TreeInv, UnusedOK

\* The other steps change no parent but those of tags no bookmark has.
LEMMA FullPathKept ==
  ASSUME TreeInv, FullTaggingPath, taggings' = taggings,
         \A x \in tags : parent'[x] = parent[x]
  PROVE  FullTaggingPath'
BY DEF FullTaggingPath, Closed, TreeInv, TypeOK

\* Of each bookmark under the moved tag the taggings left are closed in the new
\* tree (MoveClosed); the others have no tag whose parent changed.
LEMMA MoveTagFullPath ==
  ASSUME TreeInv, FullTaggingPath, "DelMoveToSameParent" \notin Unusual,
         NEW id \in TagId, NEW newParent \in TagId, NEW policy \in LeafPolicy,
         MoveTag(id, newParent, policy)
  PROVE  FullTaggingPath'
<1> SUFFICES ASSUME NEW b \in Taggable
             PROVE  Closed(parent', taggings'[b])
  BY DEF FullTaggingPath
<1>1. id \in tags /\ newParent \in tags /\ id \notin Path(parent, newParent)
  BY CanMoveFacts DEF MoveTag
<1>2. parent' = [parent EXCEPT ![id] = newParent]
  BY DEF MoveTag
<1>3. CASE b \in Affected(id)
  <2> DEFINE H == HierCur(b, id, newParent)
             remove == policy = "del"
  <2>1. H \in SUBSET tags /\ Closed(parent, H) /\ id \in H /\ newParent \in H
    BY <1>1, HierCurFacts
  <2>2. remove \in BOOLEAN /\ (remove => newParent # parent[id])
    BY DEF MoveTag, CanMove
  <2>3. taggings'[b] = TagsAfterMove(parent, H, id, newParent, remove)
    BY <1>3 DEF MoveTag
  <2> HIDE DEF H, remove
  <2> QED
    BY <1>1, <1>2, <2>1, <2>2, <2>3, TreeFacts, MoveClosed
<1>4. CASE b \notin Affected(id)
  <2>1. taggings'[b] = taggings[b] /\ id \notin taggings[b]
    BY <1>4, NotAffected DEF MoveTag
  <2> QED
    BY <1>2, <2>1 DEF FullTaggingPath, Closed, TreeInv, TypeOK
<1> QED
  BY <1>3, <1>4

\* What a deletion leaves of a closed set of taggings is closed.
LEMMA DeleteTagFullPath ==
  ASSUME TreeInv, FullTaggingPath, NEW id \in TagId, DeleteTag(id)
  PROVE  FullTaggingPath'
<1> SUFFICES ASSUME NEW b \in Taggable
             PROVE  Closed(parent', taggings'[b])
  BY DEF FullTaggingPath
<1> DEFINE gone == Subtree(parent, id)
<1>1. \A x \in TagId : parent[x] \in gone => x \in gone
  BY TreeFacts, SubtreeDown
<1>2. \A x \in TagId : parent'[x] = IF x \in gone THEN NoTag ELSE parent[x]
  BY DEF DeleteTag
<1>3. taggings'[b] = {} \/ taggings'[b] = taggings[b] \ gone
  BY DEF DeleteTag, TaggingsAfterDelete
<1>4. taggings[b] \subseteq TagId /\ Closed(parent, taggings[b])
  BY DEF TreeInv, TypeOK, FullTaggingPath
<1> HIDE DEF gone
<1> QED
  BY <1>1, <1>2, <1>3, <1>4 DEF Closed

\* SetTaggings stores the closure of the tags chosen.
LEMMA SetTaggingsFullPath ==
  ASSUME TreeInv, FullTaggingPath, NEW b \in Taggable, NEW I,
         SetTaggings(b, I), UNCHANGED parent
  PROVE  FullTaggingPath'
<1>1. I \in SUBSET TagId
  BY TreeFacts DEF SetTaggings
<1>2. Closed(parent, TagsFor(I))
  BY <1>1, TreeFacts, UpClosureClosed DEF TagsFor
<1> QED
  BY <1>2 DEF FullTaggingPath, SetTaggings, TreeInv, TypeOK

\* Every request keeps FullTaggingPath, moves with policy del to the same parent
\* aside.
LEMMA FullPathStep ==
  ASSUME "DelMoveToSameParent" \notin Unusual
  PROVE  TreeInv /\ FullTaggingPath /\ [Next]_vars => FullTaggingPath'
<1> SUFFICES ASSUME TreeInv, FullTaggingPath, [Next]_vars
             PROVE  FullTaggingPath'
  OBVIOUS
<1>1. ASSUME NEW par \in TagId, NEW id \in TagId, NEW N, NEW first,
             CreateTag(par, id, N, first)
      PROVE  FullTaggingPath'
  BY <1>1, FullPathKept DEF CreateTag, TreeInv, TypeOK
<1>2. ASSUME NEW par \in TagId, NEW mid \in TagId, NEW midName, NEW id \in TagId,
             NEW N, NEW first,
             CreateTagWithIntermediary(par, mid, midName, id, N, first)
      PROVE  FullTaggingPath'
  BY <1>2, FullPathKept DEF CreateTagWithIntermediary, TreeInv, TypeOK
<1>3. ASSUME NEW id \in TagId, NEW newParent \in TagId, NEW policy \in LeafPolicy,
             \/ MoveOnly(id, newParent, policy)
             \/ MoveAndRename(id, newParent, policy)
      PROVE  FullTaggingPath'
  BY <1>3, MoveTagFullPath DEF MoveOnly, MoveAndRename
<1>4. ASSUME NEW b \in Taggable, NEW I,
             CreateTaggable(b, I) \/ UpdateTaggable(b, I)
      PROVE  FullTaggingPath'
  BY <1>4, SetTaggingsFullPath DEF CreateTaggable, UpdateTaggable, tagVars
<1>5. ASSUME NEW b \in Taggable, DeleteTaggable(b)
      PROVE  FullTaggingPath'
  BY <1>5 DEF DeleteTaggable, FullTaggingPath, Closed, tagVars, TreeInv, TypeOK
<1>6. ASSUME NEW id \in TagId, NEW N, NEW first, RenameTag(id, N, first)
      PROVE  FullTaggingPath'
  BY <1>6, FullPathKept DEF RenameTag
<1>7. ASSUME NEW id \in TagId, NEW newParent \in TagId, NEW policy \in LeafPolicy,
             MovePanic(id, newParent, policy)
      PROVE  FullTaggingPath'
  BY <1>7, FullPathKept DEF MovePanic, tagVars
<1>8. CASE UNCHANGED vars
  BY <1>8, FullPathKept DEF vars
<1> QED
  BY <1>1, <1>2, <1>3, <1>4, <1>5, <1>6, <1>7, <1>8, DeleteTagFullPath DEF Next

\* A bookmark that has a tag has the whole path to it, through all requests but
\* the move with policy "del" to the parent a tag already has.
THEOREM FullPath ==
  ASSUME "DelMoveToSameParent" \notin Unusual
  PROVE  Spec => []FullTaggingPath
<1>1. Init => FullTaggingPath
  BY DEF Init, FullTaggingPath, Closed
<1> QED
  BY <1>1, TreeInvariance, FullPathStep, PTL DEF Spec

-----------------------------------------------------------------------------
(* NoPanic *)

\* With the same exception no move ends in a panic.
THEOREM MovesDoNotPanic ==
  ASSUME "DelMoveToSameParent" \notin Unusual
  PROVE  Spec => []NoPanic
<1>1. ASSUME TreeInv, NEW id \in TagId, NEW newParent \in TagId,
             NEW policy \in LeafPolicy, CanMove(id, newParent, policy)
      PROVE  MovesAll(id, newParent, policy)
  <2> SUFFICES ASSUME NEW b \in Taggable
               PROVE  ~MovePanics(parent, HierCur(b, id, newParent), id, newParent,
                                  policy = "del")
    BY <1>1 DEF MovesAll, Affected, TreeInv, TypeOK
  <2> DEFINE H == HierCur(b, id, newParent)
             remove == policy = "del"
  <2>1. id \in tags /\ newParent \in tags /\ id \notin Path(parent, newParent)
    BY <1>1, CanMoveFacts
  <2>2. H \in SUBSET tags /\ Closed(parent, H) /\ id \in H /\ newParent \in H
    BY <1>1, <2>1, HierCurFacts
  <2>3. remove \in BOOLEAN /\ (remove => newParent # parent[id])
    BY <1>1 DEF CanMove
  <2> HIDE DEF H, remove
  <2>4. ~MovePanics(parent, H, id, newParent, remove)
    BY <1>1, <2>1, <2>2, <2>3, TreeFacts, MoveDoesNotPanic
  <2> QED
    BY <2>4 DEF H, remove
<1>2. TreeInv /\ NoPanic /\ [Next]_vars => NoPanic'
  <2> SUFFICES ASSUME TreeInv, NoPanic, [Next]_vars PROVE panicked' = panicked
    BY DEF NoPanic
  <2> QED
    BY <1>1 DEF Next, vars, CreateTag, CreateTagWithIntermediary, RenameTag,
                MoveOnly, MoveAndRename, MovePanic, DeleteTag, CreateTaggable,
                UpdateTaggable, DeleteTaggable
<1>3. Init => NoPanic
  BY DEF Init, NoPanic
<1> QED
  BY <1>2, <1>3, TreeInvariance, PTL DEF Spec

-----------------------------------------------------------------------------
(* NoRootOnlyTagging *)

\* A bookmark that is touched by a move keeps the tag that is moved.
LEMMA MoveTagNotRootOnly ==
  ASSUME TreeInv, NoRootOnlyTagging,
         NEW id \in TagId, NEW newParent \in TagId, NEW policy \in LeafPolicy,
         MoveTag(id, newParent, policy)
  PROVE  NoRootOnlyTagging'
<1> SUFFICES ASSUME NEW b \in Taggable PROVE taggings'[b] # {Root}
  BY DEF NoRootOnlyTagging
<1>1. id \in tags /\ newParent \in tags /\ id \notin Path(parent, newParent)
  BY CanMoveFacts DEF MoveTag
<1>2. CASE b \in Affected(id)
  <2> DEFINE H == HierCur(b, id, newParent)
  <2>1. H \in SUBSET tags /\ id \in H
    BY <1>1, HierCurFacts
  <2>2. taggings'[b] = TagsAfterMove(parent, H, id, newParent, policy = "del")
    BY <1>2 DEF MoveTag
  <2> HIDE DEF H
  <2>3. id \notin NewLeafs(parent, H, id, newParent) /\ id # Root
    BY <1>1, <2>1, TreeFacts, MovedTagStays, ZenonT(30)
  <2> QED
    BY <2>1, <2>2, <2>3 DEF TagsAfterMove
<1>3. CASE b \notin Affected(id)
  BY <1>3 DEF MoveTag, NoRootOnlyTagging
<1> QED
  BY <1>2, <1>3

\* What is left of a bookmark under the deleted tag has the parent of that tag.
LEMMA DeleteTagNotRootOnly ==
  ASSUME TreeInv, FullTaggingPath, NoRootOnlyTagging,
         NEW id \in TagId, DeleteTag(id)
  PROVE  NoRootOnlyTagging'
<1> SUFFICES ASSUME NEW b \in Taggable, taggings'[b] = {Root} PROVE FALSE
  BY DEF NoRootOnlyTagging
<1> DEFINE gone == Subtree(parent, id)
           left == taggings[b] \ gone
<1>1. id \in tags /\ id # Root /\ parent[id] \in tags
  BY TreeFacts, RootOnPath DEF DeleteTag
<1>2. left = {Root} /\ parent[id] # Root
  BY DEF DeleteTag, TaggingsAfterDelete
<1>3. taggings[b] \subseteq TagId /\ Closed(parent, taggings[b])
  BY DEF TreeInv, TypeOK, FullTaggingPath
<1>4. PICK x \in taggings[b] : x \in gone
  BY <1>2 DEF NoRootOnlyTagging
<1>5. id \in taggings[b]
  <2>1. id \in Path(parent, x)
    BY <1>4 DEF Subtree
  <2>2. Path(parent, x) \subseteq taggings[b]
    BY <1>3, <1>4, TreeFacts, PathLeast
  <2> QED
    BY <2>1, <2>2
<1>6. parent[id] \in taggings[b]
  BY <1>1, <1>3, <1>5, TagIdAssumption, TreeFacts DEF Closed
<1>7. parent[id] \notin gone
  <2>1. id \notin Path(parent, parent[id])
    BY <1>1, TreeFacts, Acyclic
  <2> QED
    BY <2>1 DEF Subtree
<1> QED
  BY <1>2, <1>6, <1>7

\* The closure of a set of tags other than the root alone is not the root alone.
LEMMA SetTaggingsNotRootOnly ==
  ASSUME "TagWithRootOnly" \notin Unusual, TreeInv, NoRootOnlyTagging,
         NEW b \in Taggable, NEW I, SetTaggings(b, I)
  PROVE  NoRootOnlyTagging'
<1>1. I \in SUBSET TagId /\ I # {Root}
  BY TreeFacts DEF SetTaggings
<1>2. I \subseteq TagsFor(I)
  BY <1>1, TreeFacts, UpClosureClosed DEF TagsFor
<1>3. I = {} => TagsFor(I) = {}
  BY DEF TagsFor, UpClosure
<1> QED
  BY <1>1, <1>2, <1>3 DEF NoRootOnlyTagging, SetTaggings, TreeInv, TypeOK

\* No bookmark is tagged with the root tag alone if no client asks for it and
\* none moves a tag with policy "del" to the parent it has.
THEOREM NotRootOnly ==
  ASSUME "DelMoveToSameParent" \notin Unusual, "TagWithRootOnly" \notin Unusual
  PROVE  Spec => []NoRootOnlyTagging
<1>1. Init => NoRootOnlyTagging
  BY DEF Init, NoRootOnlyTagging
<1>2. TreeInv /\ FullTaggingPath /\ NoRootOnlyTagging /\ [Next]_vars
        => NoRootOnlyTagging'
  <2> SUFFICES ASSUME TreeInv, FullTaggingPath, NoRootOnlyTagging, [Next]_vars
               PROVE  NoRootOnlyTagging'
    OBVIOUS
  <2>1. ASSUME taggings' = taggings PROVE NoRootOnlyTagging'
    BY <2>1 DEF NoRootOnlyTagging
  <2>2. ASSUME NEW id \in TagId, NEW newParent \in TagId, NEW policy \in LeafPolicy,
               \/ MoveOnly(id, newParent, policy)
               \/ MoveAndRename(id, newParent, policy)
        PROVE  NoRootOnlyTagging'
    BY <2>2, MoveTagNotRootOnly DEF MoveOnly, MoveAndRename
  <2>3. ASSUME NEW b \in Taggable, NEW I,
               CreateTaggable(b, I) \/ UpdateTaggable(b, I)
        PROVE  NoRootOnlyTagging'
    BY <2>3, SetTaggingsNotRootOnly DEF CreateTaggable, UpdateTaggable
  <2>4. ASSUME NEW b \in Taggable, DeleteTaggable(b)
        PROVE  NoRootOnlyTagging'
    BY <2>4 DEF DeleteTaggable, NoRootOnlyTagging, TreeInv, TypeOK
  <2> QED
    BY <2>1, <2>2, <2>3, <2>4, DeleteTagNotRootOnly
       DEF Next, vars, CreateTag, CreateTagWithIntermediary, RenameTag, MovePanic
<1> QED
  BY <1>1, <1>2, TreeInvariance, FullPath, PTL DEF Spec

-----------------------------------------------------------------------------
(* OnePrimaryName *)

LEMMA SetNamesOnePrimary ==
  ASSUME TreeInv, OnePrimaryName, UNCHANGED tags,
         NEW id \in TagId, NEW N \in NameSet, NEW first \in N,
         SetNames(id, N, first)
  PROVE  OnePrimaryName'
<1> SUFFICES ASSUME NEW x \in tags
             PROVE  \E n \in names'[x] : primary'[x] = {n}
  BY DEF OnePrimaryName
<1>1. PICK n \in names[x] : primary[x] = {n}
  BY DEF OnePrimaryName
<1>2. CASE x # id
  BY <1>1, <1>2 DEF SetNames, TreeInv, TypeOK
<1>3. CASE x = id
  <2>1. names'[x] = N /\ primary'[x] = PrimaryAfter({n}, n, N, first)
    BY <1>1, <1>3 DEF SetNames, TreeInv, TypeOK
  <2>2. PrimaryAfter({n}, n, N, first) = {first}
    BY DEF PrimaryAfter
  <2> QED
    BY <2>1, <2>2
<1> QED
  BY <1>2, <1>3

\* Every tag has exactly one primary name, and it is one of its names, whatever
\* requests are made one after the other.
THEOREM PrimaryNames == Spec => []OnePrimaryName
<1>1. Init => OnePrimaryName
  BY RootAssumption DEF Init, OnePrimaryName
<1>2. TreeInv /\ OnePrimaryName /\ [Next]_vars => OnePrimaryName'
  <2> SUFFICES ASSUME TreeInv, OnePrimaryName, [Next]_vars PROVE OnePrimaryName'
    OBVIOUS
  <2>1. ASSUME UNCHANGED <<tags, names, primary>> PROVE OnePrimaryName'
    BY <2>1 DEF OnePrimaryName
  <2>2. ASSUME NEW par \in TagId, NEW id \in TagId, NEW N, NEW first \in N,
               CreateTag(par, id, N, first)
        PROVE  OnePrimaryName'
    BY <2>2 DEF CreateTag, OnePrimaryName, TreeInv, TypeOK
  <2>3. ASSUME NEW par \in TagId, NEW mid \in TagId, NEW midName, NEW id \in TagId,
               NEW N, NEW first \in N,
               CreateTagWithIntermediary(par, mid, midName, id, N, first)
        PROVE  OnePrimaryName'
    BY <2>3, SMTT(30)
       DEF CreateTagWithIntermediary, OnePrimaryName, TreeInv, TypeOK
  <2>4. ASSUME NEW id \in TagId, NEW N \in NameSet, NEW first \in N,
               RenameTag(id, N, first)
        PROVE  OnePrimaryName'
    BY <2>4, SetNamesOnePrimary DEF RenameTag
  <2>5. ASSUME NEW id \in TagId, NEW newParent \in TagId, NEW policy \in LeafPolicy,
               MoveAndRename(id, newParent, policy)
        PROVE  OnePrimaryName'
    BY <2>5, SetNamesOnePrimary DEF MoveAndRename
  <2>6. ASSUME NEW id \in TagId, DeleteTag(id) PROVE OnePrimaryName'
    BY <2>6 DEF DeleteTag, OnePrimaryName, TreeInv, TypeOK
  <2> QED
    BY <2>1, <2>2, <2>3, <2>4, <2>5, <2>6
       DEF Next, vars, tagVars, MoveOnly, MovePanic, CreateTaggable,
           UpdateTaggable, DeleteTaggable
<1> QED
  BY <1>1, <1>2, TreeInvariance, PTL DEF Spec

-----------------------------------------------------------------------------
(* SiblingNamesDistinct *)

\* What tagExists finds under a tag.
LEMMA NamesUnderTag ==
  ASSUME NEW par \in tags, NEW y \in TagId, TreeInv, parent[y] = par
  PROVE  names[y] \subseteq NamesUnder(parent, names, par)
BY TreeFacts, TagIdAssumption DEF NamesUnder, Kids

\* A move brings no equal names together, before the tag is renamed.
LEMMA MoveTagNames ==
  ASSUME TreeInv, SiblingNamesDistinct, "MoveOntoSameName" \notin Unusual,
         NEW id \in TagId, NEW newParent \in TagId, NEW policy \in LeafPolicy,
         MoveTag(id, newParent, policy),
         NEW x \in tags, NEW y \in tags, x # y, parent'[x] = parent'[y]
  PROVE  names[x] \cap names[y] = {}
<1>1. id \in tags /\ newParent \in tags
  BY CanMoveFacts DEF MoveTag
<1>2. \A z \in TagId : parent'[z] = IF z = id THEN newParent ELSE parent[z]
  BY TreeFacts DEF MoveTag, ParentMap
<1>3. ASSUME NEW z \in tags, z # id, parent[z] = newParent
      PROVE  names[id] \cap names[z] = {}
  <2>1. CASE newParent = parent[id]
    BY <1>1, <1>3, <2>1 DEF SiblingNamesDistinct
  <2>2. CASE newParent # parent[id]
    <3>1. names[id] \cap NamesUnder(parent, names, newParent) = {}
      BY <2>2 DEF MoveTag, CanMove
    <3>2. names[z] \subseteq NamesUnder(parent, names, newParent)
      BY <1>1, <1>3, TreeFacts, NamesUnderTag
    <3> QED
      BY <3>1, <3>2
  <2> QED
    BY <2>1, <2>2
<1> QED
  BY <1>2, <1>3, TreeFacts DEF SiblingNamesDistinct

\* Names that are distinct under the parents by now stay so when addTagName
\* has checked the new ones.
LEMMA SetNamesDistinct ==
  ASSUME TreeInv', UNCHANGED tags, names \in [TagId -> SUBSET AnyName],
         \A x, y \in tags : x # y /\ parent'[x] = parent'[y] =>
                              names[x] \cap names[y] = {},
         NEW id \in TagId, NEW N, NEW first, SetNames(id, N, first)
  PROVE  SiblingNamesDistinct'
<1>1. id \in tags /\ names' = [names EXCEPT ![id] = N]
  BY DEF SetNames
<1>2. tags \subseteq TagId
  BY DEF TreeInv, TypeOK
<1>3. ASSUME NEW y \in tags, y # id, parent'[id] = parent'[y], NEW n \in N,
             n \in names[y]
      PROVE  FALSE
  <2>1. n \notin names[id]
    BY <1>1, <1>3
  <2>2. n \notin NamesUnder(parent', names, parent'[id])
    BY <2>1 DEF SetNames, NameTaken
  <2>3. parent'[id] # NoTag
    <3>1. \A x \in tags : x # Root => parent'[x] \in tags
      BY ParentOfTagNext
    <3> QED
      BY <1>1, <1>2, <1>3, <3>1, TagIdAssumption
  <2>4. y \in Kids(parent', parent'[id])
    BY <1>2, <1>3 DEF Kids
  <2> QED
    BY <1>3, <2>2, <2>3, <2>4 DEF NamesUnder
<1>4. ASSUME NEW y \in tags, y # id, parent'[id] = parent'[y]
      PROVE  N \cap names[y] = {}
  BY <1>3, <1>4
<1> QED
  BY <1>1, <1>2, <1>4 DEF SiblingNamesDistinct

\* No two tags under one parent share a name, if no client moves a tag next to
\* one that has a name of it.
THEOREM DistinctNames ==
  ASSUME "MoveOntoSameName" \notin Unusual
  PROVE  Spec => []SiblingNamesDistinct
<1>1. Init => SiblingNamesDistinct
  BY DEF Init, SiblingNamesDistinct
<1>2. TreeInv /\ TreeInv' /\ SiblingNamesDistinct /\ [Next]_vars
        => SiblingNamesDistinct'
  <2> SUFFICES ASSUME TreeInv, TreeInv', SiblingNamesDistinct, [Next]_vars
               PROVE  SiblingNamesDistinct'
    OBVIOUS
  <2>0. names \in [TagId -> SUBSET AnyName]
    BY DEF TreeInv, TypeOK
  <2>1. ASSUME UNCHANGED <<tags, parent, names>> PROVE SiblingNamesDistinct'
    BY <2>1 DEF SiblingNamesDistinct
  <2>2. ASSUME NEW par \in TagId, NEW id \in TagId, NEW N, NEW first,
               CreateTag(par, id, N, first)
        PROVE  SiblingNamesDistinct'
    <3>1. \A y \in tags : parent[y] = par => N \cap names[y] = {}
      BY <2>2, TreeFacts, NamesUnderTag DEF CreateTag
    <3> QED
      BY <2>2, <3>1, TreeFacts, ParentIsTag, <2>0
         DEF CreateTag, SiblingNamesDistinct, ParentMap
  <2>3. ASSUME NEW par \in TagId, NEW mid \in TagId, NEW midName, NEW id \in TagId,
               NEW N, NEW first,
               CreateTagWithIntermediary(par, mid, midName, id, N, first)
        PROVE  SiblingNamesDistinct'
    <3>1. \A y \in tags : parent[y] = par => {midName} \cap names[y] = {}
      BY <2>3, TreeFacts, NamesUnderTag DEF CreateTagWithIntermediary
    <3>2. \A y \in tags : parent[y] # mid
      BY <2>3, TreeFacts, ParentIsTag, TagIdAssumption
         DEF CreateTagWithIntermediary
    <3> QED
      BY <2>3, <3>1, <3>2, TreeFacts, <2>0
         DEF CreateTagWithIntermediary, SiblingNamesDistinct, ParentMap
  <2>4. ASSUME NEW id \in TagId, NEW N, NEW first, RenameTag(id, N, first)
        PROVE  SiblingNamesDistinct'
    BY <2>0, <2>4, SetNamesDistinct DEF RenameTag, SiblingNamesDistinct
  <2>5. ASSUME NEW id \in TagId, NEW newParent \in TagId, NEW policy \in LeafPolicy,
               MoveOnly(id, newParent, policy)
        PROVE  SiblingNamesDistinct'
    BY <2>5, MoveTagNames DEF MoveOnly, SiblingNamesDistinct
  <2>6. ASSUME NEW id \in TagId, NEW newParent \in TagId, NEW policy \in LeafPolicy,
               MoveAndRename(id, newParent, policy)
        PROVE  SiblingNamesDistinct'
    BY <2>0, <2>6, MoveTagNames, SetNamesDistinct DEF MoveAndRename
  <2>7. ASSUME NEW id \in TagId, DeleteTag(id) PROVE SiblingNamesDistinct'
    BY <2>7, TreeFacts DEF DeleteTag, SiblingNamesDistinct
  <2> QED
    BY <2>1, <2>2, <2>3, <2>4, <2>5, <2>6, <2>7
       DEF Next, vars, tagVars, MovePanic, CreateTaggable, UpdateTaggable,
           DeleteTaggable
<1> QED
  BY <1>1, <1>2, TreeInvariance, PTL DEF Spec

-----------------------------------------------------------------------------
(* ChildrenCntOK *)

\* Children are counted one at a time.
LEMMA KidsFinite ==
  ASSUME NEW p, NEW x
  PROVE  IsFiniteSet(Kids(p, x)) /\ Cardinality(Kids(p, x)) \in Nat
BY TagIdAssumption, FS_Subset, FS_CardinalityType DEF Kids

\* A tag goes from one parent (or none) to another.
LEMMA KidsGrow ==
  ASSUME NEW p \in ParentMap, NEW id \in TagId, NEW par \in TagId, p[id] # par,
         NEW q, \A y \in TagId : q[y] = IF y = id THEN par ELSE p[y]
  PROVE  /\ Cardinality(Kids(q, par)) = Cardinality(Kids(p, par)) + 1
         /\ p[id] \in TagId =>
              Cardinality(Kids(q, p[id])) = Cardinality(Kids(p, p[id])) - 1
         /\ \A x \in TagId \ {par, p[id]} : Kids(q, x) = Kids(p, x)
<1>2. Kids(q, par) = Kids(p, par) \cup {id} /\ id \notin Kids(p, par)
  BY DEF Kids
<1>3. Cardinality(Kids(q, par)) = Cardinality(Kids(p, par)) + 1
  BY <1>2, KidsFinite, FS_AddElement
<1>4. ASSUME p[id] \in TagId
      PROVE  Cardinality(Kids(q, p[id])) = Cardinality(Kids(p, p[id])) - 1
  <2>1. Kids(q, p[id]) = Kids(p, p[id]) \ {id} /\ id \in Kids(p, p[id])
    BY DEF Kids
  <2> QED
    BY <2>1, KidsFinite, FS_RemoveElement, ZenonT(30)
<1>5. \A x \in TagId \ {par, p[id]} : Kids(q, x) = Kids(p, x)
  BY DEF Kids
<1> QED
  BY <1>3, <1>4, <1>5

\* A tag that had no parent gets one.
LEMMA KidsOfNew ==
  ASSUME NEW p \in ParentMap, NEW id \in TagId, NEW par \in TagId, p[id] = NoTag,
         NEW q, \A y \in TagId : q[y] = IF y = id THEN par ELSE p[y]
  PROVE  /\ Cardinality(Kids(q, par)) = Cardinality(Kids(p, par)) + 1
         /\ \A x \in TagId \ {par} : Kids(q, x) = Kids(p, x)
<1>1. p[id] # par /\ \A x \in TagId : x # p[id]
  BY TagIdAssumption
<1>2. /\ Cardinality(Kids(q, par)) = Cardinality(Kids(p, par)) + 1
      /\ \A x \in TagId \ {par, p[id]} : Kids(q, x) = Kids(p, x)
  BY <1>1, KidsGrow
<1> QED
  BY <1>1, <1>2

\* The parent of the new tag has one child more, and its count is one more.
LEMMA CreateTagCnt ==
  ASSUME TreeInv, ChildrenCntOK,
         NEW par \in TagId, NEW id \in TagId, NEW N, NEW first,
         CreateTag(par, id, N, first)
  PROVE  ChildrenCntOK'
<1>1. parent[id] = NoTag /\ parent[id] # par /\ par # id /\ childrenCnt[id] = 0
  BY TreeFacts, TagIdAssumption DEF CreateTag, TreeInv, UnusedOK
<1>2. /\ Cardinality(Kids(parent', par)) = Cardinality(Kids(parent, par)) + 1
      /\ \A x \in TagId \ {par} : Kids(parent', x) = Kids(parent, x)
  <2>1. \A y \in TagId : parent'[y] = IF y = id THEN par ELSE parent[y]
    BY TreeFacts DEF CreateTag, ParentMap
  <2> QED
    BY <1>1, <2>1, TreeFacts, KidsOfNew
<1>3. Cardinality(Kids(parent, id)) = 0
  <2>1. Kids(parent, id) = {}
    BY ParentIsTag, TagIdAssumption DEF CreateTag, Kids
  <2> QED
    BY <2>1, FS_EmptySet
<1>4. /\ tags' = tags \cup {id} /\ par \in tags
      /\ childrenCnt' = [childrenCnt EXCEPT ![par] = @ + 1]
      /\ childrenCnt \in [TagId -> Int] /\ tags \subseteq TagId
  BY DEF CreateTag, TreeInv, TypeOK
<1> QED
  BY <1>1, <1>2, <1>3, <1>4 DEF ChildrenCntOK

\* Two counts change, that of the parent and that of the intermediary tag.
LEMMA CreateTagWithIntermediaryCnt ==
  ASSUME TreeInv, ChildrenCntOK, NEW par \in TagId, NEW mid \in TagId, NEW midName,
         NEW id \in TagId, NEW N, NEW first,
         CreateTagWithIntermediary(par, mid, midName, id, N, first)
  PROVE  ChildrenCntOK'
<1> DEFINE p1 == [parent EXCEPT ![mid] = par]
<1>1. /\ par \in tags /\ tags \subseteq TagId /\ mid \notin tags /\ id \notin tags
      /\ id # mid
      /\ parent \in ParentMap /\ parent[mid] = NoTag /\ parent[id] = NoTag
      /\ childrenCnt \in [TagId -> Int]
  BY TreeFacts DEF CreateTagWithIntermediary, TreeInv, TypeOK
<1>2. p1 \in ParentMap /\ p1[id] = NoTag
      /\ \A y \in TagId : p1[y] = IF y = mid THEN par ELSE parent[y]
  BY <1>1 DEF ParentMap
<1>3. \A y \in TagId : parent'[y] = IF y = id THEN mid ELSE p1[y]
  BY <1>1 DEF CreateTagWithIntermediary, ParentMap
<1> HIDE DEF p1
<1>4. /\ Cardinality(Kids(p1, par)) = Cardinality(Kids(parent, par)) + 1
      /\ \A x \in TagId \ {par} : Kids(p1, x) = Kids(parent, x)
  BY <1>1, <1>2, KidsOfNew
<1>5. /\ Cardinality(Kids(parent', mid)) = Cardinality(Kids(p1, mid)) + 1
      /\ \A x \in TagId \ {mid} : Kids(parent', x) = Kids(p1, x)
  BY <1>1, <1>2, <1>3, KidsOfNew
<1>6. Cardinality(Kids(parent, mid)) = 0 /\ Cardinality(Kids(parent, id)) = 0
  <2>1. Kids(parent, mid) = {} /\ Kids(parent, id) = {}
    BY <1>1, ParentIsTag, TagIdAssumption DEF Kids
  <2> QED
    BY <2>1, FS_EmptySet
<1>7. /\ tags' = tags \cup {mid, id}
      /\ childrenCnt' = [childrenCnt EXCEPT ![par] = @ + 1, ![mid] = 1]
      /\ childrenCnt[id] = 0
  BY <1>1 DEF CreateTagWithIntermediary, TreeInv, UnusedOK
<1>8. /\ childrenCnt'[par] = childrenCnt[par] + 1 /\ childrenCnt'[mid] = 1
      /\ childrenCnt'[id] = 0
      /\ \A x \in tags \ {par} : childrenCnt'[x] = childrenCnt[x]
  BY <1>1, <1>7
<1>9. ASSUME NEW x \in tags'
      PROVE  childrenCnt'[x] = Cardinality(Kids(parent', x))
  <2>1. CASE x = mid
    BY <1>1, <1>4, <1>5, <1>6, <1>8, <2>1
  <2>2. CASE x = id
    BY <1>1, <1>4, <1>5, <1>6, <1>8, <2>2
  <2>3. CASE x \in tags
    BY <1>1, <1>4, <1>5, <1>8, <2>3 DEF ChildrenCntOK
  <2> QED
    BY <1>7, <2>1, <2>2, <2>3
<1> QED
  BY <1>9 DEF ChildrenCntOK

\* One child less for the old parent, one more for the new one; if they are the
\* same tag the two UPDATEs cancel out.
LEMMA MoveTagCnt ==
  ASSUME TreeInv, ChildrenCntOK, UNCHANGED tags,
         NEW id \in TagId, NEW newParent \in TagId, NEW policy \in LeafPolicy,
         MoveTag(id, newParent, policy)
  PROVE  ChildrenCntOK'
<1>1. id \in tags /\ newParent \in tags /\ parent[id] \in tags
  BY CanMoveFacts DEF MoveTag
<1>2. /\ parent' = [parent EXCEPT ![id] = newParent]
      /\ childrenCnt' = CntAfterMove(id, newParent)
      /\ parent \in ParentMap /\ tags \subseteq TagId
      /\ childrenCnt \in [TagId -> Int]
  BY TreeFacts DEF MoveTag, TreeInv, TypeOK
<1>3. CASE newParent = parent[id]
  <2>1. parent' = parent
    BY <1>2, <1>3 DEF ParentMap
  <2>2. \A x \in tags : childrenCnt'[x] = childrenCnt[x]
    BY <1>1, <1>2, <1>3 DEF CntAfterMove
  <2> QED
    BY <2>1, <2>2 DEF ChildrenCntOK
<1>4. CASE newParent # parent[id]
  <2>1. /\ Cardinality(Kids(parent', newParent))
             = Cardinality(Kids(parent, newParent)) + 1
        /\ Cardinality(Kids(parent', parent[id]))
             = Cardinality(Kids(parent, parent[id])) - 1
        /\ \A x \in TagId \ {newParent, parent[id]} :
             Kids(parent', x) = Kids(parent, x)
    <3>1. \A y \in TagId : parent'[y] = IF y = id THEN newParent ELSE parent[y]
      BY <1>2 DEF ParentMap
    <3>2. parent[id] # newParent /\ parent[id] \in TagId /\ newParent \in TagId
      BY <1>1, <1>2, <1>4
    <3> DEFINE q == parent'
    <3>3. \A y \in TagId : q[y] = IF y = id THEN newParent ELSE parent[y]
      BY <3>1
    <3> HIDE DEF q
    <3>4. /\ Cardinality(Kids(q, newParent)) = Cardinality(Kids(parent, newParent)) + 1
          /\ parent[id] \in TagId =>
               Cardinality(Kids(q, parent[id])) = Cardinality(Kids(parent, parent[id])) - 1
          /\ \A x \in TagId \ {newParent, parent[id]} : Kids(q, x) = Kids(parent, x)
      BY <1>2, <3>2, <3>3, KidsGrow
    <3> QED
      BY <3>2, <3>4 DEF q
  <2>2. /\ childrenCnt'[newParent] = childrenCnt[newParent] + 1
        /\ childrenCnt'[parent[id]] = childrenCnt[parent[id]] - 1
        /\ \A x \in tags \ {newParent, parent[id]} :
             childrenCnt'[x] = childrenCnt[x]
    BY <1>1, <1>2, <1>4 DEF CntAfterMove
  <2> QED
    BY <1>1, <1>2, <2>1, <2>2 DEF ChildrenCntOK
<1> QED
  BY <1>3, <1>4

\* The parent of the subtree that goes loses one child.
LEMMA DeleteTagCnt ==
  ASSUME TreeInv, ChildrenCntOK, NEW id \in TagId, DeleteTag(id)
  PROVE  ChildrenCntOK'
<1> DEFINE gone == Subtree(parent, id)
<1>1. /\ id \in tags /\ id # Root /\ tags \subseteq TagId
      /\ parent \in ParentMap
      /\ childrenCnt \in [TagId -> Int]
      /\ parent[id] \in tags
  BY TreeFacts, RootOnPath DEF DeleteTag, TreeInv, TypeOK
<1>2. id \in gone
  BY <1>1, PathClosed DEF Subtree
<1>3. ASSUME NEW x \in tags \ gone, NEW y \in TagId, parent[y] = x
      PROVE  y \in gone <=> y = id
  <2>1. x \in TagId /\ x # NoTag /\ id \notin Path(parent, x)
    BY <1>1, TagIdAssumption DEF Subtree
  <2>2. Path(parent, y) = {y} \cup Path(parent, x)
    BY <1>1, <1>3, <2>1, PathSplit
  <2> QED
    BY <2>1, <2>2 DEF Subtree
<1>4. ASSUME NEW x \in tags \ gone
      PROVE  Kids(parent', x) = Kids(parent, x) \ {id}
  <2>1. \A y \in TagId : parent'[y] = IF y \in gone THEN NoTag ELSE parent[y]
    BY DEF DeleteTag
  <2> HIDE DEF gone
  <2> QED
    BY <1>1, <1>2, <1>3, <2>1, TagIdAssumption DEF Kids
<1>5. parent[id] \notin gone
  <2>1. id \notin Path(parent, parent[id])
    BY <1>1, TreeFacts, Acyclic
  <2> QED
    BY <2>1 DEF Subtree
<1>6. ASSUME NEW x \in tags \ gone
      PROVE  childrenCnt'[x] = Cardinality(Kids(parent', x))
  <2>1. childrenCnt[x] = Cardinality(Kids(parent, x))
    BY DEF ChildrenCntOK
  <2>2. childrenCnt'[x] = IF x = parent[id] THEN childrenCnt[x] - 1
                          ELSE childrenCnt[x]
    BY <1>1 DEF DeleteTag, CntAfterDelete
  <2>3. CASE x = parent[id]
    <3>1. id \in Kids(parent, x)
      BY <1>1, <2>3 DEF Kids
    <3> QED
      BY <1>4, <2>1, <2>2, <2>3, <3>1, KidsFinite, FS_RemoveElement
  <2>4. CASE x # parent[id]
    <3>1. id \notin Kids(parent, x)
      BY <2>4 DEF Kids
    <3> QED
      BY <1>4, <2>1, <2>2, <2>4, <3>1
  <2> QED
    BY <2>3, <2>4
<1>7. tags' = tags \ gone
  BY DEF DeleteTag
<1> QED
  BY <1>6, <1>7 DEF ChildrenCntOK

\* children_cnt is the number of a tag's children, whatever requests are made
\* one after the other.
THEOREM ChildrenCount == Spec => []ChildrenCntOK
<1>1. Init => ChildrenCntOK
  <2> SUFFICES ASSUME Init PROVE childrenCnt[Root] = Cardinality(Kids(parent, Root))
    BY DEF Init, ChildrenCntOK
  <2>1. Kids(parent, Root) = {}
    BY RootAssumption, TagIdAssumption DEF Init, Kids
  <2> QED
    BY <2>1, FS_EmptySet, RootAssumption DEF Init
<1>2. TreeInv /\ ChildrenCntOK /\ [Next]_vars => ChildrenCntOK'
  <2> SUFFICES ASSUME TreeInv, ChildrenCntOK, [Next]_vars PROVE ChildrenCntOK'
    OBVIOUS
  <2>1. ASSUME UNCHANGED <<tags, parent, childrenCnt>> PROVE ChildrenCntOK'
    BY <2>1 DEF ChildrenCntOK
  <2>2. ASSUME NEW id \in TagId, NEW newParent \in TagId, NEW policy \in LeafPolicy,
               \/ MoveOnly(id, newParent, policy)
               \/ MoveAndRename(id, newParent, policy)
        PROVE  ChildrenCntOK'
    BY <2>2, MoveTagCnt DEF MoveOnly, MoveAndRename
  <2> QED
    BY <2>1, <2>2, CreateTagCnt, CreateTagWithIntermediaryCnt, DeleteTagCnt
       DEF Next, vars, tagVars, RenameTag, MovePanic, CreateTaggable,
           UpdateTaggable, DeleteTaggable
<1> QED
  BY <1>1, <1>2, TreeInvariance, PTL DEF Spec
-----------------------------------------------------------------------------
(***************************************************************************)
(* The tables of TagStore implement what BookmarkTags promises, for every  *)
(* number of tags and bookmarks.  The promise speaks of the lowest tags of *)
(* a bookmark and the tables hold closed sets; in a tree the two determine *)
(* each other (LeafsOfClosure, ClosureOfLeafs), so each operation is shown *)
(* to lead to the closure of the tags that the promise gives a bookmark.   *)
(***************************************************************************)

Lowest(p, S) == {x \in S : \A y \in S \ {x} : x \notin Path(p, y)}

\* BookmarkTags speaks of paths in the same sense.
LEMMA SameTrees ==
  /\ \A p, x : Promise!Path(p, x) = Path(p, x)
  /\ \A p, x : Promise!Subtree(p, x) = Subtree(p, x)
  /\ \A p, S : Promise!Lowest(p, S) = Lowest(p, S)
<1>1. \A p, x : Promise!Path(p, x) = Path(p, x)
  BY DEF Promise!Path, Path, Promise!Closed, Closed
<1> QED
  BY <1>1 DEF Promise!Subtree, Subtree, Promise!Lowest, Lowest

\* A tag over another one has a child on the other one's path.
LEMMA KidOnPath ==
  ASSUME NEW p \in ParentMap, NEW y \in TagId, NEW x \in Path(p, y), x # y
  PROVE  \E z \in Path(p, y) : p[z] = x
<1> SUFFICES ASSUME \A z \in Path(p, y) : p[z] # x PROVE FALSE
  OBVIOUS
<1> DEFINE A == Path(p, y) \ {x}
<1>1. y \in A /\ A \in SUBSET TagId /\ Closed(p, A)
  BY PathClosed DEF Closed
<1>2. Path(p, y) \subseteq A
  BY <1>1, PathLeast
<1> QED
  BY <1>2

\* Going down from a tag of S, within S, one comes to a leaf of S: of the subtrees of
\* the tags of S under x one is minimal, and a child's subtree is smaller.
LEMMA LeafBelow ==
  ASSUME NEW p \in ParentMap, NEW T \in SUBSET TagId, NEW root, Rooted(p, T, root),
         NEW S \in SUBSET T, NEW x \in S
  PROVE  \E y \in Leafs(p, S) : x \in Path(p, y)
<1> DEFINE D == {y \in S : x \in Path(p, y)}
           C == {Subtree(p, y) : y \in D}
<1>1. x \in D
  BY PathClosed
<1>2. C \subseteq FiniteSubsetsOf(TagId)
  BY TagIdAssumption, FS_Subset DEF Subtree, FiniteSubsetsOf
<1>3. PICK M \in C : \A N \in C : ~(<<N, M>> \in StrictSubsetOrdering(TagId))
  <2>1. IsWellFoundedOn(StrictSubsetOrdering(TagId), FiniteSubsetsOf(TagId))
    BY FS_StrictSubsetOrderingWellFounded
  <2>2. C # {}
    BY <1>1
  <2> HIDE DEF C
  <2> QED
    BY <1>2, <2>1, <2>2, WFMin
<1>4. PICK y \in D : M = Subtree(p, y)
  BY <1>3
<1>5. ASSUME NEW z \in S, p[z] = y PROVE FALSE
  <2>1. z # root /\ y \in TagId /\ z \in TagId
    BY <1>5, TagIdAssumption DEF Rooted, ParentMap
  <2>2. Path(p, z) = {z} \cup Path(p, y)
    BY <1>5, <2>1, PathSplit, TagIdAssumption
  <2>3. z \in D
    BY <2>2
  <2>4. z \notin Path(p, y)
    BY <1>5, <2>1, Acyclic
  <2>5. Subtree(p, z) \subseteq Subtree(p, y)
    <3>1. y \in Path(p, z)
      BY <2>1, <2>2, PathClosed
    <3> QED
      BY <2>1, <3>1, PathOfAncestor DEF Subtree
  <2>6. y \in Subtree(p, y) /\ y \notin Subtree(p, z)
    BY <2>1, <2>4, PathClosed DEF Subtree
  <2>7. <<Subtree(p, z), Subtree(p, y)>> \in StrictSubsetOrdering(TagId)
    BY <2>5, <2>6 DEF StrictSubsetOrdering, Subtree
  <2> QED
    BY <1>3, <1>4, <2>3, <2>7
<1>6. y \in Leafs(p, S)
  BY <1>5 DEF Leafs, Kids
<1> QED
  BY <1>6

\* The lowest tags of C are the leafs of its closure.
LEMMA LeafsOfClosure ==
  ASSUME NEW p \in ParentMap, NEW T \in SUBSET TagId, NEW root, Rooted(p, T, root),
         NEW C \in SUBSET T
  PROVE  Lowest(p, C) = Leafs(p, UpClosure(p, C))
<1> DEFINE S == UpClosure(p, C)
<1>1. C \subseteq S /\ S \subseteq TagId /\ Closed(p, S)
  BY UpClosureClosed
<1>2. ASSUME NEW x \in Leafs(p, S) PROVE x \in Lowest(p, C)
  <2>1. ASSUME NEW c \in C, x \in Path(p, c), x # c PROVE FALSE
    <3>1. PICK z \in Path(p, c) : p[z] = x
      BY <2>1, KidOnPath
    <3>2. z \in S /\ z \in TagId
      BY <3>1, PathClosed DEF UpClosure
    <3> QED
      BY <1>2, <3>1, <3>2 DEF Leafs, Kids
  <2>2. PICK c \in C : x \in Path(p, c)
    BY <1>2 DEF Leafs, UpClosure
  <2>3. x = c
    BY <2>1, <2>2
  <2> QED
    BY <2>1, <2>3 DEF Lowest
<1>3. ASSUME NEW x \in Lowest(p, C) PROVE x \in Leafs(p, S)
  <2>1. x \in C /\ \A y \in C \ {x} : x \notin Path(p, y)
    BY <1>3 DEF Lowest
  <2>2. ASSUME NEW z \in S, p[z] = x PROVE FALSE
    <3>1. PICK c \in C : z \in Path(p, c)
      BY <2>2 DEF UpClosure
    <3>2. x \in Path(p, c)
      <4>1. Closed(p, Path(p, c)) /\ c \in TagId
        BY PathClosed
      <4> QED
        BY <2>1, <2>2, <3>1, <4>1, TagIdAssumption DEF Closed
    <3>3. c = x
      BY <2>1, <3>2
    <3>4. z \in T /\ z # root
      BY <2>1, <2>2, <3>1, RootOnPath, TagIdAssumption DEF Rooted
    <3> QED
      BY <2>2, <3>1, <3>3, <3>4, Acyclic
  <2> QED
    BY <1>1, <2>1, <2>2 DEF Leafs, Kids
<1> QED
  BY <1>2, <1>3

\* A closed set is the closure of its leafs.
LEMMA ClosureOfLeafs ==
  ASSUME NEW p \in ParentMap, NEW T \in SUBSET TagId, NEW root, Rooted(p, T, root),
         NEW S \in SUBSET T, Closed(p, S)
  PROVE  UpClosure(p, Leafs(p, S)) = S
<1>1. Leafs(p, S) \in SUBSET S
  BY DEF Leafs
<1>2. UpClosure(p, Leafs(p, S)) \subseteq S
  BY <1>1, UpClosureLeast
<1>3. S \subseteq UpClosure(p, Leafs(p, S))
  BY LeafBelow DEF UpClosure
<1> QED
  BY <1>2, <1>3

\* So it is part of every closed set that has its leafs.
LEMMA LeafsSpan ==
  ASSUME NEW p \in ParentMap, NEW T \in SUBSET TagId, NEW root, Rooted(p, T, root),
         NEW S \in SUBSET T, Closed(p, S),
         NEW A \in SUBSET TagId, Closed(p, A), Leafs(p, S) \subseteq A
  PROVE  S \subseteq A
<1>1. Leafs(p, S) \in SUBSET A
  OBVIOUS
<1> QED
  BY <1>1, ClosureOfLeafs, UpClosureLeast

\* Leafs looks at the parents of the tags of S only.
LEMMA LeafsLocal ==
  ASSUME NEW p, NEW q, NEW S \in SUBSET TagId, \A x \in S : q[x] = p[x]
  PROVE  Leafs(q, S) = Leafs(p, S)
BY DEF Leafs, Kids

-----------------------------------------------------------------------------
(* What the operations leave of the tags of one bookmark, as closed sets.  *)

\* Above the moved tag a path is the same before and after the move.
LEMMA PathStays ==
  ASSUME NEW p \in ParentMap, NEW id \in TagId, NEW newParent \in TagId,
         NEW q, \A x \in TagId : q[x] = IF x = id THEN newParent ELSE p[x],
         NEW U \in SUBSET TagId, Closed(q, U), NEW y \in U, id \notin Path(p, y)
  PROVE  Path(p, y) \subseteq U
<1> DEFINE A == U \cap Path(p, y)
<1>1. y \in TagId /\ y \in Path(p, y) /\ Path(p, y) \subseteq TagId /\ Closed(p, Path(p, y))
  BY PathClosed
<1>2. Closed(p, A)
  <2> SUFFICES ASSUME NEW w \in A PROVE p[w] \in A \cup {NoTag}
    BY DEF Closed
  <2>1. q[w] = p[w]
    BY <1>1
  <2> QED
    BY <1>1, <2>1 DEF Closed
<1>3. A \in SUBSET TagId /\ y \in A
  BY <1>1
<1> QED
  BY <1>2, <1>3, PathLeast

\* MoveClosed for the tree after the move under a name of its own.
LEMMA MoveClosedIn ==
  ASSUME NEW p \in ParentMap, NEW T \in SUBSET TagId, NEW root, Rooted(p, T, root),
         NEW id \in T, NEW newParent \in T, id \notin Path(p, newParent),
         NEW q, \A x \in TagId : q[x] = IF x = id THEN newParent ELSE p[x],
         NEW H \in SUBSET T, Closed(p, H), id \in H, newParent \in H
  PROVE  /\ Closed(q, H)
         /\ newParent # p[id] => Closed(q, H \ NewLeafs(p, H, id, newParent))
<1> DEFINE q1 == [p EXCEPT ![id] = newParent]
<1>1. \A x \in H : q1[x] = q[x]
  BY DEF ParentMap
<1>2. Closed(q1, H)
  BY MoveClosed DEF TagsAfterMove
<1>3. newParent # p[id] => Closed(q1, H \ NewLeafs(p, H, id, newParent))
  <2>1. newParent # p[id] => Closed(q1, TagsAfterMove(p, H, id, newParent, TRUE))
    BY MoveClosed
  <2> QED
    BY <2>1 DEF TagsAfterMove
<1> HIDE DEF q1
<1> QED
  BY <1>1, <1>2, <1>3 DEF Closed

\* Policy "keep": the TagHier after the move is the closure of the bookmark's lowest
\* tags and of the tag that id was under.
LEMMA MoveKeeps ==
  ASSUME NEW p \in ParentMap, NEW T \in SUBSET TagId, NEW root, Rooted(p, T, root),
         NEW id \in T, NEW newParent \in T, id \notin Path(p, newParent),
         NEW S \in SUBSET T, Closed(p, S), id \in S,
         NEW q \in ParentMap, \A x \in TagId : q[x] = IF x = id THEN newParent ELSE p[x],
         NEW C, C = Leafs(p, S) \cup {p[id]}
  PROVE  UpClosure(q, C) = UpClosure(p, S \cup {id, newParent})
<1> DEFINE H == UpClosure(p, S \cup {id, newParent})
           U == UpClosure(q, C)
<1>1. p[id] \in S /\ p[id] \in T
  <2>1. p[id] \in T
    BY MovedTagStays
  <2> QED
    BY <2>1, TagIdAssumption DEF ParentMap, Closed
<1>1a. Leafs(p, S) \subseteq C /\ p[id] \in C /\ C \in SUBSET S /\ C \in SUBSET TagId
  BY <1>1 DEF Leafs
<1>2. /\ H \in SUBSET T /\ Closed(p, H) /\ S \subseteq H /\ id \in H /\ newParent \in H
  <2>1. S \cup {id, newParent} \in SUBSET T /\ Closed(p, T) /\ S \cup {id, newParent} \in SUBSET TagId
    BY DEF Rooted
  <2> QED
    BY <2>1, UpClosureClosed, UpClosureLeast
<1>3. U \subseteq H
  <2>1. Closed(q, H)
    <3> HIDE DEF H
    <3> QED
      BY <1>2, MoveClosedIn
  <2>2. C \in SUBSET H /\ H \in SUBSET TagId
    BY <1>1a, <1>2
  <2> HIDE DEF H
  <2> QED
    BY <2>1, <2>2, UpClosureLeast
<1>4. U \in SUBSET TagId /\ C \subseteq U /\ Closed(q, U)
  BY <1>1, <1>1a, UpClosureClosed
<1>5. Closed(p, U)
  <2> SUFFICES ASSUME NEW w \in U PROVE p[w] \in U \cup {NoTag}
    BY DEF Closed
  <2>1. w # id => p[w] = q[w]
    BY <1>4 DEF ParentMap
  <2> QED
    BY <1>1a, <1>4, <2>1 DEF Closed
<1>6. S \subseteq U
  BY <1>1a, <1>4, <1>5, LeafsSpan
<1>7. newParent \in U
  <2>1. q[id] = newParent /\ newParent # NoTag
    BY TagIdAssumption DEF ParentMap
  <2> QED
    BY <1>4, <1>6, <2>1 DEF Closed
<1>8. H \subseteq U
  <2> DEFINE I == S \cup {id, newParent}
  <2>1. I \in SUBSET U
    BY <1>6, <1>7
  <2>2. H = UpClosure(p, I)
    OBVIOUS
  <2> HIDE DEF I, U
  <2> QED
    BY <1>4, <1>5, <2>1, <2>2, UpClosureLeast
<1> QED
  BY <1>3, <1>8

\* Policy "del": what removeChild deletes is what is above none of the bookmark's
\* lowest tags any more.
LEMMA MoveDeletes ==
  ASSUME NEW p \in ParentMap, NEW T \in SUBSET TagId, NEW root, Rooted(p, T, root),
         NEW id \in T, NEW newParent \in T, id \notin Path(p, newParent),
         newParent # p[id],
         NEW S \in SUBSET T, Closed(p, S), id \in S,
         NEW q \in ParentMap, \A x \in TagId : q[x] = IF x = id THEN newParent ELSE p[x]
  PROVE  LET H == UpClosure(p, S \cup {id, newParent})
         IN  UpClosure(q, Leafs(p, S)) = H \ NewLeafs(p, H, id, newParent)
<1> DEFINE H == UpClosure(p, S \cup {id, newParent})
           C == Leafs(p, S)
           U == UpClosure(q, C)
           chain == Path(p, p[id])
           links == LinksAfterMove(p, H, id, newParent)
           N == NewLeafs(p, H, id, newParent)
<1>1. /\ q \in ParentMap /\ p[id] \in S /\ p[id] \in T /\ id \notin chain
      /\ C \in SUBSET TagId /\ C \subseteq S
  <2>1. p[id] \in T /\ id \notin chain
    BY MovedTagStays
  <2>2. p[id] \in S
    BY <2>1, TagIdAssumption DEF Closed
  <2> QED
    BY <2>1, <2>2 DEF Leafs
<1>2. /\ H \in SUBSET T /\ Closed(p, H) /\ S \subseteq H /\ id \in H /\ newParent \in H
      /\ H = S \cup Path(p, newParent)
  <2>1. S \cup {id, newParent} \in SUBSET T /\ Closed(p, T) /\ S \cup {id, newParent} \in SUBSET TagId
    BY DEF Rooted
  <2>2. /\ H \in SUBSET T /\ Closed(p, H) /\ S \subseteq H /\ id \in H /\ newParent \in H
    BY <2>1, UpClosureClosed, UpClosureLeast
  <2>3. Path(p, newParent) \subseteq H
    BY <2>2, PathLeast
  <2>4. H \subseteq S \cup Path(p, newParent)
    <3>1. /\ S \cup Path(p, newParent) \in SUBSET TagId
          /\ S \cup {id, newParent} \in SUBSET (S \cup Path(p, newParent))
      BY PathClosed
    <3>2. Closed(p, S \cup Path(p, newParent))
      BY PathClosed DEF Closed
    <3> QED
      BY <3>1, <3>2, UpClosureLeast
  <2> QED
    BY <2>2, <2>3, <2>4
<1>3. chain \subseteq S /\ Closed(p, chain) /\ p[id] \in chain /\ chain \subseteq TagId
  BY <1>1, PathLeast, PathClosed
<1>4. C \cap chain = {}
  <2> SUFFICES ASSUME NEW x \in chain, x \in C PROVE FALSE
    OBVIOUS
  <2>1. x # p[id]
    BY <1>1 DEF Leafs, Kids
  <2>2. PICK z \in chain : p[z] = x
    BY <1>1, <2>1, KidOnPath
  <2> QED
    BY <1>3, <2>2 DEF Leafs, Kids
<1>5. U \subseteq H \ N
  <2>1. Closed(q, H \ N)
    <3> HIDE DEF H
    <3> QED
      BY <1>2, MoveClosedIn
  <2>2. C \in SUBSET (H \ N) /\ H \ N \in SUBSET TagId
    BY <1>1, <1>2, <1>4 DEF NewLeafs
  <2> HIDE DEF C, N
  <2> QED
    BY <1>1, <2>1, <2>2, UpClosureLeast
<1>6. U \in SUBSET TagId /\ C \subseteq U /\ Closed(q, U)
  BY <1>1, UpClosureClosed
<1>7. S \subseteq U \cup chain
  <2>1. Closed(p, U \cup chain)
    <3> SUFFICES ASSUME NEW w \in U \cup chain PROVE p[w] \in U \cup chain \cup {NoTag}
      BY DEF Closed
    <3>1. CASE w \in chain
      BY <1>3, <3>1 DEF Closed
    <3>2. CASE w \in U /\ w # id
      <4>1. p[w] = q[w]
        BY <1>6, <3>2 DEF ParentMap
      <4> QED
        BY <1>6, <3>2, <4>1 DEF Closed
    <3>3. CASE w = id
      BY <1>3, <3>3
    <3> QED
      BY <3>1, <3>2, <3>3
  <2>2. U \cup chain \in SUBSET TagId /\ C \subseteq U \cup chain
    BY <1>3, <1>6
  <2> QED
    BY <2>1, <2>2, LeafsSpan, SMTT(30)
<1>8. newParent \in U /\ Path(p, newParent) \subseteq U
  <2>1. id \in U
    BY <1>1, <1>7
  <2>2. q[id] = newParent /\ newParent # NoTag
    BY TagIdAssumption DEF ParentMap
  <2>3. newParent \in U
    BY <1>6, <2>1, <2>2 DEF Closed
  <2> QED
    BY <1>6, <2>3, PathStays
<1>9. ASSUME NEW w \in chain, w \notin N PROVE w \in U
  <2>1. PICK y \in chain : w \in Path(p, y) /\ \E e \in links : e[1] = y /\ e[2] \notin chain
    BY <1>9 DEF NewLeafs
  <2>2. PICK e \in links : e[1] = y /\ e[2] \notin chain
    BY <2>1
  <2>3. y \in U
    <3>1. CASE e = <<newParent, id>>
      BY <1>8, <2>2, <3>1
    <3>2. CASE e # <<newParent, id>>
      <4>1. PICK v \in H : e = <<p[v], v>> /\ v # id
        BY <2>2, <3>2 DEF LinksAfterMove
      <4>2. p[v] = y /\ v \notin chain /\ v \in U
        BY <1>2, <1>7, <1>8, <2>2, <4>1
      <4>3. q[v] = y
        BY <1>2, <4>1, <4>2 DEF ParentMap
      <4>4. y # NoTag
        BY <1>3, TagIdAssumption
      <4> QED
        BY <1>6, <4>2, <4>3, <4>4 DEF Closed
    <3> QED
      BY <3>1, <3>2
  <2>4. Path(p, y) \subseteq chain
    BY <1>1, PathOfAncestor
  <2>5. Path(p, y) \subseteq U
    BY <1>1, <1>6, <2>3, <2>4, PathStays
  <2> QED
    BY <2>1, <2>5
<1>10. H \ N \subseteq U
  BY <1>2, <1>7, <1>8, <1>9
<1> QED
  BY <1>5, <1>10

\* A deletion: what is left of the bookmark's tags is the closure of its lowest tags
\* that are left and of the tag above the deleted one.
LEMMA DeletionLeaves ==
  ASSUME NEW p \in ParentMap, NEW T \in SUBSET TagId, NEW root, Rooted(p, T, root),
         NEW id \in T, id # root,
         NEW S \in SUBSET T, Closed(p, S), id \in S,
         NEW q \in ParentMap, \A x \in T \ Subtree(p, id) : q[x] = p[x]
  PROVE  /\ UpClosure(q, (Leafs(p, S) \ Subtree(p, id)) \cup {p[id]}) = S \ Subtree(p, id)
         /\ Closed(q, S \ Subtree(p, id))
         /\ p[id] \in S \ Subtree(p, id)
<1> DEFINE gone == Subtree(p, id)
           left == S \ gone
           C == (Leafs(p, S) \ gone) \cup {p[id]}
           U == UpClosure(q, C)
<1>1. p[id] \in S \ gone /\ p[id] \in T
  <2>1. p[id] \in T /\ id \notin Path(p, p[id])
    BY RootOnPath, Acyclic
  <2> QED
    BY <2>1, TagIdAssumption DEF Closed, Subtree
<1>2. \A x \in TagId : p[x] \in gone => x \in gone
  BY SubtreeDown
<1>3. Closed(q, left)
  <2> SUFFICES ASSUME NEW x \in left PROVE q[x] \in left \cup {NoTag}
    BY DEF Closed
  <2>1. q[x] = p[x] /\ p[x] \in S \cup {NoTag}
    BY DEF Closed
  <2> QED
    BY <1>2, <2>1
<1>4. U \subseteq left
  <2>1. C \in SUBSET left /\ left \in SUBSET TagId
    BY <1>1 DEF Leafs
  <2> QED
    BY <1>3, <2>1, UpClosureLeast
<1>5. U \in SUBSET TagId /\ C \subseteq U /\ Closed(q, U)
  <2>1. C \in SUBSET TagId
    BY <1>1 DEF Leafs
  <2> QED
    BY <2>1, UpClosureClosed
<1>6. Closed(p, U \cup gone)
  <2> SUFFICES ASSUME NEW w \in U \cup gone PROVE p[w] \in U \cup gone \cup {NoTag}
    BY DEF Closed
  <2>1. CASE w \in U
    BY <1>4, <1>5, <2>1 DEF Closed
  <2>2. CASE w = id
    BY <1>5, <2>2
  <2>3. CASE w \in gone /\ w # id
    <3>1. w \in TagId /\ id \in Path(p, w)
      BY <2>3 DEF Subtree
    <3>2. p[w] # NoTag => p[w] \in TagId /\ id \in Path(p, p[w])
      BY <2>3, <3>1, PathSplit
    <3> QED
      BY <3>2 DEF Subtree
  <2> QED
    BY <2>1, <2>2, <2>3
<1>7. S \subseteq U \cup gone
  <2>1. U \cup gone \in SUBSET TagId /\ Leafs(p, S) \subseteq U \cup gone
    BY <1>5 DEF Subtree
  <2> QED
    BY <1>6, <2>1, LeafsSpan, ZenonT(30)
<1> QED
  BY <1>1, <1>3, <1>4, <1>7

-----------------------------------------------------------------------------
(* The operations.                                                         *)

\* What holds of the tables when the promise is kept.
Integrity == TreeInv /\ FullTaggingPath /\ NoRootOnlyTagging

Chosen == [b \in Taggable |-> Leafs(parent, taggings[b])]

LEMMA TaggingsFacts ==
  ASSUME Integrity, NEW b \in Taggable
  PROVE  /\ taggings[b] \in SUBSET tags /\ taggings[b] \in SUBSET TagId
         /\ Closed(parent, taggings[b])
         /\ Chosen[b] = Leafs(parent, taggings[b])
BY DEF Integrity, TreeInv, TypeOK, FullTaggingPath, Chosen

\* A bookmark is under a tag if it has a tagging with it.
LEMMA UnderMeansTagged ==
  ASSUME Integrity, NEW b \in Taggable, NEW id \in TagId
  PROVE  Promise!Under(b, id) <=> id \in taggings[b]
<1>1. Promise!Under(b, id) <=> id \in UpClosure(parent, Leafs(parent, taggings[b]))
  BY SameTrees DEF Promise!Under, UpClosure
<1>2. UpClosure(parent, Leafs(parent, taggings[b])) = taggings[b]
  BY TaggingsFacts, TreeFacts, ClosureOfLeafs DEF Integrity
<1> QED
  BY <1>1, <1>2

\* A step that touches no tagging and no parent of a tag with taggings.
LEMMA ChosenStays ==
  ASSUME Integrity, taggings' = taggings, \A x \in tags : parent'[x] = parent[x]
  PROVE  Chosen' = Chosen
<1>1. \A b \in Taggable : Leafs(parent', taggings[b]) = Leafs(parent, taggings[b])
  BY TaggingsFacts, LeafsLocal
<1> QED
  BY <1>1 DEF Chosen

LEMMA CreateTagPromised ==
  ASSUME Integrity, NEW par \in TagId, NEW id \in TagId, NEW N, NEW first,
         CreateTag(par, id, N, first)
  PROVE  Promise!Create(par, id)
<1>1. \A x \in tags : parent'[x] = parent[x]
  BY DEF CreateTag, Integrity, TreeInv, TypeOK
<1>2. Chosen' = Chosen
  BY <1>1, ChosenStays DEF CreateTag
<1> QED
  BY <1>2 DEF CreateTag, Promise!Create, Chosen

LEMMA CreateTagWithIntermediaryPromised ==
  ASSUME Integrity, NEW par \in TagId, NEW mid \in TagId, NEW midName,
         NEW id \in TagId, NEW N, NEW first,
         CreateTagWithIntermediary(par, mid, midName, id, N, first)
  PROVE  Promise!CreateTwo(par, mid, id)
<1>1. \A x \in tags : parent'[x] = parent[x]
  BY DEF CreateTagWithIntermediary, Integrity, TreeInv, TypeOK
<1>2. Chosen' = Chosen
  BY <1>1, ChosenStays DEF CreateTagWithIntermediary
<1> QED
  BY <1>2 DEF CreateTagWithIntermediary, Promise!CreateTwo, Chosen

\* A move to another parent does to each bookmark what the policy says.
LEMMA MoveTagPromised ==
  ASSUME Integrity, NEW id \in TagId, NEW newParent \in TagId, NEW policy \in LeafPolicy,
         MoveTag(id, newParent, policy), UNCHANGED tags, newParent # parent[id]
  PROVE  Promise!Move(id, newParent, policy)
<1>1. /\ id \in tags /\ newParent \in tags /\ id \notin Path(parent, newParent)
      /\ parent[id] \in tags
  BY CanMoveFacts DEF MoveTag, Integrity
<1>2. /\ tags \in SUBSET TagId /\ parent \in ParentMap /\ Rooted(parent, tags, Root)
  BY TreeFacts DEF Integrity
<1>3. /\ parent' \in ParentMap /\ Rooted(parent', tags, Root)
      /\ \A x \in TagId : parent'[x] = IF x = id THEN newParent ELSE parent[x]
  <2>1. Rooted([parent EXCEPT ![id] = newParent], tags, Root)
    BY <1>1, <1>2, RootedMove
  <2> QED
    BY <1>2, <2>1 DEF ParentMap, MoveTag
<1>4. ASSUME NEW b \in Taggable
      PROVE  Leafs(parent', taggings'[b]) =
               IF ~Promise!Under(b, id) THEN Chosen[b]
               ELSE Promise!Lowest(parent', Chosen[b] \cup
                      (IF policy = "keep" THEN {parent[id]} ELSE {}))
  <2>1. /\ taggings[b] \in SUBSET tags /\ taggings[b] \in SUBSET TagId
        /\ Closed(parent, taggings[b])
        /\ Chosen[b] = Leafs(parent, taggings[b])
        /\ Promise!Under(b, id) <=> id \in taggings[b]
    BY TaggingsFacts, UnderMeansTagged
  <2>2. CASE id \notin taggings[b]
    <3>1. taggings'[b] = taggings[b]
      BY <2>2 DEF MoveTag, Affected
    <3>2. \A x \in taggings[b] : parent'[x] = parent[x]
      BY <1>3, <2>1, <2>2
    <3>3. Leafs(parent', taggings[b]) = Leafs(parent, taggings[b])
      BY <2>1, <3>2, LeafsLocal
    <3> QED
      BY <2>1, <2>2, <3>1, <3>3
  <2>3. CASE id \in taggings[b]
    <3> DEFINE H == HierCur(b, id, newParent)
               C == Chosen[b] \cup (IF policy = "keep" THEN {parent[id]} ELSE {})
    <3>1. taggings'[b] = TagsAfterMove(parent, H, id, newParent, policy = "del")
      <4>1. b \in Affected(id)
        BY <2>3 DEF Affected, Integrity, TreeInv, UnusedOK
      <4> QED
        BY <4>1 DEF MoveTag
    <3>2. C \in SUBSET tags
      BY <1>1, <2>1 DEF Leafs
    <3>3. taggings'[b] = UpClosure(parent', C)
      <4>1. H = UpClosure(parent, taggings[b] \cup {id, newParent})
        BY DEF HierCur
      <4>2a. /\ id \in tags /\ newParent \in tags /\ id \notin Path(parent, newParent)
             /\ tags \in SUBSET TagId /\ parent \in ParentMap /\ Rooted(parent, tags, Root)
             /\ taggings[b] \in SUBSET tags /\ Closed(parent, taggings[b]) /\ id \in taggings[b]
        BY <1>1, <1>2, <2>1, <2>3
      <4>2. CASE policy = "keep"
        <5>1. taggings'[b] = H /\ C = Leafs(parent, taggings[b]) \cup {parent[id]}
          BY <2>1, <3>1, <4>2 DEF TagsAfterMove
        <5> HIDE DEF H, C
        <5>2. UpClosure(parent', C)
                = UpClosure(parent, taggings[b] \cup {id, newParent})
          BY <1>2, <1>3, <4>2a, <5>1, MoveKeeps
        <5> QED
          BY <1>2, <4>1, <5>1, <5>2
      <4>3. CASE policy = "del"
        <5>1. taggings'[b] = H \ NewLeafs(parent, H, id, newParent) /\ C = Leafs(parent, taggings[b])
          BY <2>1, <3>1, <4>3 DEF TagsAfterMove
        <5>2. UpClosure(parent', Leafs(parent, taggings[b]))
                = UpClosure(parent, taggings[b] \cup {id, newParent})
                    \ NewLeafs(parent, UpClosure(parent, taggings[b] \cup {id, newParent}), id, newParent)
          BY <1>2, <1>3, <4>2a, MoveDeletes
        <5> HIDE DEF H, C
        <5> QED
          BY <1>2, <4>1, <5>1, <5>2
      <4> QED
        BY <4>2, <4>3 DEF LeafPolicy
    <3>4. Leafs(parent', taggings'[b]) = Lowest(parent', C)
      <4> HIDE DEF C
      <4> QED
        BY <1>2, <1>3, <3>2, <3>3, LeafsOfClosure
    <3> QED
      BY <2>1, <2>3, <3>4, SameTrees
  <2> QED
    BY <2>2, <2>3
<1>5. Chosen' = [b \in Taggable |-> Leafs(parent', taggings'[b])]
  BY DEF Chosen
<1> QED
  BY <1>1, <1>2, <1>4, <1>5, SameTrees DEF Promise!Move, Chosen, MoveTag

\* A move to the parent the tag has, with policy "keep", changes nothing.
LEMMA MoveToSameParent ==
  ASSUME Integrity, "DelMoveToSameParent" \notin Unusual,
         NEW id \in TagId, NEW newParent \in TagId, NEW policy \in LeafPolicy,
         MoveTag(id, newParent, policy), newParent = parent[id]
  PROVE  parent' = parent /\ taggings' = taggings
<1>1. parent' = parent
  BY DEF MoveTag, Integrity, TreeInv, TypeOK
<1>2. policy = "keep" /\ id \in tags /\ newParent \in tags
  BY DEF MoveTag, CanMove, LeafPolicy
<1>3. ASSUME NEW b \in Taggable PROVE taggings'[b] = taggings[b]
  <2>1. CASE b \notin Affected(id)
    BY <2>1 DEF MoveTag
  <2>2. CASE b \in Affected(id)
    <3>1. taggings'[b] = HierCur(b, id, newParent)
      BY <1>2, <2>2 DEF MoveTag, TagsAfterMove
    <3>2. id \in taggings[b] /\ newParent \in taggings[b]
      <4>1. id \in taggings[b] /\ newParent # NoTag
        BY <2>2, TagIdAssumption DEF Affected
      <4> QED
        BY <4>1, TaggingsFacts DEF Closed
    <3>3. taggings[b] \cup {id, newParent} = taggings[b]
      BY <3>2
    <3>4. HierCur(b, id, newParent) = UpClosure(parent, taggings[b])
      BY <3>3 DEF HierCur
    <3>5. /\ taggings[b] \in SUBSET TagId /\ taggings[b] \in SUBSET taggings[b]
          /\ Closed(parent, taggings[b]) /\ parent \in ParentMap
      BY TaggingsFacts, TreeFacts DEF Integrity
    <3>6. UpClosure(parent, taggings[b]) = taggings[b]
      <4>1. taggings[b] \subseteq UpClosure(parent, taggings[b])
        BY <3>5, UpClosureClosed
      <4>2. UpClosure(parent, taggings[b]) \subseteq taggings[b]
        BY <3>5, UpClosureLeast
      <4> QED
        BY <4>1, <4>2
    <3> QED
      BY <3>1, <3>4, <3>6
  <2> QED
    BY <2>1, <2>2
<1> QED
  BY <1>1, <1>3 DEF MoveTag, Integrity, TreeInv, TypeOK

\* A deletion does to each bookmark what the promise says, the clean-up of bookmarks
\* that are left with the root tag alone included.
LEMMA DeleteTagPromised ==
  ASSUME Integrity, NEW id \in TagId, DeleteTag(id)
  PROVE  Promise!Delete(id)
<1> DEFINE gone == Subtree(parent, id)
<1>1. /\ tags \in SUBSET TagId /\ parent \in ParentMap /\ Rooted(parent, tags, Root)
      /\ \A x \in TagId \ tags : parent[x] = NoTag
      /\ id \in tags /\ id # Root
  BY TreeFacts DEF Integrity, DeleteTag
<1>2. /\ tags' = tags \ gone /\ id \notin tags'
      /\ \A x \in TagId : parent'[x] = IF x \in gone THEN NoTag ELSE parent[x]
  BY <1>1, PathClosed DEF DeleteTag, Subtree
<1>3. parent' \in ParentMap /\ parent' = [x \in TagId |-> IF x \in tags' THEN parent[x] ELSE NoTag]
  BY <1>1, <1>2 DEF DeleteTag, ParentMap
<1>4. \A x \in tags \ gone : parent'[x] = parent[x]
  BY <1>1, <1>2
<1>5. ASSUME NEW b \in Taggable
      PROVE  Leafs(parent', taggings'[b]) =
               IF ~Promise!Under(b, id) THEN Chosen[b]
               ELSE Promise!Lowest(parent', (Chosen[b] \cap tags') \cup
                      ({parent[id]} \ {Root}))
  <2> DEFINE S == taggings[b]
             left == S \ gone
             C == (Leafs(parent, S) \ gone) \cup ({parent[id]} \ {Root})
  <2>1. /\ S \in SUBSET tags /\ S \in SUBSET TagId /\ Closed(parent, S)
        /\ Chosen[b] = Leafs(parent, S)
        /\ Promise!Under(b, id) <=> id \in S
    BY TaggingsFacts, UnderMeansTagged
  <2>2. taggings'[b] = IF parent[id] = Root /\ left = {Root} THEN {} ELSE left
    BY DEF DeleteTag, TaggingsAfterDelete
  <2>3. CASE id \notin S
    <3>1. left = S
      BY <1>1, <2>1, <2>3, PathLeast DEF Subtree
    <3>2. S # {Root}
      BY DEF Integrity, NoRootOnlyTagging
    <3>3. taggings'[b] = S
      BY <2>2, <3>1, <3>2
    <3>4. \A x \in S : parent'[x] = parent[x]
      BY <1>4, <2>1, <3>1
    <3>5. Leafs(parent', S) = Leafs(parent, S)
      BY <2>1, <3>4, LeafsLocal
    <3> QED
      BY <2>1, <2>3, <3>3, <3>5
  <2>4. CASE id \in S
    <3>1. (Chosen[b] \cap tags') \cup ({parent[id]} \ {Root}) = C
      BY <1>2, <2>1 DEF Leafs
    <3>2. /\ S \in SUBSET tags /\ Closed(parent, S) /\ id \in S
          /\ \A x \in tags \ Subtree(parent, id) : parent'[x] = parent[x]
          /\ parent' \in ParentMap
      BY <1>3, <1>4, <2>1, <2>4
    <3> DEFINE D == Leafs(parent, S) \ gone
    <3>3. UpClosure(parent', D \cup {parent[id]}) = left /\ parent[id] \in left
      <4> HIDE DEF S
      <4> QED
        BY <1>1, <3>2, DeletionLeaves, ZenonT(30)
    <3>4. Rooted(parent', tags', Root) /\ tags' \in SUBSET TagId
      BY <1>1, <1>2, <1>4, RootedCut
    <3>5. /\ D \subseteq left /\ left \in SUBSET tags' /\ D \in SUBSET tags' /\ C \in SUBSET tags'
      BY <1>2, <2>1, <3>3 DEF Leafs
    <3>6. Lowest(parent', C) = Leafs(parent', UpClosure(parent', C))
      <4> HIDE DEF C
      <4> QED
        BY <1>3, <3>4, <3>5, LeafsOfClosure
    <3>7. Lowest(parent', C) = Leafs(parent', taggings'[b])
      <4>1. CASE parent[id] # Root
        <5>1. C = D \cup {parent[id]}
          BY <4>1
        <5> HIDE DEF C, D, left
        <5> QED
          BY <2>2, <3>3, <3>6, <4>1, <5>1
      <4>2. CASE parent[id] = Root /\ left = {Root}
        <5>1. Root \notin D
          BY <1>1, <2>4, <4>2 DEF Leafs, Kids
        <5>2. C = {}
          BY <3>5, <4>2, <5>1
        <5> QED
          BY <2>2, <4>2, <5>2 DEF Lowest, Leafs
      <4>3. CASE parent[id] = Root /\ left # {Root}
        <5> HIDE DEF D, left
        <5>1. Path(parent', Root) = {Root}
          BY <1>3, <3>4, PathSplit DEF Rooted
        <5>2. PICK w \in left : w # Root
          BY <3>3, <4>3
        <5>3. PICK c \in D \cup {Root} : w \in Path(parent', c)
          BY <3>3, <4>3, <5>2 DEF UpClosure
        <5>4. c \in D
          BY <5>1, <5>2, <5>3
        <5>5. Root \in Path(parent', c)
          BY <1>3, <3>4, <3>5, <5>4, RootOnPath
        <5>6. UpClosure(parent', D \cup {Root}) = UpClosure(parent', D)
          BY <5>1, <5>4, <5>5 DEF UpClosure
        <5>7. C = D
          BY <4>3 DEF D
        <5> HIDE DEF C
        <5> QED
          BY <2>2, <3>3, <3>6, <4>3, <5>6, <5>7
      <4> QED
        BY <4>1, <4>2, <4>3
    <3> QED
      BY <2>1, <2>4, <3>1, <3>7, SameTrees
  <2> QED
    BY <2>3, <2>4
<1>6. Chosen' = [b \in Taggable |-> Leafs(parent', taggings'[b])]
  BY DEF Chosen
<1> QED
  BY <1>1, <1>2, <1>3, <1>5, <1>6, SameTrees DEF Promise!Delete, Chosen

\* The leafs of a closed set are none of them over another one.
LEMMA LeafsAreLowest ==
  ASSUME NEW p \in ParentMap, NEW T \in SUBSET TagId, NEW root, Rooted(p, T, root),
         NEW S \in SUBSET T, Closed(p, S)
  PROVE  Leafs(p, S) \in SUBSET T /\ Lowest(p, Leafs(p, S)) = Leafs(p, S)
<1>1. Leafs(p, S) \in SUBSET T
  BY DEF Leafs
<1>2. Lowest(p, Leafs(p, S)) = Leafs(p, UpClosure(p, Leafs(p, S)))
  BY <1>1, LeafsOfClosure
<1> QED
  BY <1>1, <1>2, ClosureOfLeafs

\* Tagging one bookmark, or deleting it, is a choice of tags for it.
LEMMA ChoicePromised ==
  ASSUME Integrity, Integrity', UNCHANGED <<tags, parent>>, NEW b \in Taggable,
         \A c \in Taggable \ {b} : taggings'[c] = taggings[c]
  PROVE  Promise!Choose(b)
<1>1. Chosen' = [c \in Taggable |-> Leafs(parent, taggings'[c])]
  BY DEF Chosen
<1>2. taggings'[b] \in SUBSET tags /\ Closed(parent, taggings'[b])
  BY DEF Integrity, TreeInv, TypeOK, FullTaggingPath
<1>3. /\ Leafs(parent, taggings'[b]) \in SUBSET tags
      /\ Lowest(parent, Leafs(parent, taggings'[b])) = Leafs(parent, taggings'[b])
  BY <1>2, TreeFacts, LeafsAreLowest DEF Integrity
<1> QED
  BY <1>1, <1>3, SameTrees DEF Promise!Choose, Chosen

-----------------------------------------------------------------------------
(* The refinement.                                                         *)

LEMMA PromiseInit == Init => Promise!Init
BY DEF Init, Promise!Init, Leafs

\* Every request is a step of the promise, or leaves what it speaks of alone: a
\* renaming, a panic, a move to the parent the tag has.
LEMMA PromiseStep ==
  ASSUME "DelMoveToSameParent" \notin Unusual
  PROVE  Integrity /\ Integrity' /\ [Next]_vars => [Promise!Next]_(Promise!vars)
<1> SUFFICES ASSUME Integrity, Integrity', [Next]_vars
             PROVE  [Promise!Next]_(Promise!vars)
  OBVIOUS
<1>1. ASSUME NEW par \in TagId, NEW id \in TagId, NEW N \in NameSet, NEW first \in N,
             CreateTag(par, id, N, first)
      PROVE  Promise!Next
  BY <1>1, CreateTagPromised DEF Promise!Next
<1>2. ASSUME NEW par \in TagId, NEW mid \in TagId, NEW id \in TagId, NEW midName \in Name,
             NEW N \in NameSet, NEW first \in N,
             CreateTagWithIntermediary(par, mid, midName, id, N, first)
      PROVE  Promise!Next
  BY <1>2, CreateTagWithIntermediaryPromised DEF Promise!Next
<1>3. ASSUME NEW id \in TagId, NEW N \in NameSet, NEW first \in N, RenameTag(id, N, first)
      PROVE  UNCHANGED Promise!vars
  BY <1>3 DEF RenameTag, Promise!vars
<1>4. ASSUME NEW id \in TagId, NEW newParent \in TagId, NEW policy \in LeafPolicy,
             MoveOnly(id, newParent, policy) \/ MoveAndRename(id, newParent, policy)
      PROVE  [Promise!Next]_(Promise!vars)
  <2>1. MoveTag(id, newParent, policy) /\ UNCHANGED tags
    BY <1>4 DEF MoveOnly, MoveAndRename
  <2>2. CASE newParent # parent[id]
    BY <2>1, <2>2, MoveTagPromised DEF Promise!Next, LeafPolicy
  <2>3. CASE newParent = parent[id]
    <3>1. parent' = parent /\ taggings' = taggings
      BY <2>1, <2>3, MoveToSameParent
    <3> QED
      BY <2>1, <3>1 DEF Promise!vars
  <2> QED
    BY <2>2, <2>3
<1>5. ASSUME NEW id \in TagId, NEW newParent \in TagId, NEW policy \in LeafPolicy,
             MovePanic(id, newParent, policy)
      PROVE  UNCHANGED Promise!vars
  BY <1>5 DEF MovePanic, tagVars, Promise!vars
<1>6. ASSUME NEW id \in TagId, DeleteTag(id)
      PROVE  Promise!Next
  BY <1>6, DeleteTagPromised DEF Promise!Next
<1>7. ASSUME NEW b \in Taggable, NEW I \in SUBSET TagId,
             CreateTaggable(b, I) \/ UpdateTaggable(b, I) \/ DeleteTaggable(b)
      PROVE  Promise!Next
  <2>1. /\ UNCHANGED <<tags, parent>>
        /\ \A c \in Taggable \ {b} : taggings'[c] = taggings[c]
    BY <1>7 DEF CreateTaggable, UpdateTaggable, DeleteTaggable, SetTaggings, tagVars,
                Integrity, TreeInv, TypeOK
  <2>2. Promise!Choose(b)
    BY <2>1, ChoicePromised
  <2> QED
    BY <2>2 DEF Promise!Next
<1>8. CASE UNCHANGED vars
  BY <1>8 DEF vars, Promise!vars
<1>9. CASE \E b \in Taggable : DeleteTaggable(b)
  BY <1>7, <1>9
<1> QED
  BY <1>1, <1>2, <1>3, <1>4, <1>5, <1>6, <1>7, <1>8, <1>9 DEF Next

\* All of it is kept when no request breaks the code's own rules for taggings.
LEMMA IntegrityInvariance ==
  ASSUME "DelMoveToSameParent" \notin Unusual, "TagWithRootOnly" \notin Unusual
  PROVE  Spec => []Integrity
<1>1. TreeInv /\ FullTaggingPath /\ NoRootOnlyTagging => Integrity
  BY DEF Integrity
<1>2. Spec => []TreeInv /\ []FullTaggingPath /\ []NoRootOnlyTagging
  BY TreeInvariance, FullPath, NotRootOnly
<1> QED
  BY <1>1, <1>2, PTL

\* The tables keep what BookmarkTags promises the user, whatever requests come,
\* two unusual ones excepted: moving a tag with policy "del" to the parent it
\* has, and tagging a bookmark with the root tag alone.
THEOREM KeepsPromise ==
  ASSUME "DelMoveToSameParent" \notin Unusual, "TagWithRootOnly" \notin Unusual
  PROVE  Spec => ImplementsBookmarkTags
<1>1. Spec => []Integrity
  BY IntegrityInvariance
<1>2. Integrity /\ Integrity' /\ [Next]_vars => [Promise!Next]_(Promise!vars)
  BY PromiseStep
<1> QED
  BY <1>1, <1>2, PromiseInit, PTL DEF Spec, ImplementsBookmarkTags, Promise!Spec

-----------------------------------------------------------------------------
\* Searching a closed set is searching what its leafs are under.
LEMMA SearchByLeafs ==
  ASSUME TreeInv, FullTaggingPath, NEW b \in Taggable, NEW x \in TagId
  PROVE  x \in taggings[b] <=> Leafs(parent, taggings[b]) \cap Subtree(parent, x) # {}
<1>1. /\ taggings[b] \in SUBSET tags /\ taggings[b] \in SUBSET TagId
      /\ Closed(parent, taggings[b])
  BY DEF TreeInv, TypeOK, FullTaggingPath
<1>1a. taggings[b] = UpClosure(parent, Leafs(parent, taggings[b]))
  BY <1>1, TreeFacts, ClosureOfLeafs
<1>2. Leafs(parent, taggings[b]) \subseteq TagId
  BY <1>1 DEF Leafs
<1>3. x \in taggings[b] <=> \E y \in Leafs(parent, taggings[b]) : x \in Path(parent, y)
  BY <1>1a DEF UpClosure
<1> QED
  BY <1>2, <1>3 DEF Subtree

\* GetTaggedTaggableIDs, which compares ids only, finds the bookmarks whose own
\* tags are at or under the tags searched for, in whatever state of the tree.
THEOREM SearchFinds ==
  ASSUME "DelMoveToSameParent" \notin Unusual
  PROVE  Spec => []SearchFindsBelow
<1>1. TreeInv /\ FullTaggingPath => SearchFindsBelow
  <2> SUFFICES ASSUME TreeInv, FullTaggingPath, NEW S \in SUBSET tags, NEW b \in taggables
               PROVE  LET own == Leafs(parent, taggings[b])
                      IN  (IF S = {} THEN taggings[b] = {} ELSE S \subseteq taggings[b])
                            <=> (IF S = {} THEN own = {}
                                 ELSE \A x \in S : own \cap Subtree(parent, x) # {})
    BY DEF SearchFindsBelow, GetTaggedTaggableIDs
  <2>1. b \in Taggable /\ S \subseteq TagId
    BY DEF TreeInv, TypeOK
  <2>2. taggings[b] = {} <=> Leafs(parent, taggings[b]) = {}
    <3>1. taggings[b] \subseteq TagId
      BY <2>1 DEF TreeInv, TypeOK
    <3> QED
      BY <2>1, <3>1, SearchByLeafs DEF Leafs
  <2>3. \A x \in S : x \in taggings[b]
                       <=> Leafs(parent, taggings[b]) \cap Subtree(parent, x) # {}
    BY <2>1, SearchByLeafs
  <2> QED
    BY <2>2, <2>3
<1> QED
  BY <1>1, TreeInvariance, FullPath, PTL

-----------------------------------------------------------------------------
(***************************************************************************)
(* The reads of TagLookup.                                                 *)
(***************************************************************************)

(* The tree: each turn of the reading finds the next generation of tags.   *)

\* A tag is read in one row.
LEMMA RowsFacts ==
  ASSUME TreeInv, OnePrimaryName, NEW X \in SUBSET tags
  PROVE  /\ \A r \in Rows(X) : r[1] \in X
         /\ \A x \in X : \E r \in Rows(X) : r[1] = x /\ Rows({x}) = {r}
         /\ \A r \in Rows(X) : Rows({r[1]}) = {r}
         /\ Cardinality(Rows(X)) = Cardinality(X)
<1>1. \A r : r \in Rows(X) <=> \E x \in X : \E n \in primary[x] : r = <<x, n>>
  BY DEF Rows
<1>2. \A x \in tags : \E n : primary[x] = {n} /\ Rows({x}) = {<<x, n>>}
  BY DEF OnePrimaryName, Rows
<1>3. \A r \in Rows(X) : r[1] \in X /\ Rows({r[1]}) = {r}
  BY <1>1, <1>2
<1>4. \A x \in X : \E r \in Rows(X) : r[1] = x /\ Rows({x}) = {r}
  BY <1>1, <1>2
<1>5. Cardinality(Rows(X)) = Cardinality(X)
  <2> DEFINE f == [r \in Rows(X) |-> r[1]]
  <2>1. f \in [Rows(X) -> X]
    BY <1>3
  <2>2. \A x \in X : \E r \in Rows(X) : f[r] = x
    BY <1>4
  <2>3. \A r, q \in Rows(X) : f[r] = f[q] => r = q
    BY <1>3
  <2>4. f \in Surjection(Rows(X), X) /\ f \in Injection(Rows(X), X)
    <3> HIDE DEF f
    <3> QED
      BY <2>1, <2>2, <2>3 DEF Injection, Surjection, IsInjective
  <2>6. IsFiniteSet(X)
    BY TreeFacts, TagIdAssumption, FS_Subset
  <2> QED
    BY <2>4, <2>6, FS_Injection
<1> QED
  BY <1>3, <1>4, <1>5

\* The tags n + 1 below par.
Below(par, n) ==
  {y \in tags : /\ par \in Path(parent, y)
                /\ Cardinality(Path(parent, y)) = Cardinality(Path(parent, par)) + n + 1}

\* The tags below a tag are its children, those of the children, and so on.
LEMMA BelowFacts ==
  ASSUME TreeInv, NEW par \in tags
  PROVE  /\ Below(par, 0) = Kids(parent, par)
         /\ \A n \in Nat \ {0} : Below(par, n) = UNION {Kids(parent, y) : y \in Below(par, n - 1)}
         /\ UNION {Below(par, n) : n \in 0..Cardinality(TagId)} = Subtree(parent, par) \ {par}
<1>1. /\ tags \in SUBSET TagId /\ parent \in ParentMap /\ Rooted(parent, tags, Root)
      /\ \A x \in TagId \ tags : parent[x] = NoTag
  BY TreeFacts
<1>2. \A y \in tags : /\ Cardinality(Path(parent, y)) \in Nat
                      /\ Cardinality(Path(parent, y)) <= Cardinality(TagId)
  <2> TAKE y \in tags
  <2>1. Cardinality(Path(parent, y)) \in 1..Cardinality(TagId) /\ Cardinality(TagId) \in Nat
    BY <1>1, PathCount, Zenon
  <2> QED
    BY <2>1
<1>3. \A y \in tags : y \in Path(parent, y) /\ Path(parent, y) \subseteq tags
  BY <1>1, PathClosed, RootOnPath
<1>4. \A y \in TagId, x \in tags : parent[y] = x =>
        /\ y \in tags /\ Path(parent, y) = {y} \cup Path(parent, x) /\ y # x
        /\ y \notin Path(parent, x)
        /\ Cardinality(Path(parent, y)) = Cardinality(Path(parent, x)) + 1
  <2> TAKE y \in TagId, x \in tags
  <2> HAVE parent[y] = x
  <2>1. y \in tags /\ y # Root
    BY <1>1, TagIdAssumption DEF Rooted
  <2>2. /\ Path(parent, y) = {y} \cup Path(parent, x) /\ y \notin Path(parent, x)
        /\ Cardinality(Path(parent, y)) = Cardinality(Path(parent, x)) + 1
    BY <1>1, <2>1, PathCount
  <2> QED
    BY <1>3, <2>1, <2>2
<1>5. \A y \in tags : par \in Path(parent, y) /\ y # par =>
        /\ parent[y] \in tags /\ par \in Path(parent, parent[y])
        /\ Cardinality(Path(parent, y)) = Cardinality(Path(parent, parent[y])) + 1
  <2> TAKE y \in tags
  <2> HAVE par \in Path(parent, y) /\ y # par
  <2>1. y # Root
    BY <1>1, PathCount
  <2> QED
    BY <1>1, <2>1, PathCount
<1>6. \A y \in tags : par \in Path(parent, y) =>
        Cardinality(Path(parent, par)) <= Cardinality(Path(parent, y))
  BY <1>1, PathCount
<1>6a. \A x, y \in tags : /\ x \in Path(parent, y)
                         /\ Cardinality(Path(parent, x)) = Cardinality(Path(parent, y)) => x = y
  <2> TAKE x, y \in tags
  <2> HAVE x \in Path(parent, y) /\ Cardinality(Path(parent, x)) = Cardinality(Path(parent, y))
  <2>1. Cardinality(Path(parent, y)) \in 1..Cardinality(Path(parent, y))
    <3>1. Cardinality(Path(parent, y)) \in 1..Cardinality(TagId) /\ Cardinality(TagId) \in Nat
      BY <1>1, PathCount, Zenon
    <3> QED
      BY <3>1
  <2>2. OneDeep(parent, y, Cardinality(Path(parent, y)))
    BY <1>1, <2>1, PathDepths
  <2> QED
    BY <1>3, <2>2 DEF OneDeep
<1>7. Below(par, 0) = Kids(parent, par)
  <2>1. ASSUME NEW y \in Below(par, 0) PROVE y \in Kids(parent, par)
    <3>1. y \in tags /\ par \in Path(parent, y) /\ y # par
          /\ Cardinality(Path(parent, y)) = Cardinality(Path(parent, par)) + 1
      BY <1>2, <2>1 DEF Below
    <3>2. parent[y] \in tags /\ par \in Path(parent, parent[y])
          /\ Cardinality(Path(parent, par)) = Cardinality(Path(parent, parent[y]))
      BY <1>2, <1>5, <3>1
    <3> QED
      BY <1>1, <1>6a, <3>1, <3>2 DEF Kids
  <2>2. ASSUME NEW y \in Kids(parent, par) PROVE y \in Below(par, 0)
    BY <1>2, <1>3, <1>4, <2>2 DEF Below, Kids
  <2> QED
    BY <2>1, <2>2
<1>8. ASSUME NEW n \in Nat \ {0}
      PROVE  Below(par, n) = UNION {Kids(parent, y) : y \in Below(par, n - 1)}
  <2>1. ASSUME NEW y \in Below(par, n) PROVE parent[y] \in Below(par, n - 1) /\ y \in Kids(parent, parent[y])
    <3>1. y \in tags /\ par \in Path(parent, y) /\ y # par
          /\ Cardinality(Path(parent, y)) = Cardinality(Path(parent, par)) + n + 1
      BY <1>2, <2>1 DEF Below
    <3>2. parent[y] \in tags /\ par \in Path(parent, parent[y])
          /\ Cardinality(Path(parent, y)) = Cardinality(Path(parent, parent[y])) + 1
      BY <1>5, <3>1
    <3> QED
      BY <1>1, <1>2, <3>1, <3>2 DEF Below, Kids
  <2>2. ASSUME NEW x \in Below(par, n - 1), NEW y \in Kids(parent, x) PROVE y \in Below(par, n)
    <3>1. x \in tags /\ par \in Path(parent, x)
          /\ Cardinality(Path(parent, x)) = Cardinality(Path(parent, par)) + (n - 1) + 1
      BY <2>2 DEF Below
    <3>2. y \in tags /\ par \in Path(parent, y)
          /\ Cardinality(Path(parent, y)) = Cardinality(Path(parent, x)) + 1
      BY <1>4, <2>2, <3>1 DEF Kids
    <3> QED
      BY <1>2, <3>1, <3>2 DEF Below
  <2> QED
    BY <2>1, <2>2
<1>9. UNION {Below(par, n) : n \in 0..Cardinality(TagId)} = Subtree(parent, par) \ {par}
  <2>1. ASSUME NEW y \in Subtree(parent, par) \ {par}
        PROVE  \E n \in 0..Cardinality(TagId) : y \in Below(par, n)
    <3>1. y \in TagId /\ par \in Path(parent, y)
      BY <2>1 DEF Subtree
    <3>2. y \in tags
      <4>1. CASE parent[y] = NoTag
        BY <1>1, <2>1, <3>1, <4>1, PathSplit
      <4> QED
        BY <1>1, <3>1, <4>1
    <3>3. Cardinality(Path(parent, par)) # Cardinality(Path(parent, y))
      BY <1>6a, <2>1, <3>1, <3>2
    <3>4. /\ Cardinality(Path(parent, par)) \in Nat /\ Cardinality(Path(parent, y)) \in Nat
          /\ Cardinality(Path(parent, par)) <= Cardinality(Path(parent, y))
          /\ Cardinality(Path(parent, y)) <= Cardinality(TagId)
      BY <1>2, <1>6, <3>1, <3>2
    <3>5. Cardinality(TagId) \in Nat
      BY TagIdAssumption, FS_CardinalityType
    <3> DEFINE n == Cardinality(Path(parent, y)) - Cardinality(Path(parent, par)) - 1
    <3>6. n \in 0..Cardinality(TagId)
          /\ Cardinality(Path(parent, y)) = Cardinality(Path(parent, par)) + n + 1
      BY <3>3, <3>4, <3>5
    <3> QED
      BY <3>1, <3>2, <3>6 DEF Below
  <2>2. ASSUME NEW n \in 0..Cardinality(TagId), NEW y \in Below(par, n)
        PROVE  y \in Subtree(parent, par) \ {par}
    BY <1>1, <1>2, <2>2 DEF Below, Subtree
  <2> QED
    BY <2>1, <2>2
<1> QED
  BY <1>7, <1>8, <1>9

\* What one turn of the tree's reading makes of the rows of the one before.
RowsUnder(R) == UNION {Rows(Kids(parent, r[1])) : r \in {q \in R : HasSubtags(q[1])}}

LEMMA LevelsFacts ==
  ASSUME TreeInv, NEW par, NEW D, D = Cardinality(TagId)
  PROVE  /\ D \in Nat
         /\ Levels(par)[0] = Rows(Kids(parent, par))
         /\ \A n \in 1..D : Levels(par)[n] = RowsUnder(Levels(par)[n - 1])
<1> DEFINE S == SUBSET (TagId \X AnyName)
           s == Rows(Kids(parent, par))
           F == [n \in 1..D |-> [R \in S |-> RowsUnder(R)]]
           Is(f) == f = [n \in 0..D |-> IF n = 0 THEN s ELSE RowsUnder(f[n - 1])]
<1>1. D \in Nat
  BY TagIdAssumption, FS_CardinalityType
<1>2. \A x : Rows(Kids(parent, x)) \in S
  BY DEF TreeInv, TypeOK, Rows, Kids
<1>3. \A R : RowsUnder(R) \in S
  <2> HIDE DEF S
  <2>1. \A R : \A r \in {q \in R : HasSubtags(q[1])} : Rows(Kids(parent, r[1])) \in S
    BY <1>2
  <2> QED
    BY <2>1 DEF RowsUnder, S
<1>4. s \in S /\ F \in [1..D -> [S -> S]]
  BY <1>2, <1>3
<1>5. PICK f \in [0..D -> S] : TurnsBy(f, F, s, D)
  <2> HIDE DEF S, F, s
  <2> QED
    BY <1>1, <1>4, TurnsByExist
<1>6. Is(f)
  <2>1. \A n \in 0..D : n # 0 => n \in 1..D /\ n - 1 \in 0..D
    BY <1>1
  <2>2. \A n \in 0..D : n # 0 => F[n][f[n - 1]] = RowsUnder(f[n - 1])
    <3> TAKE n \in 0..D
    <3> HAVE n # 0
    <3>1. f[n - 1] \in S /\ n \in 1..D
      BY <1>5, <2>1
    <3> HIDE DEF S
    <3> QED
      BY <3>1
  <2> HIDE DEF F, S, s
  <2> QED
    BY <1>5, <2>2 DEF TurnsBy
<1>7. Levels(par) = CHOOSE g : Is(g)
  BY DEF Levels, RowsUnder
<1>8. Is(Levels(par))
  <2> HIDE DEF Is
  <2> QED
    BY <1>6, <1>7
<1>9. \A n \in 0..D : Levels(par)[n] = IF n = 0 THEN s ELSE RowsUnder(Levels(par)[n - 1])
  BY <1>8
<1> QED
  <2> HIDE DEF Is, s
  <2>1. 0 \in 0..D /\ \A n \in 1..D : n \in 0..D /\ n # 0
    BY <1>1
  <2> QED
    BY <1>1, <1>9, <2>1 DEF s

\* children_cnt says rightly whether a tag has children.
LEMMA SubtagsKnown ==
  ASSUME TreeInv, ChildrenCntOK, NEW x \in tags
  PROVE  HasSubtags(x) <=> Kids(parent, x) # {}
<1>1. IsFiniteSet(Kids(parent, x)) /\ Cardinality(Kids(parent, x)) \in Nat
  BY KidsFinite
<1>2. Cardinality(Kids(parent, x)) = 0 <=> Kids(parent, x) = {}
  BY <1>1, FS_EmptySet
<1> QED
  BY <1>1, <1>2 DEF HasSubtags, ChildrenCntOK

\* Each turn reads the tags of one more generation.
LEMMA LevelsAreBelow ==
  ASSUME TreeInv, OnePrimaryName, ChildrenCntOK, NEW par \in tags
  PROVE  \A n \in 0..Cardinality(TagId) : Levels(par)[n] = Rows(Below(par, n))
<1> DEFINE D == Cardinality(TagId)
           S == {n \in 0..D : Levels(par)[n] = Rows(Below(par, n))}
<1>1. /\ D \in Nat
      /\ Levels(par)[0] = Rows(Kids(parent, par))
      /\ \A n \in 1..D : Levels(par)[n] = RowsUnder(Levels(par)[n - 1])
  BY LevelsFacts
<1>2. 0 \in S
  BY <1>1, BelowFacts
<1>3. ASSUME NEW n \in 1..D, n - 1 \in S PROVE n \in S
  <2> DEFINE B == Below(par, n - 1)
  <2>1. Levels(par)[n] = RowsUnder(Rows(B))
    BY <1>1, <1>3
  <2>2. B \in SUBSET tags
    BY DEF Below
  <2>3. n \in Nat \ {0} /\ n \in 0..D
    BY <1>1
  <2>4. Below(par, n) = UNION {Kids(parent, y) : y \in B}
    BY <2>3, BelowFacts
  <2>5. \A q : q \in Rows(Below(par, n)) <=> \E y \in B : q \in Rows(Kids(parent, y))
    <3>1. \A q, X : q \in Rows(X) <=> \E z \in X : q \in {z} \X primary[z]
      BY DEF Rows
    <3> HIDE DEF B
    <3> QED
      BY <2>4, <3>1
  <2>6. \A q : q \in RowsUnder(Rows(B))
               <=> \E r \in Rows(B) : HasSubtags(r[1]) /\ q \in Rows(Kids(parent, r[1]))
    <3> HIDE DEF B
    <3> QED
      BY DEF RowsUnder
  <2>7. /\ \A r \in Rows(B) : r[1] \in B
        /\ \A y \in B : \E r \in Rows(B) : r[1] = y
    <3> HIDE DEF B
    <3> QED
      BY <2>2, RowsFacts
  <2>8. \A y \in B : \A q : q \in Rows(Kids(parent, y)) => HasSubtags(y)
    <3> TAKE y \in B
    <3> TAKE q
    <3> HAVE q \in Rows(Kids(parent, y))
    <3>1. Kids(parent, y) # {}
      BY DEF Rows
    <3> QED
      BY <2>2, <3>1, SubtagsKnown
  <2>9. RowsUnder(Rows(B)) = Rows(Below(par, n))
    <3> HIDE DEF B
    <3> QED
      BY <2>5, <2>6, <2>7, <2>8
  <2> QED
    BY <2>1, <2>3, <2>9
<1>4. 0..D \subseteq S
  <2> HIDE DEF S, D
  <2> QED
    BY <1>1, <1>2, <1>3, NumbersStay
<1> QED
  BY <1>4

\* The tree read from a tag has a row for each tag of its subtree.
LEMMA SubtreeIsRead ==
  ASSUME TreeInv, OnePrimaryName, ChildrenCntOK, NEW x \in tags
  PROVE  GetTag(x) = Rows(Subtree(parent, x)) /\ Subtree(parent, x) \in SUBSET tags
<1> DEFINE D == Cardinality(TagId)
<1>1. /\ tags \in SUBSET TagId /\ parent \in ParentMap /\ Rooted(parent, tags, Root)
      /\ \A y \in TagId \ tags : parent[y] = NoTag
  BY TreeFacts
<1>2. GetTags(x) = UNION {Rows(Below(x, n)) : n \in 0..D}
  BY LevelsAreBelow DEF GetTags
<1>3. UNION {Below(x, n) : n \in 0..D} = Subtree(parent, x) \ {x}
  BY BelowFacts
<1>4. x \in Subtree(parent, x)
  BY <1>1, PathClosed DEF Subtree
<1>5. Subtree(parent, x) \in SUBSET tags
  <2>1. \A n \in 0..D : Below(x, n) \subseteq tags
    BY DEF Below
  <2> QED
    BY <1>3, <2>1
<1>6. \A q, X : q \in Rows(X) <=> \E z \in X : q \in Rows({z})
  BY DEF Rows
<1>7. \A q : q \in GetTags(x) <=> \E z \in Subtree(parent, x) \ {x} : q \in Rows({z})
  <2>1. \A q : q \in GetTags(x) <=> \E n \in 0..D : q \in Rows(Below(x, n))
    BY <1>2
  <2>2. \A q : q \in GetTags(x) <=> \E n \in 0..D : \E z \in Below(x, n) : q \in Rows({z})
    BY <1>6, <2>1, Zenon
  <2>3. \A z : z \in Subtree(parent, x) \ {x} <=> \E n \in 0..D : z \in Below(x, n)
    BY <1>3
  <2> QED
    BY <2>2, <2>3, Zenon
<1>8. ~HasSubtags(x) => Subtree(parent, x) = {x}
  <2> SUFFICES ASSUME ~HasSubtags(x), NEW y \in Subtree(parent, x), y # x PROVE FALSE
    BY <1>4
  <2>1. Kids(parent, x) = {}
    BY SubtagsKnown
  <2>2. \E z \in Path(parent, y) : parent[z] = x
    BY <1>1, KidOnPath DEF Subtree
  <2>3. Path(parent, y) \subseteq TagId
    BY <1>1, PathClosed DEF Subtree
  <2> QED
    BY <2>1, <2>2, <2>3 DEF Kids
<1>9. \A q : q \in GetTag(x) <=> \E z \in Subtree(parent, x) : q \in Rows({z})
  <2>1. \A q : q \in GetTag(x) <=> q \in Rows({x}) \/ (HasSubtags(x) /\ q \in GetTags(x))
    BY DEF GetTag
  <2> QED
    BY <1>4, <1>7, <1>8, <2>1
<1> QED
  BY <1>5, <1>6, <1>9

\* The tree read from any tag has each tag under it exactly once.
THEOREM TreeIsReadWhole == Spec => []TreeReadsWhole
<1>1. TreeInv /\ OnePrimaryName /\ ChildrenCntOK => TreeReadsWhole
  <2> SUFFICES ASSUME TreeInv, OnePrimaryName, ChildrenCntOK, NEW x \in tags
               PROVE  /\ {r[1] : r \in GetTag(x)} = Subtree(parent, x)
                      /\ Cardinality(GetTag(x)) = Cardinality(Subtree(parent, x))
    BY DEF TreeReadsWhole
  <2> DEFINE X == Subtree(parent, x)
  <2>1. GetTag(x) = Rows(X) /\ X \in SUBSET tags
    BY SubtreeIsRead
  <2>2. /\ \A r \in Rows(X) : r[1] \in X
        /\ \A y \in X : \E r \in Rows(X) : r[1] = y
        /\ Cardinality(Rows(X)) = Cardinality(X)
    <3> HIDE DEF X
    <3> QED
      BY <2>1, RowsFacts
  <2>3. {r[1] : r \in Rows(X)} = X
    <3> HIDE DEF X
    <3> QED
      BY <2>2
  <2> QED
    BY <2>1, <2>2, <2>3
<1> QED
  BY <1>1, TreeInvariance, PrimaryNames, ChildrenCount, PTL

-----------------------------------------------------------------------------
(* Paths: what is found after i names are the tags with these names on     *)
(* their own paths, and there is at most one, because no two tags under    *)
(* one parent share a name.                                                *)

\* The tags that one more name leads to.
NamedUnder(Y, n) == UNION {GetTagIDByName(y, n) : y \in Y}

LEMMA DescendFacts ==
  ASSUME NEW path \in Seq(Name)
  PROVE  /\ Descend(path)[0] = {Root}
         /\ \A i \in 1..Len(path) : Descend(path)[i] = NamedUnder(Descend(path)[i - 1], path[i])
<1> DEFINE S == SUBSET TagId
           D == Len(path)
           F == [n \in 1..D |-> [Y \in S |-> NamedUnder(Y, path[n])]]
           Is(f) == f = [i \in 0..D |-> IF i = 0 THEN {Root}
                                        ELSE IF path[i] = EmptyName THEN f[i - 1]
                                        ELSE NamedUnder(f[i - 1], path[i])]
<1>1. D \in Nat /\ \A n \in 1..D : path[n] \in Name
  BY ElementOfSeq
<1>2. \A Y, n : NamedUnder(Y, n) \in S
  BY DEF NamedUnder, GetTagIDByName, Kids
<1>3. {Root} \in S /\ F \in [1..D -> [S -> S]]
  BY <1>2, RootAssumption
<1>4. PICK f \in [0..D -> S] : TurnsBy(f, F, {Root}, D)
  <2> HIDE DEF S, F
  <2> QED
    BY <1>1, <1>3, TurnsByExist
<1>5. \A i \in 0..D : i # 0 => i \in 1..D /\ i - 1 \in 0..D /\ path[i] # EmptyName
  BY <1>1, NameAssumption
<1>6. Is(f)
  <2>1. \A n \in 0..D : n # 0 => F[n][f[n - 1]] = NamedUnder(f[n - 1], path[n])
    <3> TAKE n \in 0..D
    <3> HAVE n # 0
    <3>1. f[n - 1] \in S /\ n \in 1..D
      BY <1>4, <1>5
    <3> HIDE DEF S, D
    <3> QED
      BY <3>1
  <2> HIDE DEF F, S, D
  <2> QED
    BY <1>4, <1>5, <2>1 DEF TurnsBy
<1>7. Descend(path) = CHOOSE g : Is(g)
  BY DEF Descend, NamedUnder
<1>8. Is(Descend(path))
  <2> HIDE DEF Is
  <2> QED
    BY <1>6, <1>7
<1> QED
  <2> HIDE DEF D
  <2>1. 0 \in 0..D /\ \A i \in 1..D : i \in 0..D /\ i # 0
    BY <1>1
  <2>2. \A i \in 0..D : Descend(path)[i] = IF i = 0 THEN {Root}
                                        ELSE IF path[i] = EmptyName THEN Descend(path)[i - 1]
                                        ELSE NamedUnder(Descend(path)[i - 1], path[i])
    BY <1>8
  <2>3. Descend(path)[0] = {Root}
    BY <2>1, <2>2
  <2>4. \A i \in 1..D : Descend(path)[i] = NamedUnder(Descend(path)[i - 1], path[i])
    BY <1>5, <2>1, <2>2
  <2> QED
    BY <2>3, <2>4 DEF D

\* A tag is one deeper than its parent.
LEMMA DeeperByOne ==
  ASSUME TreeInv, NEW x \in tags, x # Root
  PROVE  /\ parent[x] \in tags
         /\ Path(parent, x) = {x} \cup Path(parent, parent[x])
         /\ Cardinality(Path(parent, x)) = Cardinality(Path(parent, parent[x])) + 1
<1>1. /\ tags \in SUBSET TagId /\ parent \in ParentMap /\ Rooted(parent, tags, Root)
  BY TreeFacts
<1>2. parent[x] \in tags
  BY <1>1, RootOnPath
<1>3. Path(parent, x) = {x} \cup Path(parent, parent[x])
  BY <1>1, PathCount
<1>4. Cardinality(Path(parent, x)) = Cardinality(Path(parent, parent[x])) + 1
  BY <1>1, PathCount
<1> QED
  BY <1>2, <1>3, <1>4

\* The sets of names of a tag's path, from the root.
LEMMA ItemsFacts ==
  ASSUME TreeInv, NEW x \in tags
  PROVE  LET k == Cardinality(Path(parent, x))
         IN  /\ k \in Nat \ {0} /\ PathItems(x) \in [1..k -> SUBSET AnyName]
             /\ PathItems(x) \in Seq(SUBSET AnyName) /\ Len(PathItems(x)) = k
             /\ PathItems(x)[k] = names[x]
             /\ (k = 1) <=> (x = Root)
             /\ x # Root =>
                  /\ parent[x] \in tags /\ k = Cardinality(Path(parent, parent[x])) + 1
                  /\ \A i \in 1..(k - 1) : PathItems(x)[i] = PathItems(parent[x])[i]
<1> DEFINE k == Cardinality(Path(parent, x))
           Is(z, y, i) == y \in Path(parent, z) /\ Cardinality(Path(parent, y)) = i
<1>1. /\ tags \in SUBSET TagId /\ parent \in ParentMap /\ Rooted(parent, tags, Root)
  BY TreeFacts
<1>2. \A z \in tags : /\ Cardinality(Path(parent, z)) \in Nat \ {0}
                      /\ z \in Path(parent, z) /\ Path(parent, z) \in SUBSET tags
  <2> TAKE z \in tags
  <2>1. Cardinality(Path(parent, z)) \in 1..Cardinality(TagId) /\ Cardinality(TagId) \in Nat
    BY <1>1, PathCount, Zenon
  <2> QED
    BY <1>1, <2>1, PathClosed, RootOnPath
<1>3. /\ x = Root => k = 1
      /\ x # Root => /\ parent[x] \in tags /\ k = Cardinality(Path(parent, parent[x])) + 1
                     /\ Path(parent, x) = {x} \cup Path(parent, parent[x])
  <2>1. ASSUME x = Root PROVE Cardinality(Path(parent, x)) = 1
    BY <1>1, <2>1, PathCount
  <2> QED
    BY <2>1, DeeperByOne
<1>4. \A z \in tags : \A i \in 1..Cardinality(Path(parent, z)) :
        \E y \in tags : /\ Is(z, y, i) /\ \A w : Is(z, w, i) => w = y
                        /\ PathItems(z)[i] = names[y]
  <2> TAKE z \in tags
  <2> TAKE i \in 1..Cardinality(Path(parent, z))
  <2>1. PICK y \in tags : Is(z, y, i) /\ \A w : Is(z, w, i) => w = y
    BY <1>1, <1>2, PathDepths DEF OneDeep
  <2>2. y = CHOOSE w \in Path(parent, z) : Cardinality(Path(parent, w)) = i
    BY <2>1
  <2> QED
    BY <2>1, <2>2 DEF PathItems
<1>5. names \in [TagId -> SUBSET AnyName]
  BY DEF TreeInv, TypeOK
<1>6. PathItems(x) \in [1..k -> SUBSET AnyName]
  <2>1. \A i \in 1..k : PathItems(x)[i] \in SUBSET AnyName
    BY <1>1, <1>4, <1>5
  <2>2. PathItems(x) = [i \in 1..k |-> PathItems(x)[i]]
    BY DEF PathItems
  <2> HIDE DEF k
  <2> QED
    BY <2>1, <2>2
<1>7. PathItems(x) \in Seq(SUBSET AnyName) /\ Len(PathItems(x)) = k
  <2>1. k \in Nat
    BY <1>2
  <2> HIDE DEF k
  <2> QED
    BY <1>6, <2>1, SeqDef
<1>8. PathItems(x)[k] = names[x]
  <2>1. k \in 1..k /\ Is(x, x, k)
    BY <1>2
  <2> HIDE DEF Is
  <2> QED
    BY <1>4, <2>1
<1>9. ASSUME x # Root
      PROVE  /\ k # 1 /\ \A i \in 1..(k - 1) : PathItems(x)[i] = PathItems(parent[x])[i]
  <2>1. k # 1
    BY <1>2, <1>3, <1>9
  <2>2. ASSUME NEW i \in 1..(k - 1) PROVE PathItems(x)[i] = PathItems(parent[x])[i]
    <3>1. i \in 1..k /\ i \in 1..Cardinality(Path(parent, parent[x])) /\ parent[x] \in tags
      BY <1>2, <1>3, <1>9
    <3>2. PICK y \in tags : Is(parent[x], y, i) /\ PathItems(parent[x])[i] = names[y]
      BY <1>4, <3>1
    <3>3. Is(x, y, i)
      BY <1>3, <1>9, <3>2
    <3>4. PICK w \in tags : (\A v : Is(x, v, i) => v = w) /\ PathItems(x)[i] = names[w]
      BY <1>4, <3>1
    <3> HIDE DEF Is
    <3> QED
      BY <3>2, <3>3, <3>4
  <2> QED
    BY <2>1, <2>2
<1> QED
  BY <1>2, <1>3, <1>6, <1>7, <1>8, <1>9

\* The first i names of a path lead to y: they are names of the tags from below
\* the root to y.
Leads(path, i, y) ==
  /\ Cardinality(Path(parent, y)) = i + 1
  /\ \A m \in 1..i : path[m] \in PathItems(y)[m + 1]

LEMMA LeadsFacts ==
  ASSUME TreeInv, NEW path \in Seq(Name), NEW x \in tags
  PROVE  /\ Leads(path, 0, x) <=> x = Root
         /\ \A i \in 1..Len(path) :
              Leads(path, i, x) <=> /\ x # Root /\ parent[x] \in tags
                                    /\ Leads(path, i - 1, parent[x]) /\ path[i] \in names[x]
         /\ path \in PathsTo(x) <=> Leads(path, Len(path), x)
<1> DEFINE k == Cardinality(Path(parent, x))
<1>1. /\ k \in Nat \ {0} /\ PathItems(x) \in [1..k -> SUBSET AnyName]
      /\ Len(PathItems(x)) = k /\ PathItems(x)[k] = names[x]
      /\ (k = 1) <=> (x = Root)
      /\ x # Root =>
           /\ parent[x] \in tags /\ k = Cardinality(Path(parent, parent[x])) + 1
           /\ \A i \in 1..(k - 1) : PathItems(x)[i] = PathItems(parent[x])[i]
  BY ItemsFacts
<1>2. \A i : Leads(path, i, x) <=> k = i + 1 /\ \A m \in 1..i : path[m] \in PathItems(x)[m + 1]
  BY DEF Leads
<1>3. \A i : Leads(path, i, parent[x]) <=>
        /\ Cardinality(Path(parent, parent[x])) = i + 1
        /\ \A m \in 1..i : path[m] \in PathItems(parent[x])[m + 1]
  BY DEF Leads
<1>4. Len(path) \in Nat /\ path \in [1..Len(path) -> Name] /\ DOMAIN path = 1..Len(path)
  BY LenProperties
<1>5. Leads(path, 0, x) <=> x = Root
  <2> HIDE DEF k
  <2>1. Leads(path, 0, x) <=> k = 0 + 1
    BY <1>2
  <2> QED
    BY <1>1, <2>1
<1>6. ASSUME NEW i \in 1..Len(path)
      PROVE  Leads(path, i, x) <=> /\ x # Root /\ parent[x] \in tags
                                   /\ Leads(path, i - 1, parent[x]) /\ path[i] \in names[x]
  <2>1. i \in Nat \ {0}
    BY <1>4
  <2>2. CASE x = Root
    <3> HIDE DEF k
    <3> QED
      BY <1>1, <1>2, <2>1, <2>2
  <2>3. CASE x # Root /\ k # i + 1
    <3>1. Cardinality(Path(parent, parent[x])) # (i - 1) + 1
      <4> HIDE DEF k
      <4> QED
        BY <1>1, <2>1, <2>3
    <3> HIDE DEF k
    <3> QED
      BY <1>2, <1>3, <2>3, <3>1
  <2>4. CASE x # Root /\ k = i + 1
    <3>1. Cardinality(Path(parent, parent[x])) = (i - 1) + 1 \/ Cardinality(Path(parent, parent[x])) \notin Int
      <4> HIDE DEF k
      <4> QED
        BY <1>1, <2>1, <2>4
    <3>2. Cardinality(Path(parent, parent[x])) \in Int
      BY <1>1, <2>4, ItemsFacts
    <3>3. \A m \in 1..(i - 1) : m + 1 \in 1..(k - 1)
      BY <2>1, <2>4
    <3>4. \A m \in 1..(i - 1) : PathItems(x)[m + 1] = PathItems(parent[x])[m + 1]
      BY <1>1, <2>4, <3>3
    <3>5. Leads(path, i - 1, parent[x]) <=> \A m \in 1..(i - 1) : path[m] \in PathItems(x)[m + 1]
      BY <1>3, <3>1, <3>2, <3>4
    <3>6. Leads(path, i, x) <=> \A m \in 1..i : path[m] \in PathItems(x)[m + 1]
      BY <1>2, <2>4
    <3>7. /\ i \in 1..i /\ PathItems(x)[i + 1] = names[x]
          /\ \A m \in 1..i : m \in 1..(i - 1) \/ m = i
          /\ \A m \in 1..(i - 1) : m \in 1..i
      BY <1>1, <2>1, <2>4
    <3> QED
      BY <1>1, <2>4, <3>5, <3>6, <3>7, Zenon
  <2> QED
    BY <2>2, <2>3, <2>4
<1>7. path \in PathsTo(x) <=> Leads(path, Len(path), x)
  <2> HIDE DEF k
  <2>1. path \in PathsTo(x) <=> path \in [1..(k - 1) -> Name] /\ \A m \in 1..(k - 1) : path[m] \in PathItems(x)[m + 1]
    BY <1>1 DEF PathsTo
  <2>2. path \in [1..(k - 1) -> Name] <=> k = Len(path) + 1
    <3>1. ASSUME path \in [1..(k - 1) -> Name] PROVE k = Len(path) + 1
      <4>1. 1..(k - 1) = 1..Len(path) /\ k - 1 \in Nat
        BY <1>1, <1>4, <3>1
      <4> QED
        BY <1>1, <1>4, <4>1
    <3> QED
      BY <1>1, <1>4, <3>1
  <2>3. k = Len(path) + 1 => k - 1 = Len(path)
    BY <1>4
  <2> QED
    BY <1>2, <2>1, <2>2, <2>3
<1> QED
  BY <1>5, <1>6, <1>7

\* A path leads to the tag whose names it has, and one path leads to one tag.
LEMMA DescendLeads ==
  ASSUME TreeInv, SiblingNamesDistinct, NEW path \in Seq(Name), NEW i \in 0..Len(path)
  PROVE  /\ Descend(path)[i] = {y \in tags : Leads(path, i, y)}
         /\ \A x, y \in Descend(path)[i] : x = y
<1> DEFINE Found(n) == {y \in tags : Leads(path, n, y)}
           S == {n \in 0..Len(path) : /\ Descend(path)[n] = Found(n)
                                      /\ \A x, y \in Found(n) : x = y}
<1>1. Len(path) \in Nat /\ Root \in tags
  BY LenProperties, TreeFacts DEF Rooted
<1>2. 0 \in S
  <2>1. Found(0) = {Root}
    BY <1>1, LeadsFacts
  <2>2. Descend(path)[0] = {Root} /\ 0 \in 0..Len(path)
    BY <1>1, DescendFacts
  <2> HIDE DEF Found
  <2> QED
    BY <2>1, <2>2
<1>3. ASSUME NEW n \in 1..Len(path), n - 1 \in S PROVE n \in S
  <2>1. Descend(path)[n] = NamedUnder(Found(n - 1), path[n])
    <3> HIDE DEF Found
    <3> QED
      BY <1>3, DescendFacts
  <2>2. \A y : y \in NamedUnder(Found(n - 1), path[n])
               <=> \E x \in Found(n - 1) : y \in Kids(parent, x) /\ path[n] \in names[y]
    <3> HIDE DEF Found
    <3> QED
      BY DEF NamedUnder, GetTagIDByName
  <2>3. \A y \in tags : Leads(path, n, y) <=> /\ y # Root /\ parent[y] \in tags
                                              /\ Leads(path, n - 1, parent[y]) /\ path[n] \in names[y]
    BY <1>3, LeadsFacts
  <2>4. \A x \in tags : \A y \in TagId : parent[y] = x => y \in tags /\ y # Root
    BY TreeFacts, TagIdAssumption DEF Rooted
  <2>5. tags \subseteq TagId
    BY TreeFacts
  <2>6. \A y : y \in NamedUnder(Found(n - 1), path[n]) <=> y \in Found(n)
    <3> TAKE y
    <3>1. ASSUME NEW x \in Found(n - 1), y \in Kids(parent, x), path[n] \in names[y]
          PROVE  y \in Found(n)
      BY <2>3, <2>4, <3>1 DEF Kids
    <3>2. ASSUME y \in Found(n)
          PROVE  \E x \in Found(n - 1) : y \in Kids(parent, x) /\ path[n] \in names[y]
      BY <2>3, <2>5, <3>2 DEF Kids
    <3> HIDE DEF Found
    <3> QED
      BY <2>2, <3>1, <3>2
  <2>7. \A x, y \in Found(n) : x = y
    <3> SUFFICES ASSUME NEW x \in Found(n), NEW y \in Found(n), x # y PROVE FALSE
      OBVIOUS
    <3>1. parent[x] \in Found(n - 1) /\ parent[y] \in Found(n - 1)
          /\ path[n] \in names[x] \cap names[y]
      BY <2>3
    <3>2. parent[x] = parent[y]
      <4> HIDE DEF Found
      <4> QED
        BY <1>3, <3>1
    <3> QED
      BY <3>1, <3>2 DEF SiblingNamesDistinct
  <2>8. Descend(path)[n] = Found(n)
    <3> HIDE DEF Found
    <3> QED
      BY <2>1, <2>6
  <2> HIDE DEF Found
  <2> QED
    BY <1>3, <1>1, <2>7, <2>8
<1>4. 0..Len(path) \subseteq S
  <2> HIDE DEF S
  <2> QED
    BY <1>1, <1>2, <1>3, NumbersStay
<1> QED
  BY <1>4

\* The first names of a path lead to what is found on the way of the whole path.
LEMMA DescendPrefix ==
  ASSUME TreeInv, SiblingNamesDistinct, NEW path \in Seq(Name), NEW k \in 0..Len(path)
  PROVE  /\ SubSeq(path, 1, k) \in Seq(Name) /\ Len(SubSeq(path, 1, k)) = k
         /\ \A x \in tags : Leads(SubSeq(path, 1, k), k, x) <=> Leads(path, k, x)
         /\ GetTagIDByPath(SubSeq(path, 1, k)) = Descend(path)[k]
<1> DEFINE s == SubSeq(path, 1, k)
<1>1. Len(path) \in Nat /\ k \in Nat /\ k <= Len(path) /\ \A i \in 1..Len(path) : path[i] \in Name
  BY LenProperties, ElementOfSeq
<1>2. s \in Seq(Name) /\ Len(s) = k /\ \A i \in 1..k : s[i] = path[i]
  <2>1. 1 \in Int /\ k \in Int /\ \A i \in 1..k : path[i] \in Name
    BY <1>1
  <2>2. /\ s \in Seq(Name) /\ Len(s) = IF 1 <= k THEN k - 1 + 1 ELSE 0
        /\ \A i \in 1..(k - 1 + 1) : s[i] = path[1 + i - 1]
    BY <2>1, SubSeqProperties
  <2>3. \A i \in 1..k : i \in 1..(k - 1 + 1) /\ 1 + i - 1 = i
    BY <1>1
  <2> HIDE DEF s
  <2> QED
    BY <1>1, <2>2, <2>3
<1>3. \A x \in tags : Leads(s, k, x) <=> Leads(path, k, x)
  <2> HIDE DEF s
  <2> QED
    BY <1>2 DEF Leads
<1>4. GetTagIDByPath(s) = Descend(path)[k]
  <2> HIDE DEF s
  <2>1. k \in 0..Len(s)
    BY <1>1, <1>2
  <2>2. Descend(s)[k] = {y \in tags : Leads(s, k, y)}
    BY <1>2, <2>1, DescendLeads
  <2>3. Descend(path)[k] = {y \in tags : Leads(path, k, y)}
    BY DescendLeads
  <2> QED
    BY <1>2, <1>3, <2>2, <2>3 DEF GetTagIDByPath
<1> QED
  BY <1>2, <1>3, <1>4

\* As many names of a path as lead to a tag.
LEMMA ExistingNamesFacts ==
  ASSUME TreeInv, SiblingNamesDistinct, NEW path \in Seq(Name), NEW k, k = ExistingNames(path)
  PROVE  /\ k \in 0..Len(path) /\ Descend(path)[k] # {}
         /\ \A j \in k+1..Len(path) : Descend(path)[j] = {}
<1> DEFINE L == Len(path)
           Exists(i) == /\ i > 0 => GetTagIDByPath(SubSeq(path, 1, i)) # {}
                        /\ \A j \in i+1..L : GetTagIDByPath(SubSeq(path, 1, j)) = {}
           Back == {m \in 0..L : Descend(path)[L - m] # {}}
<1>1. L \in Nat
  BY LenProperties
<1>2. \A i \in 0..L : GetTagIDByPath(SubSeq(path, 1, i)) = Descend(path)[i]
  BY DescendPrefix
<1>3. Descend(path)[0] # {}
  BY DescendFacts
<1>4. L \in Back /\ Back \in SUBSET Nat
  BY <1>1, <1>3
<1>5. PICK m \in Back : \A n \in Back : m <= n
  <2> HIDE DEF Back
  <2> QED
    BY <1>4, LeastNumber
<1>6. Exists(L - m) /\ L - m \in 0..L
  <2>1. m \in 0..L /\ Descend(path)[L - m] # {}
    BY <1>5
  <2>2. ASSUME NEW j \in (L - m)+1..L PROVE Descend(path)[j] = {}
    <3>1. L - j \in 0..L /\ L - (L - j) = j /\ ~(m <= L - j)
      BY <1>1, <2>1
    <3>2. L - j \notin Back
      BY <1>5, <3>1
    <3> QED
      BY <3>1, <3>2
  <2>3. /\ L - m \in 0..L
        /\ \A j \in (L - m)+1..L : j \in 0..L
    BY <1>1, <2>1
  <2> HIDE DEF L, Back
  <2> QED
    BY <1>2, <2>1, <2>2, <2>3
<1>7. k = CHOOSE i \in 0..L : Exists(i)
  BY DEF ExistingNames
<1>8. k \in 0..L /\ Exists(k)
  <2> HIDE DEF Exists, L
  <2> QED
    BY <1>6, <1>7
<1>9. \A j \in k+1..L : j \in 0..L
  BY <1>1, <1>8
<1> HIDE DEF L
<1>10. k \in 0..L /\ Descend(path)[k] # {}
  <2>1. k = 0 \/ k > 0
    BY <1>1, <1>8
  <2> QED
    BY <1>2, <1>3, <1>8, <2>1
<1>11. \A j \in k+1..L : Descend(path)[j] = {}
  BY <1>2, <1>8, <1>9
<1> QED
  BY <1>10, <1>11 DEF L

\* Every path that a tag is known by leads to that tag alone; of any path the part
\* that is there leads to one tag, under which the next name is free.
THEOREM PathsLeadToTags ==
  ASSUME "MoveOntoSameName" \notin Unusual
  PROVE  Spec => []PathsLead
<1>1. ASSUME TreeInv, SiblingNamesDistinct, NEW x \in tags, NEW path \in PathsTo(x)
      PROVE  GetTagIDByPath(path) = {x}
  <2>1. path \in Seq(Name)
    <3>1. PathItems(x) \in Seq(SUBSET AnyName) /\ Len(PathItems(x)) - 1 \in Nat
      BY <1>1, ItemsFacts
    <3>2. path \in [1..(Len(PathItems(x)) - 1) -> Name]
      BY <1>1 DEF PathsTo
    <3> QED
      BY <3>1, <3>2, SeqDef
  <2>2. Leads(path, Len(path), x)
    BY <1>1, <2>1, LeadsFacts
  <2>3. Len(path) \in 0..Len(path)
    BY <2>1, LenProperties
  <2>4. Descend(path)[Len(path)] = {y \in tags : Leads(path, Len(path), y)}
        /\ \A y, z \in Descend(path)[Len(path)] : y = z
    BY <1>1, <2>1, <2>3, DescendLeads
  <2>5. x \in Descend(path)[Len(path)]
    BY <2>2, <2>4
  <2> QED
    BY <2>4, <2>5 DEF GetTagIDByPath
<1>2. ASSUME TreeInv, SiblingNamesDistinct, NEW path \in NamePath,
             NEW d, d = NewTagDetails(path),
             NEW known, known = SubSeq(path, 1, Len(path) - Len(d.missing))
      PROVE  /\ \E x \in tags : d.parents = {x} /\ known \in PathsTo(x)
             /\ d.missing # <<>> =>
                  \A x \in d.parents : Head(d.missing) \notin NamesUnder(parent, names, x)
  <2> DEFINE k == ExistingNames(path)
             L == Len(path)
  <2>1. path \in Seq(Name)
    <3>1. PICK n \in 1..PathLength : path \in [1..n -> Name]
      BY <1>2 DEF NamePath
    <3>2. n \in Nat
      BY <3>1, PathLengthAssumption
    <3> QED
      BY <3>1, <3>2, SeqDef
  <2>2. L \in Nat /\ \A i \in 1..L : path[i] \in Name
    BY <2>1, LenProperties, ElementOfSeq
  <2>3. /\ k \in 0..L /\ Descend(path)[k] # {}
        /\ \A j \in k+1..L : Descend(path)[j] = {}
    BY <1>2, <2>1, ExistingNamesFacts
  <2>4. /\ d.parents = GetTagIDByPath(SubSeq(path, 1, k)) /\ d.missing = SubSeq(path, k + 1, L)
    BY <1>2 DEF NewTagDetails
  <2>5. d.parents = Descend(path)[k]
    BY <1>2, <2>1, <2>3, <2>4, DescendPrefix
  <2>6. Descend(path)[k] = {y \in tags : Leads(path, k, y)} /\ \A y, z \in Descend(path)[k] : y = z
    BY <1>2, <2>1, <2>3, DescendLeads
  <2>7. PICK x \in tags : d.parents = {x} /\ Leads(path, k, x)
    BY <2>3, <2>5, <2>6
  <2>8. /\ d.missing \in Seq(Name) /\ Len(d.missing) = L - k
        /\ k < L => Head(d.missing) = path[k + 1]
    <3> HIDE DEF k
    <3>1. \A i \in (k + 1)..L : path[i] \in Name
      BY <2>2, <2>3
    <3>2. k + 1 \in Int /\ L \in Int
      BY <2>2, <2>3
    <3>3. /\ SubSeq(path, k + 1, L) \in Seq(Name)
          /\ Len(SubSeq(path, k + 1, L)) = IF k + 1 <= L THEN L - (k + 1) + 1 ELSE 0
      <4> HIDE DEF L
      <4> QED
        BY <3>1, <3>2, SubSeqProperties
    <3>4. Len(SubSeq(path, k + 1, L)) = L - k
      BY <2>2, <2>3, <3>3
    <3>5. k < L => k + 1 \in 1..L /\ L \in (k + 1)..L
      BY <2>2, <2>3
    <3>6. k < L => Head(SubSeq(path, k + 1, L)) = path[k + 1]
      BY <2>1, <3>5, HeadTailOfSubSeq
    <3> QED
      BY <2>4, <3>3, <3>4, <3>6
  <2>9. known = SubSeq(path, 1, k)
    <3>1. L - (L - k) = k
      BY <2>2, <2>3
    <3> QED
      BY <1>2, <2>8, <3>1
  <2>10. known \in PathsTo(x)
    <3> HIDE DEF k
    <3>0. /\ SubSeq(path, 1, k) \in Seq(Name) /\ Len(SubSeq(path, 1, k)) = k
          /\ \A z \in tags : Leads(SubSeq(path, 1, k), k, z) <=> Leads(path, k, z)
      BY <1>2, <2>1, <2>3, DescendPrefix
    <3>1. known \in Seq(Name) /\ Len(known) = k /\ Leads(known, k, x)
      BY <2>7, <2>9, <3>0
    <3> QED
      BY <1>2, <3>1, LeadsFacts
  <2>11. ASSUME d.missing # <<>>, Head(d.missing) \in NamesUnder(parent, names, x) PROVE FALSE
    <3> HIDE DEF k
    <3>1. k < L
      <4>1. k = L => Len(d.missing) = 0
        BY <2>2, <2>8
      <4>2. Len(d.missing) # 0
        BY <2>8, <2>11, EmptySeq, SeqEqual
      <4> QED
        BY <2>2, <2>3, <4>1, <4>2
    <3>2. k + 1 \in 1..L /\ (k + 1) - 1 = k /\ k + 1 \in k+1..L
      BY <2>2, <2>3, <3>1
    <3>3. Head(d.missing) = path[k + 1]
      BY <2>8, <3>1
    <3>4. PICK y \in Kids(parent, x) : path[k + 1] \in names[y]
      BY <2>11, <3>3 DEF NamesUnder
    <3>5. y \in NamedUnder(Descend(path)[k], path[k + 1])
      BY <2>5, <2>7, <3>4 DEF NamedUnder, GetTagIDByName
    <3>6. Descend(path)[k + 1] = NamedUnder(Descend(path)[k], path[k + 1])
      BY <2>1, <3>2, DescendFacts
    <3> QED
      BY <2>3, <3>2, <3>5, <3>6
  <2> QED
    BY <2>7, <2>10, <2>11
<1>3. TreeInv /\ SiblingNamesDistinct => PathsLead
  BY <1>1, <1>2 DEF PathsLead
<1> QED
  BY <1>3, TreeInvariance, DistinctNames, PTL

-----------------------------------------------------------------------------
(* Patterns: the matcher takes the last position where a part matches, and *)
(* whatever fits in front of an earlier one fits in front of the last.     *)

\* The states of the matcher on the paths of the tags of X.
MatchState(X) == [fidx : [X -> Nat \ {0}], results : SUBSET SUBSET X]

\* Paths that the matcher gets: no one is empty.
ArePaths(items, X) ==
  DOMAIN items = X /\ \A x \in X : Len(items[x]) \in Nat \ {0}

\* A tag that no part has ruled out.
InAll(x, m) == \A r \in m.results : x \in r

\* A part that matches at all matches somewhere last.
LEMMA LastHit ==
  ASSUME NEW part, NEW it, NEW f \in Nat, NEW H, H = Hits(part, it, f), H # {},
         NEW last, last = CHOOSE i \in H : \A j \in H : j <= i
  PROVE  last \in H /\ last \in Nat \ {0} /\ \A j \in H : j <= last
<1>1. \A j \in H : j \in Nat \ {0} /\ j < f
  BY DEF Hits
<1> DEFINE Rest == {f - j : j \in H}
<1>2. Rest \in SUBSET Nat /\ Rest # {}
  BY <1>1
<1>3. PICK r \in Rest : \A q \in Rest : r <= q
  <2> HIDE DEF Rest
  <2> QED
    BY <1>2, LeastNumber
<1>4. PICK i \in H : r = f - i
  BY <1>3
<1>5. \A j \in H : j <= i
  <2> TAKE j \in H
  <2>1. f - i <= f - j
    BY <1>3, <1>4
  <2> QED
    BY <1>1, <2>1
<1>6. last \in H /\ \A j \in H : j <= last
  BY <1>5
<1> QED
  BY <1>1, <1>6

\* What one part does to the state.
LEMMA MatchPartFacts ==
  ASSUME NEW X, NEW items, ArePaths(items, X), NEW part, NEW m \in MatchState(X),
         NEW d, d = MatchPart(items, part, m)
  PROVE  /\ d \in MatchState(X)
         /\ \A x \in X :
              LET H == Hits(part, items[x], m.fidx[x])
              IN  /\ InAll(x, d) <=> InAll(x, m) /\ H # {}
                  /\ InAll(x, d) => d.fidx[x] \in H /\ \A j \in H : j <= d.fidx[x]
<1> DEFINE hits == [x \in X |-> Hits(part, items[x], m.fidx[x])]
           res == {x \in X : hits[x] # {}}
           last(x) == CHOOSE i \in hits[x] : \A j \in hits[x] : j <= i
           fidx == [x \in X |-> IF x \in res THEN last(x) ELSE m.fidx[x]]
           results == IF res = {} THEN {{}} ELSE m.results \cup {res}
<1>1. m.fidx \in [X -> Nat \ {0}] /\ m.results \in SUBSET SUBSET X
  BY DEF MatchState
<1>2. d = IF {} \in m.results THEN m ELSE [fidx |-> fidx, results |-> results]
  BY DEF MatchPart, ArePaths, Leftmost
<1>3. ASSUME NEW x \in X, hits[x] # {}
      PROVE  last(x) \in hits[x] /\ last(x) \in Nat \ {0} /\ \A j \in hits[x] : j <= last(x)
  <2>1. hits[x] = Hits(part, items[x], m.fidx[x]) /\ m.fidx[x] \in Nat
    BY <1>1
  <2> HIDE DEF hits
  <2> QED
    BY <1>3, <2>1, LastHit
<1>4. fidx \in [X -> Nat \ {0}]
  <2> SUFFICES ASSUME NEW x \in X PROVE (IF x \in res THEN last(x) ELSE m.fidx[x]) \in Nat \ {0}
    BY Zenon
  <2>1. x \in res => last(x) \in Nat \ {0}
    <3> HIDE DEF hits, last
    <3> QED
      BY <1>3
  <2> HIDE DEF res, last
  <2> QED
    BY <1>1, <2>1
<1>5. results \in SUBSET SUBSET X
  <2>1. res \in SUBSET X
    OBVIOUS
  <2> HIDE DEF res
  <2> QED
    BY <1>1, <2>1
<1>6. d \in MatchState(X)
  <2> HIDE DEF fidx, results
  <2> QED
    BY <1>2, <1>4, <1>5 DEF MatchState
<1>7. ASSUME NEW x \in X
      PROVE  /\ InAll(x, d) <=> InAll(x, m) /\ hits[x] # {}
             /\ InAll(x, d) => d.fidx[x] \in hits[x] /\ \A j \in hits[x] : j <= d.fidx[x]
  <2>1. CASE {} \in m.results
    <3>1. d = m /\ ~InAll(x, m)
      BY <1>2, <2>1 DEF InAll
    <3> HIDE DEF hits
    <3> QED
      BY <3>1
  <2>2. CASE {} \notin m.results
    <3> HIDE DEF hits
    <3>1. d.fidx = fidx /\ d.results = results
      <4> HIDE DEF fidx, results
      <4> QED
        BY <1>2, <2>2
    <3>2. x \in res <=> hits[x] # {}
      OBVIOUS
    <3>3. InAll(x, d) <=> InAll(x, m) /\ x \in res
      <4> HIDE DEF res
      <4>1. CASE res = {}
        BY <3>1, <4>1 DEF InAll
      <4>2. CASE res # {}
        BY <3>1, <4>2 DEF InAll
      <4> QED
        BY <4>1, <4>2
    <3>4. x \in res => d.fidx[x] = last(x)
      <4> HIDE DEF res, last
      <4> QED
        BY <3>1
    <3> HIDE DEF res, last, fidx, results
    <3>5. hits[x] # {} => last(x) \in hits[x] /\ \A j \in hits[x] : j <= last(x)
      BY <1>3
    <3> QED
      BY <3>2, <3>3, <3>4, <3>5
  <2> QED
    BY <2>1, <2>2
<1>8. \A x \in X : hits[x] = Hits(part, items[x], m.fidx[x])
  OBVIOUS
<1> HIDE DEF hits, last, fidx, results, res
<1> QED
  BY <1>6, <1>7, <1>8

\* The states of the matcher, for a whole word.
LEMMA MatchPartsFacts ==
  ASSUME NEW X, NEW items, ArePaths(items, X), NEW word, Len(word) \in Nat,
         NEW M, M = MatchParts(items, word)
  PROVE  /\ M[0].results = {} /\ \A x \in X : M[0].fidx[x] = Len(items[x]) + 1
         /\ \A n \in 0..Len(word) : M[n] \in MatchState(X)
         /\ \A n \in 1..Len(word) : M[n] = MatchPart(items, word[Len(word) + 1 - n], M[n - 1])
<1> DEFINE D == Len(word)
           S == MatchState(X)
           s == [fidx |-> [x \in X |-> Len(items[x]) + 1], results |-> {}]
           F == [n \in 1..D |-> [m \in S |-> MatchPart(items, word[D + 1 - n], m)]]
           Is(f) == f = [n \in 0..D |-> IF n = 0 THEN s
                                        ELSE MatchPart(items, word[D + 1 - n], f[n - 1])]
<1>1. s \in S
  <2>1. \A x \in X : Len(items[x]) + 1 \in Nat \ {0}
    BY DEF ArePaths
  <2> QED
    BY <2>1 DEF MatchState
<1>2. F \in [1..D -> [S -> S]]
  <2> HIDE DEF S
  <2>1. \A n \in 1..D : \A m \in S : MatchPart(items, word[D + 1 - n], m) \in S
    BY MatchPartFacts DEF S
  <2> QED
    BY <2>1
<1>3. PICK f \in [0..D -> S] : TurnsBy(f, F, s, D)
  <2> HIDE DEF S, F, s
  <2> QED
    BY <1>1, <1>2, TurnsByExist
<1>4. \A n \in 0..D : n # 0 => n \in 1..D /\ n - 1 \in 0..D
  OBVIOUS
<1>5. Is(f)
  <2>1. \A n \in 0..D : n # 0 => F[n][f[n - 1]] = MatchPart(items, word[D + 1 - n], f[n - 1])
    <3> TAKE n \in 0..D
    <3> HAVE n # 0
    <3>1. f[n - 1] \in S /\ n \in 1..D
      BY <1>3, <1>4
    <3> HIDE DEF S
    <3> QED
      BY <3>1
  <2> HIDE DEF F, S, s
  <2> QED
    BY <1>3, <2>1 DEF TurnsBy
<1>6. M = CHOOSE g : Is(g)
  BY DEF MatchParts, ArePaths
<1>7. Is(M)
  <2> HIDE DEF Is
  <2> QED
    BY <1>5, <1>6
<1>8. \A n \in 0..D : M[n] = IF n = 0 THEN s ELSE MatchPart(items, word[D + 1 - n], M[n - 1])
  <2> HIDE DEF s
  <2> QED
    BY <1>7
<1>9. /\ M[0] = s
      /\ \A n \in 1..D : M[n] = MatchPart(items, word[D + 1 - n], M[n - 1])
  <2>1. 0 \in 0..D /\ \A n \in 1..D : n \in 0..D /\ n # 0
    OBVIOUS
  <2> HIDE DEF s
  <2> QED
    BY <1>8, <2>1
<1>10. \A n \in 0..D : M[n] \in S
  <2>1. 0 \in 0..D /\ M[0] \in S
    BY <1>1, <1>9
  <2>2. \A n \in (0 + 1)..D : M[n - 1] \in S => M[n] \in S
    <3> SUFFICES ASSUME NEW n \in 1..D, M[n - 1] \in S PROVE M[n] \in S
      OBVIOUS
    <3> QED
      BY <1>9, MatchPartFacts
  <2> HIDE DEF S
  <2> QED
    BY <2>1, <2>2, StatesStay
<1>11. M[0].results = {} /\ \A x \in X : M[0].fidx[x] = Len(items[x]) + 1
  BY <1>9
<1> QED
  BY <1>9, <1>10, <1>11

\* The last n parts of a word match different tags of a path, in order, from its
\* position f on.
LastFit(word, it, n, f, at) ==
  \A i \in 1..Len(word) : i > Len(word) - n =>
    /\ at[i] >= f
    /\ \E nm \in it[at[i]] : Matches(word[i], nm)
    /\ \A j \in 1..Len(word) : i < j => at[i] < at[j]

CanFit(word, it, n, f) ==
  \E at \in [1..Len(word) -> 1..Len(it)] : LastFit(word, it, n, f, at)

\* They do if the first of them matches somewhere and the others behind it.
LEMMA FitStep ==
  ASSUME NEW word, Len(word) \in Nat, NEW it, Len(it) \in Nat, NEW n \in 1..Len(word),
         NEW f \in Nat
  PROVE  CanFit(word, it, n, f) <=>
           \E i \in 1..Len(it) : /\ i >= f /\ \E nm \in it[i] : Matches(word[Len(word) + 1 - n], nm)
                                 /\ CanFit(word, it, n - 1, i + 1)
<1> DEFINE D == Len(word)
           L == Len(it)
           k == D + 1 - n
           Hit(i, p) == \E nm \in it[p] : Matches(word[i], nm)
<1>1. D \in Nat /\ L \in Nat /\ n \in Nat \ {0} /\ k \in 1..D
  OBVIOUS
<1>2. \A i \in 1..D : /\ i > D - n <=> i >= k
                      /\ i > D - (n - 1) <=> i > k
  BY <1>1
<1>3. \A at, g : LastFit(word, it, n, g, at) <=>
        \A i \in 1..D : i >= k => /\ at[i] >= g /\ Hit(i, at[i])
                                  /\ \A j \in 1..D : i < j => at[i] < at[j]
  BY <1>2 DEF LastFit
<1>4. \A at, g : LastFit(word, it, n - 1, g, at) <=>
        \A i \in 1..D : i > k => /\ at[i] >= g /\ Hit(i, at[i])
                                 /\ \A j \in 1..D : i < j => at[i] < at[j]
  BY <1>2 DEF LastFit
<1> HIDE DEF Hit, k, D, L
<1>5. ASSUME NEW at \in [1..D -> 1..L], LastFit(word, it, n, f, at)
      PROVE  /\ at[k] \in 1..L /\ at[k] >= f /\ Hit(k, at[k])
             /\ LastFit(word, it, n - 1, at[k] + 1, at)
  <2>1. at[k] \in 1..L /\ at[k] >= f /\ Hit(k, at[k]) /\ \A j \in 1..D : k < j => at[k] < at[j]
    <3>1. k >= k
      BY <1>1
    <3>2. /\ at[k] >= f /\ Hit(k, at[k])
          /\ \A j \in 1..D : k < j => at[k] < at[j]
      BY <1>1, <1>3, <1>5, <3>1
    <3> QED
      BY <1>1, <3>2
  <2>2. ASSUME NEW i \in 1..D, i > k
        PROVE  /\ at[i] >= at[k] + 1 /\ Hit(i, at[i])
               /\ \A j \in 1..D : i < j => at[i] < at[j]
    <3>1. at[i] \in 1..L /\ at[k] < at[i] /\ i >= k
      BY <1>1, <2>1, <2>2
    <3>2. at[i] >= at[k] + 1
      BY <1>1, <2>1, <3>1
    <3>3. Hit(i, at[i]) /\ \A j \in 1..D : i < j => at[i] < at[j]
      BY <1>3, <1>5, <3>1
    <3> QED
      BY <3>2, <3>3
  <2> QED
    BY <1>4, <2>1, <2>2
<1>6. ASSUME NEW p \in 1..L, p >= f, Hit(k, p),
             NEW at \in [1..D -> 1..L], LastFit(word, it, n - 1, p + 1, at)
      PROVE  CanFit(word, it, n, f)
  <2> DEFINE b == [at EXCEPT ![k] = p]
  <2>1. b \in [1..D -> 1..L] /\ b[k] = p /\ \A i \in 1..D : i # k => b[i] = at[i]
    BY <1>1
  <2> HIDE DEF b
  <2>2. \A i \in 1..D : i > k => /\ at[i] >= p + 1 /\ Hit(i, at[i])
                                 /\ \A j \in 1..D : i < j => at[i] < at[j]
    BY <1>4, <1>6
  <2>3. \A i \in 1..D : i \in Int /\ at[i] \in Int
    BY <1>1
  <2>4. ASSUME NEW i \in 1..D, i >= k
        PROVE  b[i] >= f /\ Hit(i, b[i]) /\ \A j \in 1..D : i < j => b[i] < b[j]
    <3>1. CASE i = k
      <4>1. \A j \in 1..D : k < j => j # k /\ b[j] = at[j] /\ p < at[j]
        BY <1>1, <2>1, <2>2, <2>3
      <4> QED
        BY <1>6, <2>1, <3>1, <4>1
    <3>2. CASE i # k
      <4>1. i > k /\ b[i] = at[i]
        BY <1>1, <2>1, <2>3, <2>4, <3>2
      <4>2. b[i] >= f
        BY <1>1, <1>6, <2>2, <2>3, <4>1
      <4>3. \A j \in 1..D : i < j => b[j] = at[j]
        BY <1>1, <2>1, <2>3, <4>1
      <4> QED
        BY <2>2, <4>1, <4>2, <4>3
    <3> QED
      BY <3>1, <3>2
  <2>5. LastFit(word, it, n, f, b)
    BY <1>3, <2>4
  <2> QED
    BY <2>1, <2>5 DEF CanFit, D, L
<1>7. CanFit(word, it, n, f) <=> \E at \in [1..D -> 1..L] : LastFit(word, it, n, f, at)
  BY DEF CanFit, D, L
<1>8. \A g : CanFit(word, it, n - 1, g) <=> \E at \in [1..D -> 1..L] : LastFit(word, it, n - 1, g, at)
  BY DEF CanFit, D, L
<1>9. CanFit(word, it, n, f) <=> \E p \in 1..L : p >= f /\ Hit(k, p) /\ CanFit(word, it, n - 1, p + 1)
  BY <1>5, <1>6, <1>7, <1>8
<1> QED
  BY <1>9 DEF D, L, k, Hit

\* What the matcher knows of a tag after n parts: the last n fit from a position on
\* if and only if none of them ruled it out and the position is not behind fidx.
LEMMA MatcherInvariant ==
  ASSUME NEW X, NEW items, ArePaths(items, X), NEW word, Len(word) \in Nat,
         NEW M, M = MatchParts(items, word), NEW x \in X
  PROVE  \A n \in 0..Len(word) : \A f \in 1..(Len(items[x]) + 1) :
           CanFit(word, items[x], n, f) <=> InAll(x, M[n]) /\ f <= M[n].fidx[x]
<1> DEFINE D == Len(word)
           L == Len(items[x])
           Known(n) == \A f \in 1..(L + 1) :
                         CanFit(word, items[x], n, f) <=> InAll(x, M[n]) /\ f <= M[n].fidx[x]
           S == {n \in 0..D : Known(n)}
<1>1. L \in Nat \ {0} /\ D \in Nat
  BY DEF ArePaths
<1>2. /\ M[0].results = {} /\ \A y \in X : M[0].fidx[y] = Len(items[y]) + 1
      /\ \A n \in 0..D : M[n] \in MatchState(X)
      /\ \A n \in 1..D : M[n] = MatchPart(items, word[D + 1 - n], M[n - 1])
  <2> HIDE DEF L, Known, S
  <2>1. M[0].results = {} /\ \A y \in X : M[0].fidx[y] = Len(items[y]) + 1
    BY MatchPartsFacts
  <2>2. \A n \in 0..D : M[n] \in MatchState(X)
    BY MatchPartsFacts
  <2>3. \A n \in 1..D : M[n] = MatchPart(items, word[D + 1 - n], M[n - 1])
    BY MatchPartsFacts
  <2> QED
    BY <2>1, <2>2, <2>3
<1>2a. \A part, it, f : f \in Nat => \A j \in Hits(part, it, f) : j < f
  BY DEF Hits
<1>2b. \A q \in 0..D : InAll(x, M[q]) => M[q].fidx[x] <= L + 1
  <2> DEFINE B == {q \in 0..D : InAll(x, M[q]) => M[q].fidx[x] <= L + 1}
  <2>1. 0 \in B
    <3>1. M[0].fidx[x] = L + 1
      BY <1>2
    <3> QED
      BY <1>1, <3>1
  <2>2. ASSUME NEW q \in 1..D, q - 1 \in B PROVE q \in B
    <3> DEFINE m == M[q - 1]
               d == M[q]
               part == word[D + 1 - q]
    <3>1. q \in 0..D /\ q - 1 \in 0..D
      BY <1>1
    <3>2. m \in MatchState(X) /\ d = MatchPart(items, part, m)
          /\ m.fidx[x] \in Nat /\ d.fidx[x] \in Nat
      BY <1>2, <3>1 DEF MatchState
    <3>3. InAll(x, m) => m.fidx[x] <= L + 1
      BY <2>2
    <3> HIDE DEF m, d, part, D, L
    <3>4. InAll(x, d) => InAll(x, m) /\ d.fidx[x] \in Hits(part, items[x], m.fidx[x])
      BY <3>2, MatchPartFacts
    <3>5. InAll(x, d) => d.fidx[x] < m.fidx[x]
      BY <1>2a, <3>2, <3>4
    <3>6. InAll(x, d) => d.fidx[x] <= L + 1
      BY <1>1, <3>2, <3>3, <3>4, <3>5
    <3> QED
      BY <3>1, <3>6 DEF d
  <2>3. 0..D \subseteq B
    <3> HIDE DEF B, D
    <3> QED
      BY <1>1, <2>1, <2>2, NumbersStay
  <2> QED
    BY <2>3
<1>3. 0 \in S
  <2>1. InAll(x, M[0]) /\ M[0].fidx[x] = L + 1
    BY <1>2 DEF InAll
  <2>2. \A f \in 1..(L + 1) : f <= L + 1
    BY <1>1
  <2>3. \A f : CanFit(word, items[x], 0, f)
    <3> TAKE f
    <3> DEFINE at == [i \in 1..D |-> 1]
    <3>1. at \in [1..D -> 1..L]
      BY <1>1
    <3>2. \A i \in 1..D : ~(i > D - 0)
      BY <1>1
    <3>3. LastFit(word, items[x], 0, f, at)
      BY <3>2 DEF LastFit
    <3> HIDE DEF at
    <3> QED
      BY <3>1, <3>3 DEF CanFit
  <2> QED
    BY <1>1, <2>1, <2>2, <2>3
<1>4. ASSUME NEW n \in 1..D, n - 1 \in S PROVE n \in S
  <2> DEFINE part == word[D + 1 - n]
             m == M[n - 1]
             d == M[n]
             H == Hits(part, items[x], m.fidx[x])
  <2>1. n \in 0..D /\ n - 1 \in 0..D /\ n \in 1..Len(word)
    BY <1>1
  <2>2. m \in MatchState(X) /\ d = MatchPart(items, part, m) /\ m.fidx[x] \in Nat
    BY <1>2, <2>1 DEF MatchState
  <2>3. /\ InAll(x, d) <=> InAll(x, m) /\ H # {}
        /\ InAll(x, d) => d.fidx[x] \in H /\ \A j \in H : j <= d.fidx[x]
    <3> HIDE DEF part, m, d, D
    <3> QED
      BY <2>2, MatchPartFacts
  <2>4. Known(n - 1)
    BY <1>4
  <2>5. H = {i \in 1..(m.fidx[x] - 1) : \E nm \in items[x][i] : Matches(part, nm)}
    BY DEF Hits
  <2>6. InAll(x, m) => m.fidx[x] <= L + 1
    BY <1>2b, <2>1
  <2>7. ASSUME NEW f \in 1..(L + 1)
        PROVE  CanFit(word, items[x], n, f) <=> InAll(x, d) /\ f <= d.fidx[x]
    <3>1. f \in Nat /\ \A i \in 1..L : i + 1 \in 1..(L + 1)
      BY <1>1
    <3>2. CanFit(word, items[x], n, f) <=>
            \E i \in 1..L : /\ i >= f /\ \E nm \in items[x][i] : Matches(part, nm)
                            /\ CanFit(word, items[x], n - 1, i + 1)
      BY <1>1, <2>1, <3>1, FitStep
    <3>3. \A i \in 1..L : CanFit(word, items[x], n - 1, i + 1)
                          <=> InAll(x, m) /\ i + 1 <= m.fidx[x]
      BY <2>4, <3>1
    <3> HIDE DEF H, part, m, d, Known, S
    <3>4. CanFit(word, items[x], n, f) <=>
            \E i \in 1..L : /\ i >= f /\ \E nm \in items[x][i] : Matches(part, nm)
                            /\ InAll(x, m) /\ i + 1 <= m.fidx[x]
      BY <3>2, <3>3
    <3>5. InAll(x, m) => \A i : /\ i \in H => i \in 1..L /\ i + 1 <= m.fidx[x]
                                              /\ \E nm \in items[x][i] : Matches(part, nm)
                                /\ (i \in 1..L /\ i + 1 <= m.fidx[x]
                                    /\ \E nm \in items[x][i] : Matches(part, nm)) => i \in H
      <4> SUFFICES ASSUME InAll(x, m), NEW i
                   PROVE  i \in 1..(m.fidx[x] - 1) <=> i \in 1..L /\ i + 1 <= m.fidx[x]
        BY <2>5
      <4>1. m.fidx[x] <= L + 1
        BY <2>6
      <4> QED
        BY <1>1, <2>2, <4>1, SMTT(30)
    <3>6. CanFit(word, items[x], n, f) <=> InAll(x, m) /\ \E i \in H : i >= f
      BY <3>4, <3>5
    <3>7. InAll(x, m) /\ (\E i \in H : i >= f) <=> InAll(x, d) /\ f <= d.fidx[x]
      <4>1. \A i \in H : i \in Nat
        BY <2>5
      <4> QED
        BY <2>3, <3>1, <4>1
    <3> QED
      BY <3>6, <3>7
  <2> QED
    BY <2>1, <2>7
<1>5. 0..D \subseteq S
  <2> HIDE DEF S, D
  <2> QED
    BY <1>1, <1>3, <1>4, NumbersStay
<1> QED
  BY <1>5

\* A tag is in all results of a word if its path fits the word.
LEMMA MatcherFits ==
  ASSUME NEW X, NEW items, ArePaths(items, X), NEW word, Len(word) \in Nat, NEW x \in X
  PROVE  InAll(x, MatchParts(items, word)[Len(word)]) <=> Fits(word, items[x])
<1> DEFINE D == Len(word)
           M == MatchParts(items, word)
<1>1. D \in 0..D /\ 1 \in 1..(Len(items[x]) + 1) /\ Len(items[x]) \in Nat \ {0}
  BY DEF ArePaths
<1>2. CanFit(word, items[x], D, 1) <=> InAll(x, M[D]) /\ 1 <= M[D].fidx[x]
  <2> HIDE DEF M
  <2> QED
    BY <1>1, MatcherInvariant DEF M
<1>3. M[D].fidx[x] \in Nat \ {0}
  <2> HIDE DEF M
  <2>1. M[D] \in MatchState(X)
    BY <1>1, MatchPartsFacts DEF M
  <2> QED
    BY <2>1 DEF MatchState
<1>4. CanFit(word, items[x], D, 1) <=> Fits(word, items[x])
  <2> SUFFICES ASSUME NEW at \in [1..D -> 1..Len(items[x])]
               PROVE  LastFit(word, items[x], D, 1, at) <=>
                        /\ \A i \in 1..D : \E n \in items[x][at[i]] : Matches(word[i], n)
                        /\ \A i, j \in 1..D : i < j => at[i] < at[j]
    BY DEF CanFit, Fits
  <2>1. \A i \in 1..D : i > D - D /\ at[i] >= 1
    BY <1>1
  <2> QED
    BY <2>1 DEF LastFit
<1> HIDE DEF M
<1>5. 1 <= M[D].fidx[x]
  BY <1>3
<1> QED
  BY <1>2, <1>4, <1>5 DEF M

\* The matcher, which never goes back, finds the tags whose paths fit all words.
THEOREM MatcherFinds == Spec => []MatcherFindsAll
<1>1. ASSUME TreeInv, OnePrimaryName, ChildrenCntOK,
             NEW items, items = [x \in {r[1] : r \in GetTag(Root)} |-> PathItems(x)],
             NEW words \in Words
      PROVE  FilterTags(items, words) = {x \in tags : \A w \in words : Fits(w, items[x])}
  <2>1. /\ tags \in SUBSET TagId /\ Root \in tags /\ parent \in ParentMap /\ Rooted(parent, tags, Root)
    BY <1>1, TreeFacts DEF Rooted
  <2>2. {r[1] : r \in GetTag(Root)} = tags
    <3>1. \A x \in tags : Root \in Path(parent, x)
      BY <2>1, RootOnPath
    <3>2. Subtree(parent, Root) = tags
      BY <1>1, <2>1, <3>1, SubtreeIsRead DEF Subtree
    <3>3. GetTag(Root) = Rows(tags)
      BY <1>1, <2>1, <3>2, SubtreeIsRead
    <3>4. /\ \A r \in Rows(tags) : r[1] \in tags
          /\ \A y \in tags : \E r \in Rows(tags) : r[1] = y
      BY <1>1, RowsFacts
    <3> QED
      BY <3>3, <3>4
  <2>3. ArePaths(items, tags)
    <3>1. \A x \in tags : Len(PathItems(x)) \in Nat \ {0}
      BY <1>1, ItemsFacts
    <3>2. DOMAIN items = tags /\ \A x \in tags : items[x] = PathItems(x)
      BY <1>1, <2>2
    <3> QED
      BY <3>1, <3>2 DEF ArePaths
  <2>4. \A w \in words : Len(w) \in Nat
    <3>1. \A w \in [1..1 -> Part] \cup [1..2 -> Part] : w \in Seq(Part)
      BY SeqDef
    <3>2. \A w \in words : w \in [1..1 -> Part] \cup [1..2 -> Part]
      BY DEF Words
    <3> QED
      BY <3>1, <3>2, LenProperties
  <2>5. \A w \in words : \A x \in tags :
          InAll(x, MatchParts(items, w)[Len(w)]) <=> Fits(w, items[x])
    BY <2>3, <2>4, MatcherFits
  <2>6. \A x : x \in FilterTags(items, words) <=>
          x \in tags /\ \A w \in words : InAll(x, MatchParts(items, w)[Len(w)])
    BY <2>3 DEF FilterTags, InAll, ArePaths
  <2> QED
    BY <2>5, <2>6
<1>2. TreeInv /\ OnePrimaryName /\ ChildrenCntOK => MatcherFindsAll
  BY <1>1 DEF MatcherFindsAll
<1> QED
  BY <1>2, TreeInvariance, PrimaryNames, ChildrenCount, PTL
=============================================================================
