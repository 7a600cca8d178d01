------------------------------ MODULE TagHier ------------------------------
(***************************************************************************)
(* taghier.go: the in-memory hierarchy of the tags of one bookmark.  A     *)
(* TagHier is filled with Add, which fetches a tag's parent from a         *)
(* registry (the database) and adds the parent as well, and may then see   *)
(* one Move, after which its tags are read with GetAll and it is dropped   *)
(* (UpdateTag, SetTaggings, GetTaggings, parseTagBrief).                   *)
(*                                                                         *)
(* The loops and the recursion of the code are kept, call by call, to show *)
(* that the definitions of TagTree, which have none, compute the same.     *)
(* Names say "Hier" where other modules have the same word, so that this   *)
(* one can be extended together with them.                                 *)
(***************************************************************************)
EXTENDS TagTree, Sequences

VARIABLES
  registry,  \* Registry.GetParent
  hier,      \* the TagHier
  asked,     \* the ids Add was called with
  moveDone,  \* Move was not called, was to another parent, to the same one
  nilItem    \* whether it hit a nil item and panicked

hierVars == <<registry, hier, asked, moveDone, nilItem>>

Hier ==
  [ids         : SUBSET TagId,                    \* the keys of idToItem
   parentID    : ParentMap,
   childrenIDs : [TagId -> SUBSET TagId],
   leafs       : SUBSET TagId,
   roots       : SUBSET TagId]

EmptyHier ==
  [ids |-> {}, parentID |-> [x \in TagId |-> NoTag], childrenIDs |-> [x \in TagId |-> {}],
   leafs |-> {}, roots |-> {}]

HierTypeOK ==
  /\ registry \in ParentMap
  /\ hier \in Hier
  /\ nilItem \/ (hier.leafs \subseteq hier.ids /\ hier.roots \subseteq hier.ids)
  /\ asked \subseteq TagId
  /\ moveDone \in {"no", "elsewhere", "same"}
  /\ nilItem \in BOOLEAN

HierInit ==
  /\ registry \in {p \in ParentMap : Rooted(p, TagId, Root)}
  /\ hier = EmptyHier
  /\ asked = {}
  /\ moveDone = "no"
  /\ nilItem = FALSE

\* Each call of a recursion, and each turn of a loop, is about a tag of its own, and
\* the last one about none: there are no more than this.
Depth == Cardinality(TagId) + 1

-----------------------------------------------------------------------------
(* addInternal: a call adds an item and calls itself for the parent; "open" *)
(* are the calls that wait for that one.                                   *)

\* (variant: an item that is there already stays a leaf when it gets a child)
AddLinks_StaysLeaf(c) ==
  [c.th EXCEPT !.childrenIDs = [x \in TagId |-> @[x] \cup {y \in c.open : registry[y] = x}]]

\* A new item is added, and then its parent.
AddItem(c) ==
  LET par == registry[c.id]
  IN  IF c.id = NoTag \/ c.id \in c.th.ids THEN c
      ELSE [th |-> [c.th EXCEPT !.ids = @ \cup {c.id},
                                !.parentID[c.id] = par,
                                !.childrenIDs[c.id] = {},
                                !.leafs = IF c.isLeaf THEN @ \cup {c.id} ELSE @,
                                !.roots = IF par = NoTag THEN @ \cup {c.id} ELSE @],
            id |-> par,
            isLeaf |-> FALSE,
            open |-> IF par = NoTag THEN c.open ELSE c.open \cup {c.id}]

\* The last call finds its item, which is only struck from the leafs if it is added
\* as somebody's parent; then each open call links its item to the parent's.
AddLinks(c) ==
  [c.th EXCEPT !.leafs = IF c.isLeaf THEN @ ELSE @ \ {c.id},
               !.childrenIDs = [x \in TagId |-> @[x] \cup {y \in c.open : registry[y] = x}]]

AddInternal(th, id, isLeaf) ==
  LET calls[n \in 0..Depth] ==
        IF n = 0 THEN [th |-> th, id |-> id, isLeaf |-> isLeaf, open |-> {}]
        ELSE AddItem(calls[n - 1])
  IN  AddLinks(calls[Depth])

-----------------------------------------------------------------------------
(* The loops over parentID.                                                *)

\* The ids a loop that starts at x looks at, one after the other.
Ups(th, x) ==
  LET up[n \in 0..Depth] ==
        IF n = 0 THEN x ELSE IF up[n - 1] = NoTag THEN NoTag ELSE th.parentID[up[n - 1]]
  IN  up

\* (variant: only the parent is looked at)
IsSubnode_ParentOnly(th, id1, id2) == th.parentID[id1] = id2

\* Is id1 somewhere under id2?
IsSubnode(th, id1, id2) == \E n \in 1..Depth : Ups(th, id1)[n] = id2

\* The ids from the root to n.
GetPath(th, n) ==
  LET up == Ups(th, n)
      len == CHOOSE k \in 0..Depth : up[k] = NoTag /\ \A m \in 0..(k - 1) : up[m] # NoTag
  IN  [i \in 1..len |-> up[len - i]]

-----------------------------------------------------------------------------
(* removeChild: a call takes child from the children of par; a tag that    *)
(* has no child left becomes a leaf, or is removed after a call for its    *)
(* parent.  A call ends with a nil item when par has none.                 *)

\* (variant: a tag with no child left is removed, its parent is not looked at)
TakeChild_OneLevel(c) ==
  LET cut == [c.th EXCEPT !.childrenIDs[c.par] = @ \ {c.child}]
  IN  IF c.ended THEN c
      ELSE IF c.par \notin c.th.ids THEN [c EXCEPT !.ended = TRUE, !.nil = TRUE]
      ELSE IF cut.childrenIDs[c.par] # {} THEN [c EXCEPT !.th = cut, !.ended = TRUE]
      ELSE IF c.remove THEN [c EXCEPT !.th = cut, !.ended = TRUE, !.open = @ \cup {c.par}]
      ELSE [c EXCEPT !.th = [cut EXCEPT !.leafs = @ \cup {c.par}], !.ended = TRUE]

\* (variant: a tag with other children is removed too)
TakeChild_Always(c) ==
  [c EXCEPT !.th.childrenIDs[c.par] = @ \ {c.child},
            !.ended = TRUE,
            !.open = IF c.remove THEN {c.par} ELSE {}]

TakeChild(c) ==
  LET cut == [c.th EXCEPT !.childrenIDs[c.par] = @ \ {c.child}]
  IN  IF c.ended THEN c
      ELSE IF c.par \notin c.th.ids THEN [c EXCEPT !.ended = TRUE, !.nil = TRUE]
      ELSE IF cut.childrenIDs[c.par] # {} THEN [c EXCEPT !.th = cut, !.ended = TRUE]
      ELSE IF c.remove
        THEN [c EXCEPT !.th = cut, !.par = cut.parentID[c.par], !.child = c.par,
                       !.open = @ \cup {c.par}]
      ELSE [c EXCEPT !.th = [cut EXCEPT !.leafs = @ \cup {c.par}], !.ended = TRUE]

\* The last call; then the open ones remove their items, unless there is a panic.
RemoveChild(th, par, child, removeNewLeafs) ==
  LET calls[n \in 0..Depth] ==
        IF n = 0 THEN [th |-> th, par |-> par, child |-> child, remove |-> removeNewLeafs,
                       open |-> {}, ended |-> FALSE, nil |-> FALSE]
        ELSE TakeChild(calls[n - 1])
      last == calls[Depth]
  IN  [th  |-> [last.th EXCEPT !.ids = IF last.nil THEN @ ELSE @ \ last.open],
       nil |-> last.nil]

-----------------------------------------------------------------------------
Add(id) ==
  /\ moveDone = "no"
  /\ hier' = AddInternal(hier, id, TRUE)
  /\ asked' = asked \cup {id}
  /\ UNCHANGED <<registry, moveDone, nilItem>>

HierCanMove(id, newParent) ==
  /\ moveDone = "no"
  /\ {id, newParent} \subseteq hier.ids
  /\ newParent # id /\ ~IsSubnode(hier, newParent, id)

\* The new parent gets its child before the old one loses it.
Move(id, newParent, removeNewLeafs) ==
  /\ HierCanMove(id, newParent)
  /\ LET linked  == [hier EXCEPT !.parentID[id] = newParent,
                                 !.childrenIDs[newParent] = @ \cup {id}]
         removed == RemoveChild(linked, hier.parentID[id], id, removeNewLeafs)
     IN  /\ hier' = [removed.th EXCEPT !.leafs = @ \ {newParent}]
         /\ nilItem' = removed.nil
  /\ moveDone' = IF newParent = hier.parentID[id] THEN "same" ELSE "elsewhere"
  /\ UNCHANGED <<registry, asked>>

HierNext ==
  \/ \E id \in TagId : Add(id)
  \/ \E id, newParent \in TagId, removeNewLeafs \in BOOLEAN :
       Move(id, newParent, removeNewLeafs)

HierSpec == HierInit /\ [][HierNext]_hierVars

-----------------------------------------------------------------------------
\* A move to the parent a tag already has loses the link between the two (see
\* LinksAfterMove in TagTree); after it nothing is said but MoveAsInTagTree.
HierSound == moveDone # "same"

\* The maps of a TagHier agree, at any time and however the Adds were ordered: a tag
\* is among the children of the item it names as its parent, and nowhere else (Move:
\* "Maintain children of the new parent"), and the leafs and the roots the callers
\* get are those of the links.
MapsAgree ==
  /\ HierTypeOK
  /\ HierSound =>
       /\ \A x, y \in hier.ids : y \in hier.childrenIDs[x] <=> hier.parentID[y] = x
       /\ hier.leafs = {x \in hier.ids : \A y \in hier.ids : hier.parentID[y] # x}
       /\ hier.roots = {x \in hier.ids : hier.parentID[x] = NoTag}

\* Every tag of a hierarchy has its whole path in it, after a move too, and no
\* move to another parent goes up beyond the root.  Before a move GetAll is the
\* closure of the ids added, and nothing more: what TagStore takes for it.
WholePaths ==
  /\ HierSound => ~nilItem /\ Closed(hier.parentID, hier.ids)
  /\ moveDone = "no" => hier.ids = UpClosure(registry, asked)

\* IsSubnode and GetPath agree with the paths of TagTree.
QueriesAgree ==
  HierSound => \A x \in hier.ids :
    /\ \A y \in hier.ids :
         IsSubnode(hier, x, y) <=> (x # y /\ y \in Path(hier.parentID, x))
    /\ LET path == GetPath(hier, x)
       IN  /\ {path[i] : i \in DOMAIN path} = Path(hier.parentID, x)
           /\ \A i \in DOMAIN path :
                hier.parentID[path[i]] = IF i = 1 THEN NoTag ELSE path[i - 1]

\* Move does what TagStore takes it to do: the same tags are left, and it panics
\* in the same cases, a move to the same parent included.
MoveAsInTagTree ==
  [][\A id, newParent \in TagId, removeNewLeafs \in BOOLEAN :
       Move(id, newParent, removeNewLeafs) =>
         /\ nilItem' = MovePanics(registry, hier.ids, id, newParent, removeNewLeafs)
         /\ ~nilItem' =>
              hier'.ids = TagsAfterMove(registry, hier.ids, id, newParent, removeNewLeafs)]_hierVars
=============================================================================
