------------------------------ MODULE TagTree ------------------------------
(***************************************************************************)
(* The tag hierarchy as mathematics: a tree of tags is a function p from   *)
(* tag ids to their parent ids, as in the column tags.parent_id.  NoTag    *)
(* stands for the 0 the code uses as "no parent" (taghier.go: "If          *)
(* GetParent returns 0, it means no parent"); the parent of an id that is  *)
(* not in use is NoTag as well.                                            *)
(*                                                                         *)
(* A path is defined as the least set that contains a tag and is closed    *)
(* under "parent of", so nothing here is recursive and the module can be   *)
(* used by modules with proofs.                                            *)
(***************************************************************************)
EXTENDS Integers, FiniteSets

CONSTANTS TagId,    \* ids the table tags may hold
          NoTag,    \* the id 0
          Root      \* the id of the user's root tag (users.go, CreateUser)

ASSUME TagIdAssumption == IsFiniteSet(TagId) /\ NoTag \notin TagId
ASSUME RootAssumption == Root \in TagId

ParentMap == [TagId -> TagId \cup {NoTag}]

\* S holds the parent of each of its tags that has one.
Closed(p, S) == \A x \in S : p[x] \in S \cup {NoTag}

\* x and all its ancestors: the loop over parentID in TagHier.GetPath, the
\* recursion over parentID in TagHier.addInternal.
Path(p, x) ==
  LET closedWithX == {S \in SUBSET TagId : x \in S /\ Closed(p, S)}
  IN  {y \in TagId : \A S \in closedWithX : y \in S}

\* The tags of I with all their ancestors: what a TagHier holds after Add was
\* called for each tag of I.
UpClosure(p, I) == UNION {Path(p, x) : x \in I}

Kids(p, x) == {y \in TagId : p[y] = x}

\* x and everything under it: the rows ON DELETE CASCADE removes with x.
Subtree(p, x) == {y \in TagId : x \in Path(p, y)}

\* The tags of S with no child in S.
Leafs(p, S) == {x \in S : Kids(p, x) \cap S = {}}

\* T is one tree with the given root: no tag of T has a parent outside T, and
\* every non-empty set of tags of T that is closed under "parent of" reaches
\* the root, so that T has neither a cycle nor a second root.
Rooted(p, T, root) ==
  /\ root \in T
  /\ p[root] = NoTag
  /\ Closed(p, T)
  /\ \A S \in SUBSET T : S # {} /\ Closed(p, S) => root \in S

-----------------------------------------------------------------------------
(* TagHier.Move on the tags H of one bookmark (H is closed): id goes from  *)
(* its parent under newParent.                                             *)

\* (variant: id is not yet among the children of newParent)
LinksAfterMove_NewParentLater(p, H, id, newParent) ==
  {<<p[y], y>> : y \in H} \ {<<p[id], id>>}

\* childrenIDs after the move, as pairs <<parent, child>>.  The code first adds
\* id to the children of newParent and then deletes it from those of the old
\* parent, so a move to the parent id already has loses the link.
LinksAfterMove(p, H, id, newParent) ==
  ({<<p[y], y>> : y \in H} \cup {<<newParent, id>>}) \ {<<p[id], id>>}

\* (variant: removeChild does not go on to the parent of what it deletes)
NewLeafs_OneLevel(p, H, id, newParent) ==
  {x \in {p[id]} : \A e \in LinksAfterMove(p, H, id, newParent) : e[1] # x}

\* The tags TagHier.removeChild deletes when removeNewLeafs is set: starting
\* at the old parent it goes up as long as the tag it looks at has no child
\* left, that is, no child but the one it has just deleted.
NewLeafs(p, H, id, newParent) ==
  LET links == LinksAfterMove(p, H, id, newParent)
      chain == Path(p, p[id])
      Childless(y) == \A e \in links : e[1] = y => e[2] \in chain
  IN  {x \in chain : \A y \in chain : x \in Path(p, y) => Childless(y)}

\* TagHier.GetAll after the move.
TagsAfterMove(p, H, id, newParent, removeNewLeafs) ==
  IF removeNewLeafs THEN H \ NewLeafs(p, H, id, newParent) ELSE H

\* removeChild takes its parameter's parent without a check: when it deletes a
\* tag that has no parent it looks up id 0, gets a nil item and panics.
MovePanics(p, H, id, newParent, removeNewLeafs) ==
  \/ p[id] = NoTag
  \/ removeNewLeafs /\ \E x \in NewLeafs(p, H, id, newParent) : p[x] = NoTag
=============================================================================
