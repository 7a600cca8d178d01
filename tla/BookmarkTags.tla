---------------------------- MODULE BookmarkTags ----------------------------
(***************************************************************************)
(* What the server promises its user about the tags of a bookmark, without *)
(* the bookkeeping of TagStore: a bookmark has the tags its user gave it,  *)
(* none of them over another one, and the tags above them are implied.     *)
(* Moving and deleting tags changes a bookmark's own tags only where the   *)
(* policy says so.                                                         *)
(***************************************************************************)
EXTENDS TagTree

CONSTANT Taggable

VARIABLES parent,   \* the tag tree
          tags,     \* the tags in it
          chosen    \* for each bookmark the lowest of its tags

vars == <<parent, tags, chosen>>

\* S without the tags that have another tag of S under them.
Lowest(p, S) == {x \in S : \A y \in S \ {x} : x \notin Path(p, y)}

Under(b, id) == \E x \in chosen[b] : id \in Path(parent, x)

Init ==
  /\ parent = [x \in TagId |-> NoTag]
  /\ tags = {Root}
  /\ chosen = [b \in Taggable |-> {}]

\* A new tag has no bookmark.
Create(par, id) ==
  /\ par \in tags
  /\ id \in TagId \ tags
  /\ tags' = tags \cup {id}
  /\ parent' = [parent EXCEPT ![id] = par]
  /\ UNCHANGED chosen

\* A new tag under another new one.
CreateTwo(par, mid, id) ==
  /\ par \in tags
  /\ mid \in TagId \ tags
  /\ id \in TagId \ (tags \cup {mid})
  /\ tags' = tags \cup {mid, id}
  /\ parent' = [parent EXCEPT ![mid] = par, ![id] = mid]
  /\ UNCHANGED chosen

\* Moving id keeps every bookmark under it; the tag id was under becomes a tag
\* of its own of those bookmarks if the policy is to keep new leafs.  A move to
\* the parent id has changes nothing.
Move(id, newParent, policy) ==
  /\ id \in tags
  /\ newParent # parent[id]
  /\ UNCHANGED tags
  /\ parent' = [parent EXCEPT ![id] = newParent]
  /\ newParent \in tags
  /\ id \notin Path(parent, newParent)
  /\ chosen' = [b \in Taggable |->
                  IF ~Under(b, id) THEN chosen[b]
                  ELSE Lowest(parent', chosen[b] \cup
                                (IF policy = "keep" THEN {parent[id]} ELSE {}))]

\* A bookmark under a deleted tag gets the tag above it, the root excepted.
Delete(id) ==
  /\ id \in tags \ {Root}
  /\ id \notin tags'
  /\ tags' = tags \ Subtree(parent, id)
  /\ parent' = [x \in TagId |-> IF x \in tags' THEN parent[x] ELSE NoTag]
  /\ chosen' = [b \in Taggable |->
                  IF ~Under(b, id) THEN chosen[b]
                  ELSE Lowest(parent', (chosen[b] \cap tags') \cup
                                ({parent[id]} \ {Root}))]

\* The user gives a bookmark tags, none of them over another one.
Choose(b) ==
  /\ UNCHANGED <<parent, tags>>
  /\ \A c \in Taggable \ {b} : chosen'[c] = chosen[c]
  /\ chosen'[b] \in SUBSET tags
  /\ Lowest(parent, chosen'[b]) = chosen'[b]

Next ==
  \/ \E par, id \in TagId : Create(par, id)
  \/ \E par, mid, id \in TagId : CreateTwo(par, mid, id)
  \/ \E id, newParent \in TagId, policy \in {"keep", "del"} :
       Move(id, newParent, policy)
  \/ \E id \in TagId : Delete(id)
  \/ \E b \in Taggable : Choose(b)

Spec == Init /\ [][Next]_vars
=============================================================================
