----------------------------- MODULE TagLookup -----------------------------
(***************************************************************************)
(* How tags are found in the tables of TagStore: the tags tree             *)
(* (getTagsInternal), tags by path, the new tags a path would need and     *)
(* tags by pattern (package tagmatcher).                                   *)
(*                                                                         *)
(* A path is the sequence of the names in it.  A query that may return     *)
(* one of several rows is the set of them, the empty set is the error      *)
(* ErrTagDoesNotExist.  Paths that are numbers are ids, and no name is a   *)
(* number, so they need no search.  The order of what is found by pattern  *)
(* is left out.                                                            *)
(***************************************************************************)
EXTENDS TagStore, Sequences

CONSTANTS Common,     \* a text inside every name but ""
          PathLength  \* bound: names in the paths that are looked up

ASSUME CommonAssumption == Common \notin AnyName
ASSUME PathLengthAssumption == PathLength \in Nat

-----------------------------------------------------------------------------
(* The tags tree, with a row <<tag, primary name>> for each tag.           *)

Rows(X) == UNION {{x} \X primary[x] : x \in X}

\* (variant: one child is not looked for)
HasSubtags_Two(x) == childrenCnt[x] > 1

HasSubtags(x) == childrenCnt[x] > 0

\* getTagsInternal by parent_id calls itself for each row: the rows of the children,
\* then those of the children of these, and so on.
Levels(par) ==
  LET level[n \in 0..Cardinality(TagId)] ==
        IF n = 0 THEN Rows(Kids(parent, par))
        ELSE UNION {Rows(Kids(parent, r[1])) : r \in {q \in level[n - 1] : HasSubtags(q[1])}}
  IN  level

GetTags(par) == UNION {Levels(par)[n] : n \in 0..Cardinality(TagId)}

\* GetTag with GetSubtags
GetTag(x) == Rows({x}) \cup IF HasSubtags(x) THEN GetTags(x) ELSE {}

\* createTagDataFlatInternal: the sets of names of the tags from the root to x.
PathItems(x) ==
  [i \in 1..Cardinality(Path(parent, x)) |->
     names[CHOOSE y \in Path(parent, x) : Cardinality(Path(parent, y)) = i]]

-----------------------------------------------------------------------------
(* Tags by path.                                                           *)

GetTagIDByName(par, n) == {y \in Kids(parent, par) : n \in names[y]}

\* Where the names of a path lead, one after the other; an empty one is skipped.
Descend(path) ==
  LET found[i \in 0..Len(path)] ==
        IF i = 0 THEN {Root}
        ELSE IF path[i] = EmptyName THEN found[i - 1]
        ELSE UNION {GetTagIDByName(y, path[i]) : y \in found[i - 1]}
  IN  found

GetTagIDByPath(path) == Descend(path)[Len(path)]

\* (variant: the search begins with the first name)
ExistingNames_Shortest(path) ==
  IF GetTagIDByPath(SubSeq(path, 1, 1)) = {} THEN 0 ELSE 1

\* How many of the names, from the first, lead to a tag: getNewTagDetails tries the
\* whole path, then one name less at a time.
ExistingNames(path) ==
  CHOOSE k \in 0..Len(path) :
    /\ k > 0 => GetTagIDByPath(SubSeq(path, 1, k)) # {}
    /\ \A j \in k+1..Len(path) : GetTagIDByPath(SubSeq(path, 1, j)) = {}

NewTagDetails(path) ==
  LET k == ExistingNames(path)
  IN  [parents |-> GetTagIDByPath(SubSeq(path, 1, k)),
       missing |-> SubSeq(path, k + 1, Len(path))]

-----------------------------------------------------------------------------
(* Tags by pattern: words, each of which is parts between slashes.         *)

Part == AnyName \cup {Common}

\* What the part "" and a part inside every name match, besides equal names.
Matches(part, name) ==
  \/ name = part
  \/ part = EmptyName
  \/ part = Common /\ name # EmptyName

\* Where in a path, before position f, a part matches.
Hits(part, items, f) == {i \in 1..f-1 : \E n \in items[i] : Matches(part, n)}

\* (variant: the next part may match the same tag of the path)
Leftmost_Again(i) == i + 1

\* The next part has to match before the position of this one.
Leftmost(i) == i

\* One part against all paths: in each, as far to the end as it matches.
MatchPart(items, part, m) ==
  LET hits == [x \in DOMAIN items |-> Hits(part, items[x], m.fidx[x])]
      res == {x \in DOMAIN items : hits[x] # {}}
      last(x) == CHOOSE i \in hits[x] : \A j \in hits[x] : j <= i
  IN  IF {} \in m.results THEN m
      ELSE [fidx |-> [x \in DOMAIN items |->
                        IF x \in res THEN Leftmost(last(x)) ELSE m.fidx[x]],
            results |-> IF res = {} THEN {{}} ELSE m.results \cup {res}]

\* MatcherExact.Filter, from the last part to the first: results are the sets of tags
\* found for each part, or the empty one alone as soon as a part is not found.
MatchParts(items, word) ==
  LET match[n \in 0..Len(word)] ==
        IF n = 0
          THEN [fidx |-> [x \in DOMAIN items |-> Len(items[x]) + 1], results |-> {}]
          ELSE MatchPart(items, word[Len(word) + 1 - n], match[n - 1])
  IN  match

\* TagMatcher.Filter and CombineResults: the tags in all results of all words.
FilterTags(items, words) ==
  LET results == UNION {MatchParts(items, w)[Len(w)].results : w \in words}
  IN  {x \in DOMAIN items : \A r \in results : x \in r}

-----------------------------------------------------------------------------
NamePath == UNION {[1..k -> Name] : k \in 1..PathLength}

\* The paths a user knows a tag by, with any of its names and of those above it.
PathsTo(x) ==
  LET items == PathItems(x)
      k == Len(items) - 1
  IN  {path \in [1..k -> Name] : \A i \in 1..k : path[i] \in items[i + 1]}

\* The tree read from any tag has each tag under it, once, although subtags are only
\* looked for when children_cnt says that there are some, and a tag is read by way
\* of its primary name (getTagsInternal).
TreeReadsWhole ==
  \A x \in tags :
    LET read == GetTag(x)
    IN  /\ {r[1] : r \in read} = Subtree(parent, x)
        /\ Cardinality(read) = Cardinality(Subtree(parent, x))

\* Each path of a tag, by whichever names, leads to that tag and to no other, whatever
\* was renamed and moved before (GetTagIDByPath).  Of any other path the part that is
\* there leads to one tag, and the names after it can be created as new tags: it has
\* no tag of the first one under it (getNewTagDetails).
PathsLead ==
  /\ \A x \in tags : \A path \in PathsTo(x) : GetTagIDByPath(path) = {x}
  /\ \A path \in NamePath :
       LET d == NewTagDetails(path)
           known == SubSeq(path, 1, Len(path) - Len(d.missing))
       IN  /\ \E x \in tags : d.parents = {x} /\ known \in PathsTo(x)
           /\ d.missing # <<>> =>
                \A x \in d.parents : Head(d.missing) \notin NamesUnder(parent, names, x)

\* The parts of a word match different tags of the path, in order.
Fits(word, items) ==
  \E at \in [1..Len(word) -> 1..Len(items)] :
    /\ \A i \in 1..Len(word) : \E n \in items[at[i]] : Matches(word[i], n)
    /\ \A i, j \in 1..Len(word) : i < j => at[i] < at[j]

Words ==
  LET one == [1..1 -> Part]
      two == [1..2 -> Part]
  IN  {{w} : w \in one \cup two} \cup {{v, w} : v, w \in one}

\* The matcher, which looks from the end of the path and never goes back, finds all
\* tags whose path fits every word, and no other (TagMatcher.Filter).
MatcherFindsAll ==
  LET items == [x \in {r[1] : r \in GetTag(Root)} |-> PathItems(x)]
  IN  \A words \in Words :
        FilterTags(items, words) = {x \in tags : \A w \in words : Fits(w, items[x])}
=============================================================================
