---------------------------- MODULE TagTreeProofs ----------------------------
(***************************************************************************)
(* Facts about paths and trees of tags, for the proofs about TagStore, and *)
(* the theorems about TagHier: its loops and recursions end, and do what   *)
(* TagTree says.                                                           *)
(*                                                                         *)
(* Every proof about a path uses that it is the least closed set, so none  *)
(* needs induction.  Those about loops need an induction on the number of  *)
(* turns, by the least turn for which a claim would be wrong.              *)
(***************************************************************************)
EXTENDS TagHier, FiniteSetTheorems, WellFoundedInduction, TLAPS

\* A path holds its tag and is closed under "parent of".
LEMMA PathClosed ==
  ASSUME NEW p \in ParentMap, NEW x \in TagId
  PROVE  x \in Path(p, x) /\ Path(p, x) \subseteq TagId /\ Closed(p, Path(p, x))
<1>1. Path(p, x) \subseteq TagId /\ x \in Path(p, x)
  BY DEF Path
<1>2. ASSUME NEW y \in Path(p, x), p[y] # NoTag
      PROVE  p[y] \in Path(p, x)
  <2>1. p[y] \in TagId
    BY <1>1, <1>2 DEF ParentMap
  <2>2. ASSUME NEW S \in SUBSET TagId, x \in S, Closed(p, S)
        PROVE  p[y] \in S
    BY <1>2, <2>2 DEF Path, Closed
  <2> QED
    BY <2>1, <2>2 DEF Path
<1> QED
  BY <1>1, <1>2 DEF Closed

\* A path is the least such set.
LEMMA PathLeast ==
  ASSUME NEW p \in ParentMap, NEW S \in SUBSET TagId, NEW x \in S, Closed(p, S)
  PROVE  Path(p, x) \subseteq S
BY DEF Path

\* The path of a tag on a path is part of it.
LEMMA PathOfAncestor ==
  ASSUME NEW p \in ParentMap, NEW x \in TagId, NEW y \in Path(p, x)
  PROVE  Path(p, y) \subseteq Path(p, x)
BY PathClosed, PathLeast

\* A path is its tag followed by the path of the tag's parent.
LEMMA PathSplit ==
  ASSUME NEW p \in ParentMap, NEW x \in TagId
  PROVE  /\ p[x] = NoTag => Path(p, x) = {x}
         /\ p[x] # NoTag => /\ p[x] \in TagId
                            /\ Path(p, x) = {x} \cup Path(p, p[x])
<1>1. CASE p[x] = NoTag
  <2>1. Closed(p, {x})
    BY <1>1 DEF Closed
  <2> QED
    BY <1>1, <2>1, PathLeast, PathClosed
<1>2. CASE p[x] # NoTag
  <2>1. p[x] \in TagId
    BY <1>2 DEF ParentMap
  <2>2. Path(p, p[x]) \subseteq TagId /\ p[x] \in Path(p, p[x])
        /\ Closed(p, Path(p, p[x]))
    BY <2>1, PathClosed
  <2>3. Closed(p, {x} \cup Path(p, p[x]))
    BY <2>2 DEF Closed
  <2>4. Path(p, x) \subseteq {x} \cup Path(p, p[x])
    BY <2>2, <2>3, PathLeast
  <2>5. x \in Path(p, x) /\ p[x] \in Path(p, x)
    BY <1>2, PathClosed DEF Closed
  <2>6. Path(p, p[x]) \subseteq Path(p, x)
    BY <2>5, PathOfAncestor
  <2> QED
    BY <1>2, <2>1, <2>4, <2>5, <2>6
<1> QED
  BY <1>1, <1>2

\* What Add puts in a TagHier is closed.
LEMMA UpClosureClosed ==
  ASSUME NEW p \in ParentMap, NEW I \in SUBSET TagId
  PROVE  /\ I \subseteq UpClosure(p, I)
         /\ UpClosure(p, I) \subseteq TagId
         /\ Closed(p, UpClosure(p, I))
<1>1. \A x \in I : /\ x \in Path(p, x)
                   /\ Path(p, x) \subseteq TagId
                   /\ Closed(p, Path(p, x))
  BY PathClosed
<1> QED
  BY <1>1 DEF UpClosure, Closed

\* ... and part of every closed set with the tags that were added.
LEMMA UpClosureLeast ==
  ASSUME NEW p \in ParentMap, NEW S \in SUBSET TagId, Closed(p, S),
         NEW I \in SUBSET S
  PROVE  UpClosure(p, I) \subseteq S
BY PathLeast DEF UpClosure

\* A tag's parent is under id only if the tag is.
LEMMA SubtreeDown ==
  ASSUME NEW p \in ParentMap, NEW id \in TagId, NEW x \in TagId,
         p[x] \in Subtree(p, id)
  PROVE  x \in Subtree(p, id)
<1>1. p[x] \in TagId /\ id \in Path(p, p[x])
  BY DEF Subtree
<1>2. p[x] # NoTag
  BY <1>1, TagIdAssumption
<1> QED
  BY <1>1, <1>2, PathSplit DEF Subtree

-----------------------------------------------------------------------------
(* Trees *)

\* In a tree every path ends at the root, which alone has no parent.
LEMMA RootOnPath ==
  ASSUME NEW p \in ParentMap, NEW T \in SUBSET TagId, NEW root,
         Rooted(p, T, root), NEW x \in T
  PROVE  /\ Path(p, x) \subseteq T
         /\ root \in Path(p, x)
         /\ x # root => p[x] \in T
<1>1. Path(p, x) \subseteq T
  BY PathLeast DEF Rooted
<1>2. x \in Path(p, x) /\ Closed(p, Path(p, x))
  BY PathClosed
<1>3. root \in Path(p, x)
  BY <1>1, <1>2 DEF Rooted
<1>4. ASSUME p[x] = NoTag PROVE x = root
  BY <1>3, <1>4, PathSplit
<1>5. p[x] \in T \cup {NoTag}
  BY DEF Rooted, Closed
<1> QED
  BY <1>1, <1>3, <1>4, <1>5

\* A tree has no cycle: no tag is on the path of its parent.
LEMMA Acyclic ==
  ASSUME NEW p \in ParentMap, NEW T \in SUBSET TagId, NEW root,
         Rooted(p, T, root), NEW x \in T, x # root
  PROVE  x \notin Path(p, p[x])
<1> SUFFICES ASSUME x \in Path(p, p[x]) PROVE FALSE
  OBVIOUS
<1> DEFINE C == {y \in T : x \in Path(p, y)}
<1>1. p[x] \in T
  BY RootOnPath
<1>2. x \in C
  BY PathClosed
<1>3. root \notin C
  <2>1. Path(p, root) = {root}
    BY PathSplit DEF Rooted
  <2> QED
    BY <2>1
<1>4. ASSUME NEW y \in C PROVE p[y] \in C
  <2>1. CASE y = x
    BY <2>1, <1>1
  <2>2. CASE y # x
    <3>1. y # root
      BY <1>3
    <3>2. p[y] \in T /\ p[y] # NoTag
      BY <3>1, RootOnPath, TagIdAssumption
    <3>3. x \in Path(p, p[y])
      BY <2>2, <3>2, PathSplit
    <3> QED
      BY <3>2, <3>3
  <2> QED
    BY <2>1, <2>2
<1>5. C \subseteq T /\ Closed(p, C)
  BY <1>4 DEF Closed
<1> QED
  BY <1>2, <1>3, <1>5 DEF Rooted

\* A new tag under a tag of the tree leaves it a tree.
LEMMA RootedGrow ==
  ASSUME NEW p \in ParentMap, NEW T \in SUBSET TagId, NEW root,
         Rooted(p, T, root), NEW par \in T, NEW id \in TagId \ T
  PROVE  Rooted([p EXCEPT ![id] = par], T \cup {id}, root)
<1> DEFINE q == [p EXCEPT ![id] = par]
<1>1. q[id] = par /\ \A x \in T : q[x] = p[x]
  BY DEF ParentMap
<1>2. root \in T /\ q[root] = NoTag /\ Closed(q, T \cup {id})
  BY <1>1 DEF Rooted, Closed
<1>3. ASSUME NEW S \in SUBSET (T \cup {id}), S # {}, Closed(q, S)
      PROVE  root \in S
  <2>1. S \ {id} # {}
    BY <1>1, <1>3, TagIdAssumption DEF Closed
  <2>2. Closed(p, S \ {id})
    BY <1>1, <1>3, TagIdAssumption DEF Closed, Rooted
  <2> QED
    BY <2>1, <2>2 DEF Rooted
<1> HIDE DEF q
<1>4. Rooted(q, T \cup {id}, root)
  BY <1>2, <1>3 DEF Rooted
<1> QED
  BY <1>4 DEF q

\* Moving a tag of the tree under a tag that is not under it leaves it a tree.
LEMMA RootedMove ==
  ASSUME NEW p \in ParentMap, NEW T \in SUBSET TagId, NEW root,
         Rooted(p, T, root), NEW id \in T, NEW newParent \in T,
         id \notin Path(p, newParent)
  PROVE  Rooted([p EXCEPT ![id] = newParent], T, root)
<1> DEFINE q == [p EXCEPT ![id] = newParent]
<1>1. q[id] = newParent /\ \A x \in T : x # id => q[x] = p[x]
  BY DEF ParentMap
<1>2. id # root
  BY RootOnPath
<1>3. root \in T /\ q[root] = NoTag /\ Closed(q, T)
  BY <1>1, <1>2 DEF Rooted, Closed
<1>4. ASSUME NEW S \in SUBSET T, S # {}, Closed(q, S)
      PROVE  root \in S
  <2>1. CASE id \notin S
    BY <1>1, <1>4, <2>1 DEF Rooted, Closed
  <2>2. CASE id \in S
    <3> DEFINE A == S \cap Path(p, newParent)
    <3>1. newParent \in A
      BY <1>1, <1>4, <2>2, PathClosed, TagIdAssumption DEF Closed
    <3>2. Closed(p, Path(p, newParent))
      BY PathClosed
    <3>3. Closed(p, A)
      BY <1>1, <1>4, <3>2 DEF Closed
    <3> QED
      BY <3>1, <3>3 DEF Rooted
  <2> QED
    BY <2>1, <2>2
<1> HIDE DEF q
<1>5. Rooted(q, T, root)
  BY <1>3, <1>4 DEF Rooted
<1> QED
  BY <1>5 DEF q

\* Cutting off a tag with all that is under it leaves a tree.
LEMMA RootedCut ==
  ASSUME NEW p \in ParentMap, NEW T \in SUBSET TagId, NEW root,
         Rooted(p, T, root), NEW id \in T, id # root,
         NEW q, \A x \in T \ Subtree(p, id) : q[x] = p[x]
  PROVE  Rooted(q, T \ Subtree(p, id), root)
<1> DEFINE U == T \ Subtree(p, id)
<1>1. root \in U
  <2>1. Path(p, root) = {root}
    BY PathSplit DEF Rooted
  <2> QED
    BY <2>1 DEF Rooted, Subtree
<1>2. Closed(q, U)
  BY SubtreeDown DEF Closed, Rooted
<1>3. ASSUME NEW S \in SUBSET U, S # {}, Closed(q, S) PROVE root \in S
  BY <1>3 DEF Closed, Rooted
<1> QED
  BY <1>1, <1>2, <1>3 DEF Rooted

-----------------------------------------------------------------------------
(* Moves *)

\* The tag that is moved is not among the tags a move removes.
LEMMA MovedTagStays ==
  ASSUME NEW p \in ParentMap, NEW T \in SUBSET TagId, NEW root,
         Rooted(p, T, root), NEW id \in T, NEW newParent \in T,
         id \notin Path(p, newParent), NEW H \in SUBSET T
  PROVE  /\ id # root
         /\ p[id] \in T
         /\ id \notin Path(p, p[id])
         /\ id \notin NewLeafs(p, H, id, newParent)
<1>1. id # root
  BY RootOnPath
<1>2. p[id] \in T
  BY <1>1, RootOnPath
<1>3. id \notin Path(p, p[id])
  BY <1>1, Acyclic
<1> QED
  BY <1>1, <1>2, <1>3 DEF NewLeafs

\* While the moved tag gets another parent, the new parent stays, and no tag
\* stays without its parent: the tags removed are a lower end of the old path.
LEMMA NewLeafsAreLowest ==
  ASSUME NEW p \in ParentMap, NEW T \in SUBSET TagId, NEW root,
         Rooted(p, T, root), NEW id \in T, NEW newParent \in T,
         id \notin Path(p, newParent), newParent # p[id],
         NEW H \in SUBSET T, id \in H
  PROVE  /\ newParent \notin NewLeafs(p, H, id, newParent)
         /\ \A x \in H \ {id} : p[x] \in NewLeafs(p, H, id, newParent) =>
              x \in NewLeafs(p, H, id, newParent)
<1> DEFINE links == LinksAfterMove(p, H, id, newParent)
           chain == Path(p, p[id])
           Childless(y) == \A e \in links : e[1] = y => e[2] \in chain
           R == {x \in chain : \A y \in chain : x \in Path(p, y) => Childless(y)}
<1>1. NewLeafs(p, H, id, newParent) = R
  BY DEF NewLeafs
<1>2. id \notin chain /\ p[id] \in T
  BY MovedTagStays
<1>3. <<newParent, id>> \in links
  BY DEF LinksAfterMove
<1>4. newParent \notin R
  <2>1. newParent \in Path(p, newParent)
    BY PathClosed
  <2>2. ~Childless(newParent)
    BY <1>2, <1>3
  <2> QED
    BY <2>1, <2>2
<1>5. ASSUME NEW x \in H \ {id}, p[x] \in R
      PROVE  x \in R
  <2>1. <<p[x], x>> \in links
    BY DEF LinksAfterMove
  <2>2. chain \subseteq TagId /\ p[x] \in chain
    BY <1>2, <1>5, PathClosed
  <2>3. Childless(p[x])
    <3>1. p[x] \in Path(p, p[x])
      BY <2>2, PathClosed
    <3> QED
      BY <1>5, <2>2, <3>1
  <2>4. x \in chain
    BY <2>1, <2>3
  <2>5. ASSUME NEW y \in chain, x \in Path(p, y) PROVE Childless(y)
    <3>1. p[x] \in Path(p, y)
      BY <2>2, <2>5, PathClosed, TagIdAssumption DEF Closed
    <3> QED
      BY <1>5, <3>1
  <2> QED
    BY <2>4, <2>5
<1> QED
  BY <1>1, <1>4, <1>5

\* A move leaves a bookmark with full paths, unless new leafs are removed while
\* the tag keeps its parent.
LEMMA MoveClosed ==
  ASSUME NEW p \in ParentMap, NEW T \in SUBSET TagId, NEW root,
         Rooted(p, T, root), NEW id \in T, NEW newParent \in T,
         id \notin Path(p, newParent),
         NEW H \in SUBSET T, Closed(p, H), id \in H, newParent \in H,
         NEW remove \in BOOLEAN, remove => newParent # p[id]
  PROVE  Closed([p EXCEPT ![id] = newParent],
                TagsAfterMove(p, H, id, newParent, remove))
<1> DEFINE q == [p EXCEPT ![id] = newParent]
<1>1. q[id] = newParent /\ \A x \in T : x # id => q[x] = p[x]
  BY DEF ParentMap
<1>2. CASE ~remove
  BY <1>1, <1>2 DEF TagsAfterMove, Closed
<1>3. CASE remove
  <2> DEFINE R == NewLeafs(p, H, id, newParent)
  <2>1. newParent \notin R /\ \A x \in H \ {id} : p[x] \in R => x \in R
    BY <1>3, NewLeafsAreLowest
  <2>2. TagsAfterMove(p, H, id, newParent, remove) = H \ R
    BY <1>3 DEF TagsAfterMove
  <2> HIDE DEF R
  <2>3. Closed(q, H \ R)
    BY <1>1, <2>1 DEF Closed
  <2> QED
    BY <2>2, <2>3
<1> QED
  BY <1>2, <1>3

\* Such a move never goes up to the root: it has the new parent under it.
LEMMA MoveDoesNotPanic ==
  ASSUME NEW p \in ParentMap, NEW T \in SUBSET TagId, NEW root,
         Rooted(p, T, root), NEW id \in T, NEW newParent \in T,
         id \notin Path(p, newParent),
         NEW H \in SUBSET T, Closed(p, H), id \in H, newParent \in H,
         NEW remove \in BOOLEAN, remove => newParent # p[id]
  PROVE  ~MovePanics(p, H, id, newParent, remove)
<1>0. p[id] \in T
  BY MovedTagStays
<1>1. p[id] # NoTag
  BY <1>0, TagIdAssumption
<1>5. \A y \in T \ {root} : p[y] \in T
  <2> SUFFICES ASSUME NEW y \in T, y # root, p[y] = NoTag PROVE FALSE
    BY DEF Rooted, Closed
  <2>1. {y} \in SUBSET T /\ {y} # {} /\ Closed(p, {y})
    BY DEF Closed
  <2> QED
    BY <2>1 DEF Rooted
<1> DEFINE R == NewLeafs(p, H, id, newParent)
<1>2. R \subseteq T
  <2>1. Path(p, p[id]) \subseteq T
    BY <1>0, RootOnPath, SMTT(30)
  <2> QED
    BY <2>1 DEF NewLeafs
<1>3. ASSUME remove, root \in R PROVE FALSE
  <2>1. newParent \notin R /\ \A x \in H \ {id} : p[x] \in R => x \in R
    BY <1>3, NewLeafsAreLowest
  <2> DEFINE C == Path(p, newParent) \ R
  <2>2. newParent \in C
    BY <2>1, PathClosed
  <2>3. Path(p, newParent) \subseteq T /\ Path(p, newParent) \subseteq H
    BY RootOnPath, PathLeast
  <2>4. Closed(p, Path(p, newParent))
    BY PathClosed
  <2> HIDE DEF R
  <2>5. Closed(p, C)
    BY <2>1, <2>3, <2>4 DEF Closed
  <2>6. root \in C
    BY <2>2, <2>3, <2>5 DEF Rooted
  <2> QED
    BY <1>3, <2>6
<1>4. ASSUME remove, NEW x \in R, p[x] = NoTag PROVE FALSE
  <2>1. x \in T /\ x # root
    BY <1>2, <1>3, <1>4
  <2> HIDE DEF R
  <2>2. p[x] \in T
    BY <1>5, <2>1
  <2> QED
    BY <1>4, <2>2, TagIdAssumption
<1> QED
  BY <1>1, <1>4 DEF MovePanics

-----------------------------------------------------------------------------
(* Loops, as the functions of their states: a function with the equations  *)
(* exists, and what every turn preserves holds at the end, by a least      *)
(* number for which it would not.                                          *)

LEMMA LeastNumber ==
  ASSUME NEW S \in SUBSET Nat, S # {}
  PROVE  \E m \in S : \A k \in S : m <= k
<1> DEFINE Less == {ss \in Nat \X Nat : ss[1] < ss[2]}
<1>1. IsWellFoundedOn(Less, Nat)
  BY NatLessThanWellFounded DEF OpToRel
<1>2. PICK m \in S : \A k \in S : <<k, m>> \notin Less
  <2> HIDE DEF Less
  <2> QED
    BY <1>1, WFMin
<1>3. ASSUME NEW k \in S, ~(m <= k) PROVE FALSE
  <2>1. <<k, m>> \in Nat \X Nat /\ <<k, m>>[1] = k /\ <<k, m>>[2] = m
    OBVIOUS
  <2>2. k < m
    BY <1>3
  <2>3. <<k, m>> \in Less
    BY <2>1, <2>2
  <2> QED
    BY <1>2, <2>3
<1> QED
  BY <1>3

\* What holds of the state at a, and is preserved, holds from a on.
LEMMA StatesStay ==
  ASSUME NEW S, NEW D \in Nat, NEW a \in 0..D, NEW f, f[a] \in S,
         \A n \in (a + 1)..D : f[n - 1] \in S => f[n] \in S
  PROVE  \A n \in a..D : f[n] \in S
<1> DEFINE Bad == {n \in a..D : f[n] \notin S}
<1> SUFFICES ASSUME Bad # {} PROVE FALSE
  OBVIOUS
<1>1. PICK m \in Bad : \A k \in Bad : m <= k
  <2>1. Bad \in SUBSET Nat
    OBVIOUS
  <2> HIDE DEF Bad
  <2> QED
    BY <2>1, LeastNumber
<1>2. m \in (a + 1)..D /\ f[m] \notin S
  BY <1>1
<1>3. m - 1 \in a..D /\ ~(m <= m - 1)
  BY <1>2
<1>4. m - 1 \notin Bad
  BY <1>1, <1>3
<1> QED
  BY <1>2, <1>3, <1>4

\* What holds of 0, and of n if of n - 1, holds of all numbers up to D.
LEMMA NumbersStay ==
  ASSUME NEW D \in Nat, NEW S, 0 \in S, \A n \in 1..D : n - 1 \in S => n \in S
  PROVE  0..D \subseteq S
<1> DEFINE f == [n \in 0..D |-> n]
<1>1. f[0] = 0 /\ 0 \in 0..D
  OBVIOUS
<1>2. \A n \in (0 + 1)..D : f[n - 1] \in S => f[n] \in S
  OBVIOUS
<1>3. \A n \in 0..D : f[n] \in S
  <2> HIDE DEF f
  <2> QED
    BY <1>1, <1>2, StatesStay
<1> QED
  BY <1>3

\* The states of a loop whose turn n does F[n].
TurnsBy(f, F, s, D) == f = [n \in 0..D |-> IF n = 0 THEN s ELSE F[n][f[n - 1]]]

LEMMA TurnsByExist ==
  ASSUME NEW S, NEW s \in S, NEW D \in Nat, NEW F \in [1..D -> [S -> S]]
  PROVE  \E f \in [0..D -> S] : TurnsBy(f, F, s, D)
<1> DEFINE Good(k) == \E f \in [0..k -> S] : TurnsBy(f, F, s, k)
           Bad == {k \in 0..D : ~Good(k)}
<1>1. SUFFICES ASSUME Bad # {} PROVE FALSE
  OBVIOUS
<1>2. PICK m \in Bad : \A k \in Bad : m <= k
  <2>1. Bad \in SUBSET Nat
    OBVIOUS
  <2> HIDE DEF Bad
  <2> QED
    BY <1>1, <2>1, LeastNumber
<1>3. m \in 0..D /\ ~Good(m)
  BY <1>2
<1>4. CASE m = 0
  <2> DEFINE g == [n \in 0..0 |-> s]
  <2>1. g \in [0..0 -> S] /\ TurnsBy(g, F, s, 0)
    BY DEF TurnsBy
  <2> QED
    BY <1>3, <1>4, <2>1
<1>5. CASE m # 0
  <2>1. m - 1 \in 0..D /\ ~(m <= m - 1)
    BY <1>3, <1>5
  <2>2. Good(m - 1)
    BY <1>2, <2>1
  <2>3. PICK f \in [0..(m - 1) -> S] : TurnsBy(f, F, s, m - 1)
    BY <2>2
  <2> DEFINE g == [n \in 0..m |-> IF n = 0 THEN s ELSE F[n][f[n - 1]]]
  <2>4. \A n \in 0..(m - 1) : n \in 0..m /\ g[n] = f[n]
    BY <2>1, <2>3, SMTT(30) DEF TurnsBy
  <2>5. g \in [0..m -> S]
    <3> SUFFICES ASSUME NEW n \in 0..m, n # 0 PROVE F[n][f[n - 1]] \in S
      OBVIOUS
    <3>1. n \in 1..D /\ n - 1 \in 0..(m - 1)
      BY <1>3
    <3>2. f[n - 1] \in S /\ F[n] \in [S -> S]
      BY <2>3, <3>1
    <3> QED
      BY <3>2
  <2>6. \A n \in 0..m : n # 0 => n - 1 \in 0..(m - 1)
    BY <1>3
  <2>7. g = [n \in 0..m |-> IF n = 0 THEN s ELSE F[n][g[n - 1]]]
    <3> HIDE DEF g
    <3>1. \A n \in 0..m : n # 0 => g[n - 1] = f[n - 1]
      BY <2>4, <2>6
    <3> QED
      BY <3>1 DEF g
  <2> HIDE DEF g
  <2>8. TurnsBy(g, F, s, m)
    BY <2>7 DEF TurnsBy
  <2> QED
    BY <1>3, <2>5, <2>8
<1> QED
  BY <1>4, <1>5

\* The states of a loop with the step F.
Turns(f, F, s, D) == f = [n \in 0..D |-> IF n = 0 THEN s ELSE F[f[n - 1]]]

LEMMA TurnsExist ==
  ASSUME NEW S, NEW s \in S, NEW F \in [S -> S], NEW D \in Nat
  PROVE  \E f \in [0..D -> S] : Turns(f, F, s, D)
<1> DEFINE G == [n \in 1..D |-> F]
<1>1. G \in [1..D -> [S -> S]] /\ \A n \in 0..D : n # 0 => G[n] = F
  OBVIOUS
<1> HIDE DEF G
<1>2. PICK f \in [0..D -> S] : TurnsBy(f, G, s, D)
  BY <1>1, TurnsByExist
<1> QED
  BY <1>1, <1>2 DEF TurnsBy, Turns

\* A loop is over after D turns if each turn before its end lowers a number that is
\* not above D at first; and every turn keeps what the step preserves.
LEMMA LoopEnds ==
  ASSUME NEW S, NEW Done, NEW M \in [S -> Nat], NEW D \in Nat, NEW f,
         f[0] \in S, M[f[0]] <= D,
         \A n \in 1..D : f[n - 1] \in S => f[n] \in S,
         \A n \in 1..D : f[n - 1] \in S =>
            IF f[n - 1] \in Done THEN f[n] \in Done
            ELSE f[n] \in Done \/ M[f[n]] < M[f[n - 1]],
         \A c \in S : M[c] = 0 => c \in Done
  PROVE  f[D] \in S /\ f[D] \in Done
<1>1. \A n \in 0..D : f[n] \in S
  <2>1. 0 \in 0..D /\ 0 + 1 = 1
    OBVIOUS
  <2>2. \A n \in (0 + 1)..D : f[n - 1] \in S => f[n] \in S
    BY <2>1
  <2> QED
    BY ONLY f[0] \in S, <2>1, <2>2, StatesStay, D \in Nat
<1> DEFINE Bad == {n \in 0..D : f[n] \notin Done /\ ~(M[f[n]] + n <= D)}
<1>2. Bad = {}
  <2> SUFFICES ASSUME Bad # {} PROVE FALSE
    OBVIOUS
  <2>1. PICK m \in Bad : \A k \in Bad : m <= k
    <3>1. Bad \in SUBSET Nat
      OBVIOUS
    <3> HIDE DEF Bad
    <3> QED
      BY <3>1, LeastNumber
  <2>2. M[f[0]] \in Nat
    BY <1>1
  <2>3. m \in 1..D /\ f[m] \notin Done /\ ~(M[f[m]] + m <= D)
    BY <2>1, <2>2
  <2>4. m - 1 \in 0..D /\ ~(m <= m - 1)
    BY <2>3
  <2>5. m - 1 \notin Bad
    BY <2>1, <2>4
  <2>6. f[m - 1] \in S /\ f[m] \in S
    BY <1>1, <2>3, <2>4
  <2>7. M[f[m - 1]] \in Nat /\ M[f[m]] \in Nat
    BY <2>6
  <2>8. f[m - 1] \notin Done /\ M[f[m]] < M[f[m - 1]]
    BY <2>3, <2>6
  <2> QED
    BY <2>3, <2>4, <2>5, <2>7, <2>8
<1>3. f[D] \in S /\ M[f[D]] \in Nat
  BY <1>1
<1>4. f[D] \notin Done => M[f[D]] = 0
  BY <1>2, <1>3
<1> QED
  BY <1>3, <1>4

LEMMA DepthIsNat == Depth \in Nat /\ Cardinality(TagId) + 1 = Depth
BY TagIdAssumption, FS_CardinalityType DEF Depth

\* A set of tags is no larger than Depth - 1, and adding to it leaves fewer tags out.
LEMMA TagsLeft ==
  ASSUME NEW S \in SUBSET TagId
  PROVE  /\ Cardinality(S) \in Nat /\ Cardinality(S) + 1 <= Depth
         /\ \A x \in S : Cardinality(S \ {x}) < Cardinality(S)
<1>1. IsFiniteSet(S) /\ Cardinality(S) <= Cardinality(TagId) /\ Cardinality(S) \in Nat
      /\ Cardinality(TagId) \in Nat
  BY TagIdAssumption, FS_Subset, FS_CardinalityType
<1>2. \A x \in S : Cardinality(S \ {x}) = Cardinality(S) - 1
  BY <1>1, FS_RemoveElement
<1> QED
  BY <1>1, <1>2, DepthIsNat

\* What holds of the root, and of a tag if of its parent, holds of all tags.
LEMMA TreeInduction ==
  ASSUME NEW p \in ParentMap, NEW T \in SUBSET TagId, NEW root, Rooted(p, T, root),
         NEW S, root \in S, \A x \in T : x # root /\ p[x] \in S => x \in S
  PROVE  T \subseteq S
<1> DEFINE C == T \ S
<1> SUFFICES ASSUME C # {} PROVE FALSE
  OBVIOUS
<1>1. Closed(p, C)
  <2> SUFFICES ASSUME NEW x \in C PROVE p[x] \in C \cup {NoTag}
    BY DEF Closed
  <2>1. x # root
    OBVIOUS
  <2>2. p[x] \in T
    BY <2>1, RootOnPath
  <2> QED
    BY <2>1, <2>2
<1>2. root \in C
  BY <1>1 DEF Rooted
<1> QED
  BY <1>2

\* How deep a tag is in the tree.
LEMMA PathCount ==
  ASSUME NEW p \in ParentMap, NEW T \in SUBSET TagId, NEW root, Rooted(p, T, root), NEW x \in T
  PROVE  /\ Cardinality(Path(p, x)) \in 1..Cardinality(TagId) /\ Cardinality(TagId) \in Nat
         /\ x = root => Path(p, x) = {x} /\ Cardinality(Path(p, x)) = 1
         /\ x # root => /\ p[x] \in T
                        /\ Path(p, x) = {x} \cup Path(p, p[x]) /\ x \notin Path(p, p[x])
                        /\ Cardinality(Path(p, x)) = Cardinality(Path(p, p[x])) + 1
         /\ \A y \in Path(p, x) : Cardinality(Path(p, y)) <= Cardinality(Path(p, x))
<1>1. \A y \in TagId : /\ IsFiniteSet(Path(p, y)) /\ Path(p, y) \in SUBSET TagId /\ y \in Path(p, y)
                       /\ Cardinality(Path(p, y)) \in Nat
  BY PathClosed, TagIdAssumption, FS_Subset, FS_CardinalityType
<1>2. Cardinality(TagId) \in Nat /\ Cardinality(Path(p, x)) <= Cardinality(TagId)
  BY <1>1, TagIdAssumption, FS_Subset, FS_CardinalityType
<1>3. Cardinality(Path(p, x)) # 0
  BY <1>1, FS_EmptySet
<1>4. ASSUME x = root PROVE Path(p, x) = {x} /\ Cardinality(Path(p, x)) = 1
  BY <1>4, PathSplit, FS_Singleton DEF Rooted
<1>5. ASSUME x # root
      PROVE  /\ p[x] \in T
             /\ Path(p, x) = {x} \cup Path(p, p[x]) /\ x \notin Path(p, p[x])
             /\ Cardinality(Path(p, x)) = Cardinality(Path(p, p[x])) + 1
  <2>1. p[x] \in T /\ p[x] # NoTag
    BY <1>5, RootOnPath, TagIdAssumption
  <2>2. Path(p, x) = {x} \cup Path(p, p[x]) /\ x \notin Path(p, p[x])
    BY <1>5, <2>1, PathSplit, Acyclic
  <2>3. Cardinality(Path(p, p[x]) \cup {x}) = Cardinality(Path(p, p[x])) + 1
    BY <1>1, <2>1, <2>2, FS_AddElement
  <2>4. Path(p, x) = Path(p, p[x]) \cup {x}
    BY <2>2
  <2> QED
    BY <2>1, <2>2, <2>3, <2>4
<1>6. \A y \in Path(p, x) : Cardinality(Path(p, y)) <= Cardinality(Path(p, x))
  BY <1>1, PathOfAncestor, FS_Subset
<1> QED
  BY <1>1, <1>2, <1>3, <1>4, <1>5, <1>6

\* On a path there is one tag of each depth.
OneDeep(p, x, i) ==
  \E y \in Path(p, x) : /\ Cardinality(Path(p, y)) = i
                        /\ \A z \in Path(p, x) : Cardinality(Path(p, z)) = i => z = y

LEMMA PathDepths ==
  ASSUME NEW p \in ParentMap, NEW T \in SUBSET TagId, NEW root, Rooted(p, T, root), NEW x \in T
  PROVE  \A i \in 1..Cardinality(Path(p, x)) : OneDeep(p, x, i)
<1> DEFINE S == {y \in T : \A i \in 1..Cardinality(Path(p, y)) : OneDeep(p, y, i)}
<1>1. root \in S
  <2>1. root \in T /\ Path(p, root) = {root} /\ Cardinality(Path(p, root)) = 1
    BY PathCount DEF Rooted
  <2> QED
    BY <2>1 DEF OneDeep
<1>2. ASSUME NEW y \in T, y # root, p[y] \in S PROVE y \in S
  <2>1. /\ p[y] \in T /\ Path(p, y) = {y} \cup Path(p, p[y]) /\ y \notin Path(p, p[y])
        /\ Cardinality(Path(p, y)) = Cardinality(Path(p, p[y])) + 1
    BY <1>2, PathCount
  <2>2. /\ Cardinality(Path(p, p[y])) \in Nat
        /\ \A z \in Path(p, p[y]) : Cardinality(Path(p, z)) <= Cardinality(Path(p, p[y]))
    BY <2>1, PathCount
  <2> SUFFICES ASSUME NEW i \in 1..Cardinality(Path(p, y)) PROVE OneDeep(p, y, i)
    OBVIOUS
  <2>3. CASE i = Cardinality(Path(p, y))
    <3>1. \A z \in Path(p, p[y]) : Cardinality(Path(p, z)) # i
      <4> TAKE z \in Path(p, p[y])
      <4>1. z \in T
        BY <2>1, RootOnPath
      <4>2. Cardinality(Path(p, z)) \in 1..Cardinality(TagId) /\ Cardinality(TagId) \in Nat
        BY <4>1, PathCount, Zenon
      <4> QED
        BY <2>1, <2>2, <2>3, <4>2
    <3> QED
      BY <2>1, <2>3, <3>1 DEF OneDeep
  <2>4. CASE i # Cardinality(Path(p, y))
    <3>1. i \in 1..Cardinality(Path(p, p[y]))
      BY <2>1, <2>2, <2>4
    <3>2. OneDeep(p, p[y], i)
      BY <1>2, <3>1
    <3> QED
      BY <2>1, <2>4, <3>2 DEF OneDeep
  <2> QED
    BY <2>3, <2>4
<1>3. T \subseteq S
  <2> HIDE DEF S
  <2> QED
    BY <1>1, <1>2, TreeInduction
<1> QED
  BY <1>3

-----------------------------------------------------------------------------
(* The queries of a TagHier, whose parentID makes its items a tree.         *)

\* A loop that starts at x sees the tags on the path of x, x only at first, and then 0.
LEMMA UpsArePath ==
  ASSUME NEW th, NEW p \in ParentMap, p = th.parentID, NEW T \in SUBSET TagId, NEW root,
         Rooted(p, T, root), NEW x \in T, NEW up, up = Ups(th, x)
  PROVE  /\ up[0] = x
         /\ \A n \in 1..Depth : up[n] = IF up[n - 1] = NoTag THEN NoTag ELSE p[up[n - 1]]
         /\ \A n \in 0..Depth : up[n] \in Path(p, x) \cup {NoTag}
         /\ \A n \in 1..Depth : up[n] # x
         /\ up[Depth] = NoTag
<1> DEFINE S == Path(p, x) \cup {NoTag}
           F == [y \in S |-> IF y = NoTag THEN NoTag ELSE p[y]]
           M == [y \in S |-> IF y = NoTag THEN 0 ELSE Cardinality(Path(p, y))]
           Is(f) == f = [n \in 0..Depth |->
                           IF n = 0 THEN x ELSE IF f[n - 1] = NoTag THEN NoTag ELSE p[f[n - 1]]]
<1>1. x \in Path(p, x) /\ Path(p, x) \subseteq T /\ Closed(p, Path(p, x))
  BY PathClosed, RootOnPath
<1>2. x \in S /\ F \in [S -> S] /\ Depth \in Nat
  BY <1>1, DepthIsNat DEF Closed
<1>3. Is(up)
  <2>1. PICK f \in [0..Depth -> S] : Turns(f, F, x, Depth)
    <3> HIDE DEF S, F
    <3> QED
      BY <1>2, TurnsExist
  <2>2. \A n \in 0..Depth : n # 0 => n - 1 \in 0..Depth
    BY <1>2
  <2>3. \A n \in 0..Depth : n # 0 => F[f[n - 1]] = IF f[n - 1] = NoTag THEN NoTag ELSE p[f[n - 1]]
    BY <2>1, <2>2
  <2>4. Is(f)
    <3> HIDE DEF F
    <3> QED
      BY <2>1, <2>3 DEF Turns
  <2>5. up = CHOOSE g : Is(g)
    BY DEF Ups
  <2> HIDE DEF Is
  <2> QED
    BY <2>4, <2>5
<1>4. up[0] = x
  BY <1>2, <1>3
<1>5. \A n \in 1..Depth : up[n] = IF up[n - 1] = NoTag THEN NoTag ELSE p[up[n - 1]]
  <2> TAKE n \in 1..Depth
  <2>1. n \in 0..Depth /\ n # 0
    BY <1>2
  <2> QED
    BY <1>3, <2>1
<1>6. \A n \in 1..Depth : up[n - 1] \in S => up[n] \in S /\ up[n] = F[up[n - 1]]
  <2> TAKE n \in 1..Depth
  <2> HAVE up[n - 1] \in S
  <2>1. up[n] = F[up[n - 1]]
    BY <1>5
  <2> QED
    BY <1>2, <2>1
<1>7. \A y \in Path(p, x) : /\ Path(p, y) \in SUBSET TagId /\ y \in Path(p, y)
                            /\ p[y] # NoTag => /\ p[y] \in TagId /\ p[y] \in Path(p, x)
                                               /\ Path(p, p[y]) \subseteq Path(p, y) \ {y}
  <2> TAKE y \in Path(p, x)
  <2>1. y \in T /\ y \in TagId
    BY <1>1
  <2>2. Path(p, y) \in SUBSET TagId /\ y \in Path(p, y)
    BY <2>1, PathClosed
  <2>3. ASSUME p[y] # NoTag
        PROVE  /\ p[y] \in TagId /\ p[y] \in Path(p, x)
               /\ Path(p, p[y]) \subseteq Path(p, y) \ {y}
    <3>1. p[y] \in TagId /\ p[y] \in Path(p, x)
      BY <1>1, <2>1, <2>3 DEF ParentMap, Closed
    <3>2. y # root
      BY <2>3 DEF Rooted
    <3> QED
      BY <2>1, <2>3, <3>1, <3>2, Acyclic, PathSplit
  <2> QED
    BY <2>2, <2>3
<1>8. /\ M \in [S -> Nat]
      /\ \A y \in S : M[y] <= Depth /\ (M[y] = 0 => y \in {NoTag})
  <2>1. \A y \in Path(p, x) : M[y] \in Nat /\ M[y] # 0 /\ M[y] <= Depth
    <3> TAKE y \in Path(p, x)
    <3>1. y # NoTag
      BY <1>1, TagIdAssumption
    <3>2. M[y] = Cardinality(Path(p, y))
      BY <3>1
    <3>3. Path(p, y) \in SUBSET TagId /\ y \in Path(p, y)
      BY <1>7
    <3>4. /\ Cardinality(Path(p, y)) \in Nat /\ Cardinality(Path(p, y)) + 1 <= Depth
          /\ Cardinality(Path(p, y) \ {y}) < Cardinality(Path(p, y))
          /\ Cardinality(Path(p, y) \ {y}) \in Nat
      BY <3>3, TagsLeft
    <3> HIDE DEF M
    <3> QED
      BY <1>2, <3>2, <3>4
  <2>2. M[NoTag] = 0
    OBVIOUS
  <2>3. DOMAIN M = S /\ M = [y \in S |-> M[y]]
    OBVIOUS
  <2> HIDE DEF M
  <2> QED
    BY <1>2, <2>1, <2>2, <2>3
<1>9. \A y \in S : y # NoTag => F[y] = NoTag \/ M[F[y]] < M[y]
  <2> SUFFICES ASSUME NEW y \in Path(p, x), y # NoTag, p[y] # NoTag PROVE M[F[y]] < M[y]
    OBVIOUS
  <2>1. F[y] = p[y] /\ p[y] \in S
    BY <1>7
  <2>2. M[y] = Cardinality(Path(p, y)) /\ M[p[y]] = Cardinality(Path(p, p[y]))
    BY <2>1
  <2>3. Path(p, p[y]) \subseteq Path(p, y) \ {y} /\ Path(p, y) \in SUBSET TagId /\ y \in Path(p, y)
    BY <1>7
  <2>4. Cardinality(Path(p, y) \ {y}) < Cardinality(Path(p, y))
    BY <2>3, TagsLeft
  <2>5. IsFiniteSet(Path(p, y) \ {y})
    BY <2>3, FS_Subset, TagIdAssumption
  <2>6. Cardinality(Path(p, p[y])) <= Cardinality(Path(p, y) \ {y})
    BY <2>3, <2>5, FS_Subset
  <2>7. /\ Cardinality(Path(p, p[y])) \in Nat /\ Cardinality(Path(p, y) \ {y}) \in Nat
        /\ Cardinality(Path(p, y)) \in Nat
    BY <2>3, <1>7, TagsLeft
  <2> HIDE DEF M, F
  <2> QED
    BY <2>1, <2>2, <2>4, <2>6, <2>7
<1>10. up[Depth] \in {NoTag}
  <2>1. \A n \in 1..Depth : up[n - 1] \in S =>
            IF up[n - 1] \in {NoTag} THEN up[n] \in {NoTag}
            ELSE up[n] \in {NoTag} \/ M[up[n]] < M[up[n - 1]]
    <3> HIDE DEF M
    <3> QED
      BY <1>6, <1>9
  <2>2. up[0] \in S /\ M[up[0]] <= Depth
    <3> HIDE DEF M
    <3> QED
      BY <1>2, <1>4, <1>8
  <2> DEFINE Done == {NoTag}
  <2>3. /\ \A n \in 1..Depth : up[n - 1] \in S => up[n] \in S
        /\ \A y \in S : M[y] = 0 => y \in Done
        /\ M \in [S -> Nat] /\ Depth \in Nat
        /\ \A n \in 1..Depth : up[n - 1] \in S =>
            IF up[n - 1] \in Done THEN up[n] \in Done
            ELSE up[n] \in Done \/ M[up[n]] < M[up[n - 1]]
    <3> HIDE DEF M, S, F
    <3> QED
      BY <1>2, <1>6, <1>8, <2>1
  <2> HIDE DEF M, S, F, Done
  <2>4. up[Depth] \in S /\ up[Depth] \in Done
    BY ONLY <2>2, <2>3, LoopEnds
  <2> QED
    BY <2>4 DEF Done
<1>11. \A n \in 0..Depth : up[n] \in S
  <2> HIDE DEF S, F
  <2>1. up[0] \in S /\ 0 \in 0..Depth /\ \A n \in (0 + 1)..Depth : up[n - 1] \in S => up[n] \in S
    BY <1>2, <1>4, <1>6
  <2> QED
    BY <1>2, <2>1, StatesStay
<1>12. \A n \in 1..Depth : up[n] # x
  <2> DEFINE S1 == IF p[x] = NoTag THEN {NoTag} ELSE Path(p, p[x]) \cup {NoTag}
  <2>0. p[x] # NoTag => p[x] \in T /\ p[x] \in TagId /\ x # root
    BY <1>1, <1>7 DEF Rooted, Closed
  <2>1. x \notin S1
    BY <2>0, Acyclic, TagIdAssumption
  <2>2. 1 \in 0..Depth /\ 1 \in 1..Depth
    BY DepthIsNat, FS_CardinalityType, TagIdAssumption
  <2>3. up[1] = p[x]
    BY <1>4, <1>5, <2>2, TagIdAssumption
  <2>4. p[x] # NoTag => p[x] \in Path(p, p[x]) /\ Closed(p, Path(p, p[x]))
    BY <2>0, PathClosed
  <2>5. up[1] \in S1
    BY <2>3, <2>4
  <2>6. \A n \in (1 + 1)..Depth : up[n - 1] \in S1 => up[n] \in S1
    <3>1. \A y \in S1 : y # NoTag => p[y] \in S1
      BY <2>4 DEF Closed
    <3>2. NoTag \in S1
      OBVIOUS
    <3>3. \A n \in (1 + 1)..Depth : n \in 1..Depth
      BY <1>2
    <3> HIDE DEF S1
    <3> QED
      BY <1>5, <3>1, <3>2, <3>3
  <2> HIDE DEF S1
  <2>7. \A n \in 1..Depth : up[n] \in S1
    BY <1>2, <2>2, <2>5, <2>6, StatesStay
  <2> QED
    BY <2>1, <2>7
<1> HIDE DEF S, F, M, Is
<1>13. \A n \in 0..Depth : up[n] \in Path(p, x) \cup {NoTag}
  BY <1>11 DEF S
<1> QED
  BY <1>4, <1>5, <1>10, <1>12, <1>13

\* It sees all of them.
LEMMA UpsAreWhole ==
  ASSUME NEW th, NEW p \in ParentMap, p = th.parentID, NEW T \in SUBSET TagId, NEW root,
         Rooted(p, T, root), NEW x \in T, NEW up, up = Ups(th, x),
         NEW len \in 0..Depth, up[len] = NoTag, NEW y \in Path(p, x)
  PROVE  \E n \in 0..Depth : n < len /\ up[n] = y
<1>1. /\ up[0] = x
      /\ \A n \in 1..Depth : up[n] = IF up[n - 1] = NoTag THEN NoTag ELSE p[up[n - 1]]
      /\ \A n \in 0..Depth : up[n] \in Path(p, x) \cup {NoTag}
  BY UpsArePath
<1>2. Depth \in Nat
  BY DepthIsNat
<1> DEFINE R == {up[n] : n \in {k \in 0..Depth : k < len}} \ {NoTag}
<1>3. x # NoTag /\ x \in TagId
  BY TagIdAssumption
<1>4. len # 0
  BY <1>1, <1>3
<1>5. x \in R
  <2>1. 0 \in 0..Depth /\ 0 < len
    BY <1>2, <1>4
  <2> QED
    BY <1>1, <1>3, <2>1
<1>6. Closed(p, R)
  <2> SUFFICES ASSUME NEW n \in 0..Depth, n < len, up[n] # NoTag
               PROVE  p[up[n]] \in R \cup {NoTag}
    BY DEF Closed
  <2>1. n + 1 \in 1..Depth /\ (n + 1) - 1 = n /\ n + 1 \in 0..Depth
    BY <1>2
  <2>2. up[n + 1] = p[up[n]]
    BY <1>1, <2>1
  <2>3. CASE n + 1 < len
    BY <2>1, <2>2, <2>3
  <2>4. CASE n + 1 = len
    BY <2>2, <2>4
  <2> QED
    BY <1>2, <2>3, <2>4
<1>7. R \in SUBSET TagId
  BY <1>1, PathClosed
<1>8. y \in R
  <2> HIDE DEF R
  <2> QED
    BY <1>5, <1>6, <1>7, PathLeast
<1> QED
  BY <1>8

LEMMA IsSubnodeIsPath ==
  ASSUME NEW th, NEW p \in ParentMap, p = th.parentID, NEW T \in SUBSET TagId, NEW root,
         Rooted(p, T, root), NEW x \in T, NEW y \in TagId
  PROVE  IsSubnode(th, x, y) <=> (x # y /\ y \in Path(p, x))
<1> DEFINE up == Ups(th, x)
<1>1. /\ up[0] = x
      /\ \A n \in 0..Depth : up[n] \in Path(p, x) \cup {NoTag}
      /\ \A n \in 1..Depth : up[n] # x
      /\ up[Depth] = NoTag
  BY UpsArePath
<1>2. Depth \in 0..Depth /\ Depth \in Nat
  BY DepthIsNat
<1>3. ASSUME IsSubnode(th, x, y) PROVE x # y /\ y \in Path(p, x)
  <2>1. PICK n \in 1..Depth : up[n] = y
    BY <1>3 DEF IsSubnode
  <2>2. n \in 0..Depth
    BY <1>2
  <2> QED
    BY <1>1, <2>1, <2>2, TagIdAssumption
<1>4. ASSUME x # y, y \in Path(p, x) PROVE IsSubnode(th, x, y)
  <2>0. up = Ups(th, x) /\ up[Depth] = NoTag /\ Depth \in 0..Depth /\ y \in Path(p, x)
    BY <1>1, <1>2, <1>4
  <2> HIDE DEF up
  <2>1. PICK n \in 0..Depth : up[n] = y
    <3>1. ASSUME NEW len \in 0..Depth, up[len] = NoTag
          PROVE  \E n \in 0..Depth : n < len /\ up[n] = y
      BY <2>0, <3>1, UpsAreWhole, SMTT(30)
    <3> QED
      BY <2>0, <3>1
  <2>2. n # 0
    BY <1>1, <1>4, <2>1
  <2>3. n \in 1..Depth
    BY <1>2, <2>2
  <2> QED
    BY <2>1, <2>3 DEF IsSubnode, up
<1> QED
  BY <1>3, <1>4

\* The tags of the path of x, from the root on.
FromRoot(path, p, x) ==
  /\ {path[i] : i \in DOMAIN path} = Path(p, x)
  /\ \A i \in DOMAIN path : p[path[i]] = IF i = 1 THEN NoTag ELSE path[i - 1]

LEMMA GetPathIsPath ==
  ASSUME NEW th, NEW p \in ParentMap, p = th.parentID, NEW T \in SUBSET TagId, NEW root,
         Rooted(p, T, root), NEW x \in T
  PROVE  FromRoot(GetPath(th, x), p, x)
<1> DEFINE path == GetPath(th, x)
           up == Ups(th, x)
           Ends == {k \in 0..Depth : up[k] = NoTag}
           First(k) == up[k] = NoTag /\ \A m \in 0..(k - 1) : up[m] # NoTag
           len == CHOOSE k \in 0..Depth : First(k)
<1>1. /\ up[0] = x
      /\ \A n \in 1..Depth : up[n] = IF up[n - 1] = NoTag THEN NoTag ELSE p[up[n - 1]]
      /\ \A n \in 0..Depth : up[n] \in Path(p, x) \cup {NoTag}
      /\ up[Depth] = NoTag
  BY UpsArePath
<1> HIDE DEF up
<1>2. Depth \in 0..Depth /\ Depth \in Nat
  BY DepthIsNat
<1>3. \E k \in 0..Depth : First(k)
  <2>1. Depth \in Ends /\ Ends \in SUBSET Nat
    BY <1>1, <1>2
  <2>2. PICK k \in Ends : \A m \in Ends : k <= m
    <3> HIDE DEF Ends
    <3> QED
      BY <2>1, LeastNumber
  <2>3. \A m \in 0..(k - 1) : m \in 0..Depth /\ ~(k <= m)
    BY <1>2, <2>2
  <2> QED
    BY <2>2, <2>3
<1>4. len \in 0..Depth /\ First(len)
  <2> HIDE DEF First
  <2> QED
    BY <1>3
<1>5. path = [i \in 1..len |-> up[len - i]]
  BY DEF GetPath, up
<1> HIDE DEF len, path
<1>6. DOMAIN path = 1..len /\ \A i \in 1..len : path[i] = up[len - i] /\ len - i \in 0..(len - 1)
  BY <1>4, <1>5
<1>7. \A i \in 1..len : path[i] \in Path(p, x)
  <2> TAKE i \in 1..len
  <2>1. len - i \in 0..(len - 1) /\ path[i] = up[len - i]
    BY <1>6
  <2>2. len - i \in 0..Depth /\ up[len - i] # NoTag
    BY <1>2, <1>4, <2>1
  <2> QED
    BY <1>1, <2>1, <2>2
<1>8. \A y \in Path(p, x) : \E i \in 1..len : path[i] = y
  <2> TAKE y \in Path(p, x)
  <2>1. PICK n \in 0..Depth : n < len /\ up[n] = y
    <3> HIDE DEF First
    <3>1. up[len] = NoTag /\ up = Ups(th, x) /\ len \in 0..Depth
      BY <1>4 DEF First, up
    <3>2. ASSUME NEW k \in 0..Depth, up[k] = NoTag
          PROVE  \E n \in 0..Depth : n < k /\ up[n] = y
      BY <3>1, <3>2, UpsAreWhole
    <3> QED
      BY <3>1, <3>2
  <2>2. len - n \in 1..len /\ len - (len - n) = n
    BY <1>2, <1>4, <2>1
  <2> QED
    BY <1>6, <2>1, <2>2
<1>9. \A i \in 1..len : p[path[i]] = IF i = 1 THEN NoTag ELSE path[i - 1]
  <2> TAKE i \in 1..len
  <2>1. /\ len - i + 1 \in 1..Depth /\ (len - i + 1) - 1 = len - i
        /\ i = 1 => len - i + 1 = len
        /\ i # 1 => i - 1 \in 1..len /\ len - (i - 1) = len - i + 1
    BY <1>2, <1>4
  <2>2. up[len - i] # NoTag
    BY <1>4, <1>6
  <2>3. up[len - i + 1] = p[path[i]]
    BY <1>1, <1>6, <2>1, <2>2
  <2> QED
    BY <1>4, <1>6, <2>1, <2>3
<1>10. FromRoot(path, p, x)
  BY <1>6, <1>7, <1>8, <1>9 DEF FromRoot
<1> QED
  BY <1>10 DEF path

-----------------------------------------------------------------------------
(* Add *)

\* The tags of S that are nobody's parent in S.
LeafsIn(q, S) == {x \in S : \A y \in S : q[y] # x}

\* The maps of h are those of its part of the tree q.
AgreesWith(h, q) ==
  /\ Closed(q, h.ids)
  /\ \A x \in h.ids : h.parentID[x] = q[x] /\ h.childrenIDs[x] = {y \in h.ids : q[y] = x}
  /\ h.leafs = LeafsIn(q, h.ids)
  /\ h.roots = {x \in h.ids : q[x] = NoTag}

\* The calls of addInternal for the tag id, in the tree p: the items so far are those of
\* h and a part of the path of id, each with its parent or with the parent to come; the
\* new ones are open until they are linked, and the parent to come is no leaf.
AddCall == [th : Hier, id : TagId \cup {NoTag}, isLeaf : BOOLEAN, open : SUBSET TagId]
Adding(c, h, id, p) ==
  /\ h.ids \subseteq c.th.ids /\ c.th.ids \subseteq h.ids \cup Path(p, id)
  /\ c.id = NoTag \/ c.id \in Path(p, id)
  /\ c.id = id \/ id \in c.th.ids
  /\ \A x \in c.th.ids : /\ p[x] \in c.th.ids \cup {NoTag, c.id}
                         /\ c.th.parentID[x] = p[x]
                         /\ c.th.childrenIDs[x] = {y \in h.ids : p[y] = x}
  /\ c.open = {x \in c.th.ids \ h.ids : p[x] # NoTag}
  /\ c.th.roots = {x \in c.th.ids : p[x] = NoTag}
  /\ c.th.leafs \subseteq c.th.ids
  /\ LeafsIn(p, c.th.ids) = IF c.isLeaf THEN c.th.leafs ELSE c.th.leafs \ {c.id}
  /\ IF c.isLeaf THEN c.id = id /\ c.th.ids = h.ids
     ELSE c.id = NoTag \/ \E y \in c.th.ids : p[y] = c.id

AddDone(c) == c.id = NoTag \/ c.id \in c.th.ids

LEMMA AddItemFields ==
  ASSUME registry \in ParentMap, NEW c \in AddCall, ~AddDone(c), NEW d, d = AddItem(c)
  PROVE  /\ d \in AddCall /\ c.id \in TagId
         /\ d.th.ids = c.th.ids \cup {c.id}
         /\ d.th.parentID = [c.th.parentID EXCEPT ![c.id] = registry[c.id]]
         /\ d.th.childrenIDs = [c.th.childrenIDs EXCEPT ![c.id] = {}]
         /\ d.th.leafs = IF c.isLeaf THEN c.th.leafs \cup {c.id} ELSE c.th.leafs
         /\ d.th.roots = IF registry[c.id] = NoTag THEN c.th.roots \cup {c.id} ELSE c.th.roots
         /\ d.id = registry[c.id] /\ d.isLeaf = FALSE
         /\ d.open = IF registry[c.id] = NoTag THEN c.open ELSE c.open \cup {c.id}
<1> DEFINE par == registry[c.id]
           t == [c.th EXCEPT !.ids = @ \cup {c.id},
                             !.parentID[c.id] = par,
                             !.childrenIDs[c.id] = {},
                             !.leafs = IF c.isLeaf THEN @ \cup {c.id} ELSE @,
                             !.roots = IF par = NoTag THEN @ \cup {c.id} ELSE @]
<1>1. c.id \in TagId /\ c.th \in Hier /\ c.isLeaf \in BOOLEAN /\ c.open \in SUBSET TagId
  BY DEF AddCall, AddDone
<1>2. par \in TagId \cup {NoTag}
  BY <1>1 DEF ParentMap
<1>3. d = [th |-> t, id |-> par, isLeaf |-> FALSE,
           open |-> IF par = NoTag THEN c.open ELSE c.open \cup {c.id}]
  BY DEF AddItem, AddDone
<1> HIDE DEF par
<1>4. /\ t \in Hier
      /\ t.ids = c.th.ids \cup {c.id}
      /\ t.parentID = [c.th.parentID EXCEPT ![c.id] = par]
      /\ t.childrenIDs = [c.th.childrenIDs EXCEPT ![c.id] = {}]
      /\ t.leafs = IF c.isLeaf THEN c.th.leafs \cup {c.id} ELSE c.th.leafs
      /\ t.roots = IF par = NoTag THEN c.th.roots \cup {c.id} ELSE c.th.roots
  BY <1>1, <1>2 DEF Hier, ParentMap
<1> HIDE DEF t
<1>5. d \in AddCall
  BY <1>1, <1>2, <1>3, <1>4 DEF AddCall
<1> QED
  BY <1>1, <1>3, <1>4, <1>5 DEF par

LEMMA AddItemKeeps ==
  ASSUME registry \in ParentMap, NEW root, Rooted(registry, TagId, root),
         NEW h \in Hier, AgreesWith(h, registry), NEW id \in TagId,
         NEW c \in AddCall, Adding(c, h, id, registry), ~AddDone(c), NEW d, d = AddItem(c)
  PROVE  Adding(d, h, id, registry)
<1> DEFINE p == registry
           x0 == c.id
           par == registry[c.id]
           old == c.th.ids
           new == d.th.ids
<1>1. /\ d \in AddCall /\ x0 \in TagId
      /\ new = old \cup {x0}
      /\ d.th.parentID = [c.th.parentID EXCEPT ![x0] = par]
      /\ d.th.childrenIDs = [c.th.childrenIDs EXCEPT ![x0] = {}]
      /\ d.th.leafs = IF c.isLeaf THEN c.th.leafs \cup {x0} ELSE c.th.leafs
      /\ d.th.roots = IF par = NoTag THEN c.th.roots \cup {x0} ELSE c.th.roots
      /\ d.id = par /\ d.isLeaf = FALSE
      /\ d.open = IF par = NoTag THEN c.open ELSE c.open \cup {x0}
  BY AddItemFields
<1>2. x0 \notin old /\ x0 \in Path(p, id) /\ x0 # NoTag
  BY DEF Adding, AddDone
<1>3. /\ h.ids \subseteq old /\ old \subseteq h.ids \cup Path(p, id)
      /\ x0 = id \/ id \in old
      /\ \A x \in old : /\ p[x] \in old \cup {NoTag, x0}
                        /\ c.th.parentID[x] = p[x]
                        /\ c.th.childrenIDs[x] = {y \in h.ids : p[y] = x}
      /\ c.open = {x \in old \ h.ids : p[x] # NoTag}
      /\ c.th.roots = {x \in old : p[x] = NoTag}
      /\ c.th.leafs \subseteq old
      /\ LeafsIn(p, old) = IF c.isLeaf THEN c.th.leafs ELSE c.th.leafs \ {x0}
      /\ IF c.isLeaf THEN x0 = id /\ old = h.ids ELSE x0 = NoTag \/ \E y \in old : p[y] = x0
  BY DEF Adding
<1>4. c.th \in Hier /\ old \subseteq TagId /\ c.th.parentID \in ParentMap
      /\ c.th.childrenIDs \in [TagId -> SUBSET TagId] /\ c.isLeaf \in BOOLEAN
  BY DEF AddCall, Hier
<1>5. Closed(p, h.ids) /\ h.ids \subseteq TagId
  BY DEF AgreesWith, Hier
<1>6. par \in TagId \cup {NoTag} /\ par # x0
  <2>1. par \in TagId \cup {NoTag}
    BY <1>1 DEF ParentMap
  <2>2. ASSUME par = x0 PROVE FALSE
    <3>1. x0 # root
      BY <2>2, <1>2 DEF Rooted
    <3> QED
      BY <1>1, <2>2, <3>1, Acyclic, PathClosed
  <2> QED
    BY <2>1, <2>2
<1>7. par = NoTag \/ par \in Path(p, id)
  BY <1>2, PathClosed DEF Closed
<1> HIDE DEF p, x0, par, old, new
<1>8. h.ids \subseteq new /\ new \subseteq h.ids \cup Path(p, id) /\ id \in new
  BY <1>1, <1>2, <1>3
<1>9. \A x \in new : /\ p[x] \in new \cup {NoTag, par}
                     /\ d.th.parentID[x] = p[x]
                     /\ d.th.childrenIDs[x] = {y \in h.ids : p[y] = x}
  <2> TAKE x \in new
  <2>1. CASE x = x0
    <3>1. p[x0] = par
      BY DEF p, x0, par
    <3>2. {y \in h.ids : p[y] = x0} = {}
      BY <1>2, <1>3, <1>5 DEF Closed
    <3>3. d.th.parentID[x0] = par /\ d.th.childrenIDs[x0] = {}
      BY <1>1, <1>4 DEF ParentMap
    <3> QED
      BY <2>1, <3>1, <3>2, <3>3
  <2>2. CASE x # x0
    <3>1. x \in old /\ x \in TagId
      BY <1>1, <1>4, <2>2
    <3>2. d.th.parentID[x] = c.th.parentID[x] /\ d.th.childrenIDs[x] = c.th.childrenIDs[x]
      BY <1>1, <1>4, <2>2, <3>1 DEF ParentMap
    <3> QED
      BY <1>1, <1>3, <3>1, <3>2
  <2> QED
    BY <2>1, <2>2
<1>10. p[x0] = par
  BY DEF p, x0, par
<1>11. /\ d.open = {x \in new \ h.ids : p[x] # NoTag}
       /\ d.th.roots = {x \in new : p[x] = NoTag}
  <2>1. x0 \notin h.ids
    BY <1>2, <1>3
  <2>2. CASE par = NoTag
    BY <1>1, <1>3, <1>10, <2>1, <2>2
  <2>3. CASE par # NoTag
    BY <1>1, <1>3, <1>10, <2>1, <2>3
  <2> QED
    BY <2>2, <2>3
<1>12. d.th.leafs \subseteq new /\ LeafsIn(p, new) = d.th.leafs \ {par}
  <2>1. CASE c.isLeaf
    <3>1. old = h.ids /\ d.th.leafs = LeafsIn(p, old) \cup {x0}
      BY <1>1, <1>3, <2>1
    <3>2. \A y \in new : p[y] # x0
      BY <1>1, <1>2, <1>5, <1>6, <1>10, <3>1 DEF Closed
    <3>3. LeafsIn(p, new) = (LeafsIn(p, old) \cup {x0}) \ {par}
      BY <1>1, <1>2, <1>6, <1>10, <3>2 DEF LeafsIn
    <3> QED
      BY <1>1, <3>1, <3>3 DEF LeafsIn
  <2>2. CASE ~c.isLeaf
    <3>1. PICK y0 \in old : p[y0] = x0
      BY <1>2, <1>3, <2>2
    <3>2. LeafsIn(p, old) = c.th.leafs \ {x0} /\ d.th.leafs = c.th.leafs
      BY <1>1, <1>3, <2>2
    <3>3. LeafsIn(p, old) = c.th.leafs
      <4>1. x0 \notin c.th.leafs
        BY <1>2, <1>3
      <4> QED
        BY <3>2, <4>1
    <3>4. LeafsIn(p, new) = LeafsIn(p, old) \ {par}
      BY <1>1, <1>2, <1>6, <1>10, <3>1 DEF LeafsIn
    <3> QED
      BY <1>1, <1>3, <3>2, <3>3, <3>4
  <2> QED
    BY <2>1, <2>2
<1>13. \E y \in new : p[y] = par
  BY <1>1, <1>10
<1>14. /\ d.id = par /\ d.isLeaf = FALSE /\ d.th.ids = new
  BY <1>1 DEF new
<1> QED
  BY <1>7, <1>8, <1>9, <1>11, <1>12, <1>13, <1>14 DEF Adding, p

LEMMA AddLinksFields ==
  ASSUME registry \in ParentMap, NEW c \in AddCall, NEW h, h = AddLinks(c)
  PROVE  /\ h \in Hier
         /\ h.ids = c.th.ids /\ h.parentID = c.th.parentID /\ h.roots = c.th.roots
         /\ h.leafs = IF c.isLeaf THEN c.th.leafs ELSE c.th.leafs \ {c.id}
         /\ \A x \in TagId : h.childrenIDs[x] = c.th.childrenIDs[x] \cup {y \in c.open : registry[y] = x}
<1>1. c.th \in Hier /\ c.isLeaf \in BOOLEAN /\ c.open \in SUBSET TagId
  BY DEF AddCall
<1> DEFINE L == IF c.isLeaf THEN c.th.leafs ELSE c.th.leafs \ {c.id}
           C == [x \in TagId |-> c.th.childrenIDs[x] \cup {y \in c.open : registry[y] = x}]
<1>2. L \in SUBSET TagId /\ C \in [TagId -> SUBSET TagId]
  BY <1>1 DEF Hier
<1>3. h = [c.th EXCEPT !.leafs = L, !.childrenIDs = C]
  BY DEF AddLinks
<1>4. \A x \in TagId : C[x] = c.th.childrenIDs[x] \cup {y \in c.open : registry[y] = x}
  OBVIOUS
<1> HIDE DEF L, C
<1>5. /\ h \in Hier
      /\ h.ids = c.th.ids /\ h.parentID = c.th.parentID /\ h.roots = c.th.roots
      /\ h.leafs = L /\ h.childrenIDs = C
  BY <1>1, <1>2, <1>3 DEF Hier
<1> QED
  BY <1>4, <1>5 DEF L

\* Add leaves the tags of h and the path of id, and the maps agree again.
LEMMA AddAddsPath ==
  ASSUME registry \in ParentMap, NEW root, Rooted(registry, TagId, root),
         NEW h \in Hier, AgreesWith(h, registry), NEW id \in TagId,
         NEW e, e = AddInternal(h, id, TRUE)
  PROVE  /\ e \in Hier /\ AgreesWith(e, registry)
         /\ e.ids = h.ids \cup Path(registry, id)
<1> DEFINE S == {c \in AddCall : Adding(c, h, id, registry)}
           F == [c \in S |-> AddItem(c)]
           s0 == [th |-> h, id |-> id, isLeaf |-> TRUE, open |-> {}]
           M == [c \in S |-> Cardinality(TagId \ c.th.ids)]
           Done == {c \in S : AddDone(c)}
           Is(f) == f = [n \in 0..Depth |-> IF n = 0 THEN s0 ELSE AddItem(f[n - 1])]
<1>0. id \in Path(registry, id)
  BY PathClosed
<1>1. s0 \in S
  <2>1. s0 \in AddCall
    BY DEF AddCall
  <2>2. Adding(s0, h, id, registry)
    <3>1. h.leafs \subseteq h.ids
      BY DEF AgreesWith, LeafsIn
    <3> QED
      BY <1>0, <3>1 DEF Adding, AgreesWith, Closed
  <2> QED
    BY <2>1, <2>2
<1>2. \A c \in S : /\ AddDone(c) => AddItem(c) = c
                   /\ ~AddDone(c) => /\ AddItem(c) \in S
                                     /\ Cardinality(TagId \ AddItem(c).th.ids)
                                          < Cardinality(TagId \ c.th.ids)
  <2> TAKE c \in S
  <2>1. AddDone(c) => AddItem(c) = c
    BY DEF AddDone, AddItem
  <2>2. ASSUME ~AddDone(c)
        PROVE  /\ AddItem(c) \in S
               /\ Cardinality(TagId \ AddItem(c).th.ids) < Cardinality(TagId \ c.th.ids)
    <3>1. AddItem(c) \in AddCall /\ AddItem(c).th.ids = c.th.ids \cup {c.id} /\ c.id \in TagId
      BY <2>2, AddItemFields
    <3>2. Adding(AddItem(c), h, id, registry)
      BY <2>2, AddItemKeeps
    <3>3. c.id \in TagId \ c.th.ids /\ TagId \ c.th.ids \in SUBSET TagId
          /\ TagId \ AddItem(c).th.ids = (TagId \ c.th.ids) \ {c.id}
      BY <2>2, <3>1 DEF AddDone
    <3>4. Cardinality((TagId \ c.th.ids) \ {c.id}) < Cardinality(TagId \ c.th.ids)
      BY <3>3, TagsLeft
    <3> QED
      BY <3>1, <3>2, <3>3, <3>4
  <2> QED
    BY <2>1, <2>2
<1>3. F \in [S -> S] /\ \A c \in S : F[c] = AddItem(c)
  <2> HIDE DEF S
  <2> QED
    BY <1>2
<1>4. /\ Depth \in Nat
      /\ \A c \in S : M[c] = Cardinality(TagId \ c.th.ids) /\ M[c] \in Nat /\ M[c] <= Depth
      /\ M \in [S -> Nat]
  <2>1. \A c \in S : /\ Cardinality(TagId \ c.th.ids) \in Nat
                     /\ Cardinality(TagId \ c.th.ids) + 1 <= Depth
    <3> TAKE c \in S
    <3>1. TagId \ c.th.ids \in SUBSET TagId
      OBVIOUS
    <3> QED
      BY ONLY <3>1, TagsLeft
  <2> HIDE DEF S
  <2> QED
    BY <2>1, DepthIsNat
<1>5. \A c \in S : M[c] = 0 => c \in Done
  <2> TAKE c \in S
  <2> HAVE M[c] = 0
  <2>1. Cardinality(TagId \ c.th.ids) = 0 /\ IsFiniteSet(TagId \ c.th.ids)
    BY <1>4, FS_Subset, TagIdAssumption
  <2>2. TagId \ c.th.ids = {}
    BY <2>1, FS_EmptySet
  <2>3. c.id \in TagId \cup {NoTag}
    BY DEF AddCall
  <2> QED
    BY <2>2, <2>3 DEF AddDone
<1> DEFINE calls == CHOOSE f : Is(f)
<1>6. Is(calls)
  <2>1. PICK f \in [0..Depth -> S] : Turns(f, F, s0, Depth)
    <3> HIDE DEF S, F, s0
    <3> QED
      BY <1>1, <1>3, <1>4, TurnsExist
  <2>2. \A n \in 0..Depth : n # 0 => f[n - 1] \in S
    <3>1. \A n \in 0..Depth : n # 0 => n - 1 \in 0..Depth
      BY <1>4
    <3> HIDE DEF S
    <3> QED
      BY <2>1, <3>1
  <2>3. Is(f)
    <3> HIDE DEF S, F, s0
    <3> QED
      BY <1>3, <2>1, <2>2 DEF Turns
  <2> HIDE DEF Is
  <2> QED
    BY <2>3
<1>7. e = AddLinks(calls[Depth])
  BY DEF AddInternal
<1>8. calls[0] = s0 /\ \A n \in 1..Depth : calls[n] = AddItem(calls[n - 1])
  <2>1. 0 \in 0..Depth /\ \A n \in 1..Depth : n \in 0..Depth /\ n # 0
    BY <1>4
  <2> HIDE DEF calls, s0
  <2> QED
    BY <1>6, <2>1
<1> HIDE DEF calls, Is
<1>9. calls[Depth] \in S /\ calls[Depth] \in Done
  <2>1. /\ calls[0] \in S /\ M[calls[0]] <= Depth
        /\ \A n \in 1..Depth : calls[n - 1] \in S => calls[n] \in S
        /\ \A n \in 1..Depth : calls[n - 1] \in S =>
            IF calls[n - 1] \in Done THEN calls[n] \in Done
            ELSE calls[n] \in Done \/ M[calls[n]] < M[calls[n - 1]]
    <3>1. \A c \in S : c \in Done <=> AddDone(c)
      OBVIOUS
    <3> HIDE DEF S, M, Done, F, s0
    <3>2. \A c \in S : IF c \in Done THEN AddItem(c) = c
                       ELSE AddItem(c) \in S /\ M[AddItem(c)] < M[c]
      BY <1>2, <1>4, <3>1
    <3>3. calls[0] \in S /\ M[calls[0]] <= Depth
      BY <1>1, <1>4, <1>8
    <3>4. ASSUME NEW n \in 1..Depth, calls[n - 1] \in S
          PROVE  /\ calls[n] \in S
                 /\ IF calls[n - 1] \in Done THEN calls[n] \in Done
                    ELSE calls[n] \in Done \/ M[calls[n]] < M[calls[n - 1]]
      <4>1. calls[n] = AddItem(calls[n - 1])
        BY <1>8
      <4> QED
        BY <3>2, <3>4, <4>1
    <3> QED
      BY <3>3, <3>4
  <2> HIDE DEF S, M, Done
  <2> QED
    BY ONLY <2>1, <1>4, <1>5, LoopEnds, ZenonT(30)
<1> DEFINE c == calls[Depth]
           p == registry
           ids == c.th.ids
<1>10. c \in AddCall /\ Adding(c, h, id, p) /\ AddDone(c)
  BY <1>9
<1> HIDE DEF c, S, M, Done, F, s0
<1>11. /\ e \in Hier
       /\ e.ids = ids /\ e.parentID = c.th.parentID /\ e.roots = c.th.roots
       /\ e.leafs = IF c.isLeaf THEN c.th.leafs ELSE c.th.leafs \ {c.id}
       /\ \A x \in TagId : e.childrenIDs[x] = c.th.childrenIDs[x] \cup {y \in c.open : p[y] = x}
  BY <1>7, <1>10, AddLinksFields, ZenonT(30) DEF c
<1>12. /\ h.ids \subseteq ids /\ ids \subseteq h.ids \cup Path(p, id) /\ id \in ids
       /\ \A x \in ids : /\ p[x] \in ids \cup {NoTag}
                         /\ c.th.parentID[x] = p[x]
                         /\ c.th.childrenIDs[x] = {y \in h.ids : p[y] = x}
       /\ c.open = {x \in ids \ h.ids : p[x] # NoTag}
       /\ c.th.roots = {x \in ids : p[x] = NoTag}
       /\ e.leafs = LeafsIn(p, ids)
  <2>1. /\ h.ids \subseteq ids /\ ids \subseteq h.ids \cup Path(p, id)
        /\ \A x \in ids : /\ p[x] \in ids \cup {NoTag, c.id}
                          /\ c.th.parentID[x] = p[x]
                          /\ c.th.childrenIDs[x] = {y \in h.ids : p[y] = x}
        /\ c.open = {x \in ids \ h.ids : p[x] # NoTag}
        /\ c.th.roots = {x \in ids : p[x] = NoTag}
        /\ LeafsIn(p, ids) = IF c.isLeaf THEN c.th.leafs ELSE c.th.leafs \ {c.id}
    BY <1>10 DEF Adding
  <2>2. c.id = NoTag \/ c.id \in ids
    BY <1>10 DEF AddDone
  <2>3. c.id = id \/ id \in ids
    BY <1>10 DEF Adding
  <2>4. id # NoTag
    BY TagIdAssumption
  <2> HIDE DEF ids, p
  <2>5. e.leafs = LeafsIn(p, ids)
    BY <1>11, <2>1
  <2>6. \A x \in ids : p[x] \in ids \cup {NoTag}
    BY <2>1, <2>2
  <2>7. id \in ids
    BY <2>2, <2>3, <2>4
  <2> QED
    BY <2>1, <2>5, <2>6, <2>7
<1>13. Closed(p, ids) /\ ids \in SUBSET TagId
  BY <1>11, <1>12 DEF Closed, Hier
<1>14. Path(p, id) \subseteq ids
  BY <1>12, <1>13, PathLeast
<1>15. \A x \in ids : e.childrenIDs[x] = {y \in ids : p[y] = x}
  <2> TAKE x \in ids
  <2>1. x \in TagId /\ x # NoTag
    BY <1>13, TagIdAssumption
  <2> HIDE DEF ids, p
  <2>2. e.childrenIDs[x] = c.th.childrenIDs[x] \cup {y \in c.open : p[y] = x}
    BY <1>11, <2>1
  <2>3. c.th.childrenIDs[x] = {y \in h.ids : p[y] = x} /\ h.ids \subseteq ids
        /\ c.open = {y \in ids \ h.ids : p[y] # NoTag}
    BY <1>12
  <2> QED
    BY ONLY <2>1, <2>2, <2>3
<1>16. e.ids = h.ids \cup Path(p, id)
  BY <1>11, <1>12, <1>14
<1>17. AgreesWith(e, p)
  <2>1. e.ids = ids
    BY <1>11
  <2>2. \A x \in e.ids : e.parentID[x] = p[x] /\ e.childrenIDs[x] = {y \in e.ids : p[y] = x}
    <3>1. e.parentID = c.th.parentID /\ \A x \in ids : c.th.parentID[x] = p[x]
      BY <1>11, <1>12
    <3> HIDE DEF ids, p
    <3> QED
      BY <1>15, <2>1, <3>1
  <2>3. e.roots = {x \in e.ids : p[x] = NoTag} /\ e.leafs = LeafsIn(p, e.ids)
        /\ Closed(p, e.ids)
    BY <1>11, <1>12, <1>13, <2>1
  <2> HIDE DEF ids, p
  <2> QED
    BY <2>2, <2>3 DEF AgreesWith
<1> QED
  BY <1>11, <1>16, <1>17

-----------------------------------------------------------------------------
(* Move *)

\* In the tree p with the hierarchy h, id can move under np.
CanGo(p, h, id, np, root) ==
  /\ p \in ParentMap /\ Rooted(p, TagId, root)
  /\ h \in Hier /\ AgreesWith(h, p)
  /\ id \in h.ids /\ np \in h.ids /\ id \notin Path(p, np)

\* The children of x while id is linked to its old and to its new parent.
LinkedKids(p, H, id, np, x) == {y \in H : p[y] = x \/ (y = id /\ x = np)}

\* Childless of TagTree's NewLeafs.
Bare(p, H, id, np, y) == \A e \in LinksAfterMove(p, H, id, np) : e[1] = y => e[2] \in Path(p, p[id])

\* The calls of removeChild: they go up the old path; the open ones are its lower end,
\* whose tags have no child but the one below; nothing else has changed but the last link.
TakeCall == [th : Hier, par : TagId \cup {NoTag}, child : TagId, remove : BOOLEAN,
             open : SUBSET TagId, ended : BOOLEAN, nil : BOOLEAN]
TakingUp(c, h, id, np, p) ==
  /\ c.par = NoTag \/ c.par \in Path(p, p[id])
  /\ \/ c.child = id /\ c.par = p[id] /\ c.open = {}
     \/ c.child \in c.open /\ c.par = p[c.child] /\ p[id] \in c.open
  /\ c.open \subseteq Path(p, p[id])
  /\ \A x \in Path(p, p[id]) : x \in c.open <=> (c.par = NoTag \/ x \notin Path(p, c.par))
  /\ \A y \in c.open : /\ y = c.child \/ p[y] \in c.open
                       /\ \E z \in c.open \cup {id} : p[z] = y
                       /\ Bare(p, h.ids, id, np, y)
TakingMaps(c, h, id, np, p) ==
  /\ c.th.ids = h.ids /\ c.th.parentID = [h.parentID EXCEPT ![id] = np] /\ c.th.roots = h.roots
  /\ c.nil => c.ended /\ c.par = NoTag
  /\ ~c.nil => \A x \in h.ids : c.th.childrenIDs[x] =
                 IF x \in c.open THEN {}
                 ELSE LinkedKids(p, h.ids, id, np, x)
                        \ (IF c.ended /\ x = c.par THEN {c.child} ELSE {})
  /\ c.ended /\ ~c.nil => c.par # NoTag
  /\ c.ended /\ ~c.nil /\ c.remove => ~Bare(p, h.ids, id, np, c.par)
  /\ ~c.remove => c.open = {}
  /\ c.th.leafs = IF c.ended /\ ~c.nil /\ Bare(p, h.ids, id, np, c.par) THEN h.leafs \cup {c.par}
                  ELSE h.leafs
Taking(c, h, id, np, p) == TakingUp(c, h, id, np, p) /\ TakingMaps(c, h, id, np, p)

LEMMA OldPath ==
  ASSUME NEW p, NEW h, NEW id, NEW np, NEW root, CanGo(p, h, id, np, root)
  PROVE  /\ h.ids \in SUBSET TagId /\ id \in TagId /\ np \in TagId
         /\ Closed(p, h.ids) /\ id # root
         /\ p[id] \in h.ids /\ p[id] \in TagId /\ p[id] # NoTag
         /\ id \notin Path(p, p[id])
         /\ Path(p, p[id]) \subseteq h.ids /\ p[id] \in Path(p, p[id])
         /\ \A x \in Path(p, p[id]) :
              /\ p[x] = NoTag \/ p[x] \in Path(p, p[id])
              /\ Path(p, x) \subseteq Path(p, p[id]) /\ x \in Path(p, x) /\ root \in Path(p, x)
              /\ p[x] # NoTag => x \notin Path(p, p[x]) /\ Path(p, x) = {x} \cup Path(p, p[x])
              /\ p[x] = NoTag => Path(p, x) = {x} /\ x = root
<1>1. /\ p \in ParentMap /\ Rooted(p, TagId, root) /\ h.ids \in SUBSET TagId /\ Closed(p, h.ids)
      /\ id \in TagId /\ np \in TagId /\ id \notin Path(p, np) /\ id \in h.ids
  BY DEF CanGo, AgreesWith, Hier
<1>2. id # root /\ p[id] \in TagId /\ id \notin Path(p, p[id])
  BY <1>1, MovedTagStays
<1>3. p[id] # NoTag /\ p[id] \in h.ids
  BY <1>1, <1>2, TagIdAssumption DEF Closed
<1>4. Path(p, p[id]) \subseteq h.ids /\ p[id] \in Path(p, p[id]) /\ Closed(p, Path(p, p[id]))
  BY <1>1, <1>2, <1>3, PathLeast, PathClosed
<1>5. ASSUME NEW x \in Path(p, p[id])
      PROVE  /\ p[x] = NoTag \/ p[x] \in Path(p, p[id])
             /\ Path(p, x) \subseteq Path(p, p[id]) /\ x \in Path(p, x) /\ root \in Path(p, x)
             /\ p[x] # NoTag => x \notin Path(p, p[x]) /\ Path(p, x) = {x} \cup Path(p, p[x])
             /\ p[x] = NoTag => Path(p, x) = {x} /\ x = root
  <2>1. x \in TagId
    BY <1>1, <1>4
  <2>2. p[x] = NoTag \/ p[x] \in Path(p, p[id])
    BY <1>4 DEF Closed
  <2>3. Path(p, x) \subseteq Path(p, p[id]) /\ x \in Path(p, x)
    BY <1>1, <1>2, <2>1, PathOfAncestor, PathClosed
  <2>4. root \in Path(p, x)
    BY <1>1, <2>1, RootOnPath
  <2>5. p[x] # NoTag => x # root
    BY <1>1 DEF Rooted
  <2>6. p[x] # NoTag => x \notin Path(p, p[x])
    BY <1>1, <2>1, <2>5, Acyclic
  <2>7. /\ p[x] = NoTag => Path(p, x) = {x}
        /\ p[x] # NoTag => Path(p, x) = {x} \cup Path(p, p[x])
    BY <1>1, <2>1, PathSplit
  <2> QED
    BY <2>2, <2>3, <2>4, <2>6, <2>7
<1> QED
  BY <1>1, <1>2, <1>3, <1>4, <1>5

\* Without the links: what is asked of a tag on the old path to be bare.
LEMMA BareMeans ==
  ASSUME NEW p, NEW h, NEW id, NEW np, NEW root, CanGo(p, h, id, np, root), NEW y \in TagId
  PROVE  Bare(p, h.ids, id, np, y) <=>
           /\ \A z \in h.ids \ {id} : p[z] = y => z \in Path(p, p[id])
           /\ y = np => np = p[id]
<1> DEFINE L == LinksAfterMove(p, h.ids, id, np)
<1>1. \A z \in h.ids \ {id} : <<p[z], z>> \in L
  BY DEF LinksAfterMove
<1>2. np # p[id] => <<np, id>> \in L
  BY DEF LinksAfterMove
<1>3. \A e \in L : (\E z \in h.ids \ {id} : e = <<p[z], z>>) \/ (e = <<np, id>> /\ np # p[id])
  BY DEF LinksAfterMove
<1>4. id \notin Path(p, p[id])
  BY OldPath
<1> HIDE DEF L
<1>5. ASSUME Bare(p, h.ids, id, np, y)
      PROVE  /\ \A z \in h.ids \ {id} : p[z] = y => z \in Path(p, p[id])
             /\ y = np => np = p[id]
  <2>1. \A e \in L : e[1] = y => e[2] \in Path(p, p[id])
    BY <1>5 DEF Bare, L
  <2>2. ASSUME NEW z \in h.ids \ {id}, p[z] = y PROVE z \in Path(p, p[id])
    <3>1. <<p[z], z>> \in L /\ <<p[z], z>>[1] = y /\ <<p[z], z>>[2] = z
      BY <1>1, <2>2
    <3> QED
      BY <2>1, <3>1
  <2>3. ASSUME y = np, np # p[id] PROVE FALSE
    <3>1. <<np, id>> \in L /\ <<np, id>>[1] = y /\ <<np, id>>[2] = id
      BY <1>2, <2>3
    <3> QED
      BY <1>4, <2>1, <3>1
  <2> QED
    BY <2>2, <2>3
<1>6. ASSUME \A z \in h.ids \ {id} : p[z] = y => z \in Path(p, p[id]),
             y = np => np = p[id]
      PROVE  Bare(p, h.ids, id, np, y)
  <2> SUFFICES ASSUME NEW e \in L, e[1] = y PROVE e[2] \in Path(p, p[id])
    BY DEF Bare, L
  <2>1. CASE \E z \in h.ids \ {id} : e = <<p[z], z>>
    BY <1>6, <2>1
  <2>2. CASE e = <<np, id>> /\ np # p[id]
    BY <1>6, <2>2
  <2> QED
    BY <1>3, <2>1, <2>2
<1> QED
  BY <1>5, <1>6

\* The tag a call looks at has no child left, once the link is cut, if and only if it is bare.
LEMMA CutIsBare ==
  ASSUME NEW p, NEW h, NEW id, NEW np, NEW root, CanGo(p, h, id, np, root),
         NEW c \in TakeCall, TakingUp(c, h, id, np, p), c.par # NoTag
  PROVE  LinkedKids(p, h.ids, id, np, c.par) \ {c.child} = {} <=> Bare(p, h.ids, id, np, c.par)
<1> DEFINE chain == Path(p, p[id])
           par == c.par
           K == LinkedKids(p, h.ids, id, np, par)
<1>1. /\ h.ids \in SUBSET TagId /\ id \notin chain /\ chain \subseteq h.ids /\ id \in h.ids
      /\ p[id] \in TagId
      /\ \A x \in chain : /\ x \in Path(p, x)
                          /\ p[x] # NoTag => x \notin Path(p, p[x])
  BY OldPath DEF CanGo
<1>2. /\ par \in chain /\ par \in TagId
      /\ \/ c.child = id /\ par = p[id] /\ c.open = {}
         \/ c.child \in c.open /\ par = p[c.child] /\ p[id] \in c.open
      /\ c.open \subseteq chain
      /\ \A x \in chain : x \in c.open <=> x \notin Path(p, par)
      /\ \A y \in c.open : y = c.child \/ p[y] \in c.open
  BY <1>1 DEF TakingUp
<1>3. Bare(p, h.ids, id, np, par) <=>
        /\ \A z \in h.ids \ {id} : p[z] = par => z \in chain
        /\ par = np => np = p[id]
  BY <1>2, BareMeans
<1> HIDE DEF chain, par
<1>4. par # NoTag /\ par \notin c.open
  BY <1>1, <1>2 DEF par
<1>5. \A z \in chain : p[z] = par => z = c.child
  <2> SUFFICES ASSUME NEW z \in chain, p[z] = par, z # c.child PROVE FALSE
    OBVIOUS
  <2>1. z \notin c.open
    BY <1>2, <1>4
  <2>2. z \in Path(p, par)
    BY <1>2, <2>1
  <2> QED
    BY <1>1, <1>4, <2>2
<1>6. CASE c.child = id /\ par = p[id]
  <2>1. K \ {c.child} = {z \in h.ids \ {id} : p[z] = par}
    BY <1>6 DEF LinkedKids
  <2>2. \A z \in chain : p[z] # par
    BY <1>1, <1>5, <1>6
  <2> QED
    BY <1>3, <1>6, <2>1, <2>2 DEF par
<1>7. CASE c.child \in c.open /\ par = p[c.child] /\ p[id] \in c.open
  <2>1. par # p[id]
    BY <1>4, <1>7
  <2>2. c.child \in chain /\ c.child # id /\ c.child \in h.ids
    BY <1>1, <1>2, <1>7
  <2>3. \A z \in h.ids : z \in K <=> (p[z] = par \/ (z = id /\ par = np))
    BY DEF LinkedKids
  <2>4. K \subseteq h.ids
    BY DEF LinkedKids
  <2> HIDE DEF K
  <2>5. K \ {c.child} = {} <=>
          /\ \A z \in h.ids \ {id} : p[z] = par => z \in chain
          /\ par = np => np = p[id]
    BY <1>1, <1>5, <1>7, <2>1, <2>2, <2>3, <2>4
  <2> QED
    BY <1>3, <2>5 DEF K, par
<1> QED
  BY <1>2, <1>6, <1>7

\* The calls of removeChild that hold what is said above, and their number.
TakingCalls(h, id, np, p, remove) ==
  {c \in TakeCall : Taking(c, h, id, np, p) /\ c.remove = remove}
CallsLeft(c) == Cardinality(TagId \ c.open) + (IF c.ended THEN 0 ELSE 1)

LEMMA TakeChildKeeps ==
  ASSUME NEW p, NEW h, NEW id, NEW np, NEW root, CanGo(p, h, id, np, root), NEW remove,
         NEW c \in TakingCalls(h, id, np, p, remove), ~c.ended, NEW d, d = TakeChild(c)
  PROVE  d \in TakingCalls(h, id, np, p, remove) /\ CallsLeft(d) < CallsLeft(c)
<1> DEFINE chain == Path(p, p[id])
           par == c.par
           H == h.ids
           Kids0(x) == LinkedKids(p, H, id, np, x)
           cut == [c.th EXCEPT !.childrenIDs[c.par] = @ \ {c.child}]
<1>1. /\ c \in TakeCall /\ TakingUp(c, h, id, np, p) /\ TakingMaps(c, h, id, np, p)
      /\ c.remove = remove
  BY DEF TakingCalls, Taking
<1>2. /\ c.th \in Hier /\ c.par \in TagId \cup {NoTag} /\ c.child \in TagId /\ c.remove \in BOOLEAN
      /\ c.open \in SUBSET TagId /\ c.ended = FALSE /\ c.nil \in BOOLEAN
      /\ c = [th |-> c.th, par |-> c.par, child |-> c.child, remove |-> c.remove,
              open |-> c.open, ended |-> c.ended, nil |-> c.nil]
  BY <1>1 DEF TakeCall
<1>3. c.nil = FALSE
  BY <1>1, <1>2 DEF TakingMaps
<1>4. /\ H \in SUBSET TagId /\ id \in TagId /\ id \notin chain /\ chain \subseteq H /\ p[id] \in TagId
      /\ \A x \in chain :
              /\ p[x] = NoTag \/ p[x] \in chain
              /\ Path(p, x) \subseteq chain /\ x \in Path(p, x)
              /\ p[x] # NoTag => x \notin Path(p, p[x]) /\ Path(p, x) = {x} \cup Path(p, p[x])
              /\ p[x] = NoTag => Path(p, x) = {x}
  BY OldPath
<1>5. /\ c.th.ids = H /\ c.th.parentID = [h.parentID EXCEPT ![id] = np] /\ c.th.roots = h.roots
      /\ \A x \in H : c.th.childrenIDs[x] = IF x \in c.open THEN {} ELSE Kids0(x)
      /\ ~c.remove => c.open = {}
      /\ c.th.leafs = h.leafs
  <2>1. \A S : S \ {} = S
    OBVIOUS
  <2> QED
    BY <1>1, <1>2, <1>3, <2>1 DEF TakingMaps
<1>6. Cardinality(TagId \ c.open) \in Nat
  <2>1. TagId \ c.open \in SUBSET TagId
    OBVIOUS
  <2> QED
    BY <2>1, TagsLeft
<1> HIDE DEF cut
\* 0 is looked up.
<1>10. CASE c.par \notin c.th.ids
  <2>1. c.par = NoTag
    BY <1>1, <1>4, <1>5, <1>10 DEF TakingUp
  <2>2. d = [c EXCEPT !.ended = TRUE, !.nil = TRUE]
    BY <1>2, <1>10 DEF TakeChild
  <2>3. /\ d \in TakeCall /\ d.th = c.th /\ d.par = c.par /\ d.child = c.child /\ d.remove = c.remove
        /\ d.open = c.open /\ d.ended = TRUE /\ d.nil = TRUE
    BY <1>2, <2>2 DEF TakeCall
  <2>4. TakingUp(d, h, id, np, p)
    BY <1>1, <2>3 DEF TakingUp
  <2>5. TakingMaps(d, h, id, np, p)
    BY <1>5, <2>1, <2>3 DEF TakingMaps
  <2>6. CallsLeft(d) < CallsLeft(c)
    BY <1>2, <1>6, <2>3 DEF CallsLeft
  <2> QED
    BY <1>1, <2>3, <2>4, <2>5, <2>6 DEF TakingCalls, Taking
\* The tag has an item.
<1>11. CASE c.par \in c.th.ids
  <2>1. c.par \in TagId /\ c.par # NoTag /\ c.par \in chain /\ c.par \in H
    BY <1>1, <1>4, <1>5, <1>11, TagIdAssumption DEF TakingUp
  <2>2. c.par \notin c.open
    BY <1>1, <1>4, <2>1 DEF TakingUp
  <2>3. /\ cut \in Hier /\ cut.ids = c.th.ids /\ cut.parentID = c.th.parentID
        /\ cut.leafs = c.th.leafs /\ cut.roots = c.th.roots
        /\ cut.childrenIDs = [c.th.childrenIDs EXCEPT ![c.par] = @ \ {c.child}]
    <3>1. c.th.childrenIDs \in [TagId -> SUBSET TagId]
      BY <1>2 DEF Hier
    <3>2. [c.th.childrenIDs EXCEPT ![c.par] = @ \ {c.child}] \in [TagId -> SUBSET TagId]
      BY <2>1, <3>1
    <3> QED
      BY <1>2, <3>2 DEF Hier, cut
  <2>4. /\ cut.childrenIDs[c.par] = Kids0(c.par) \ {c.child}
        /\ \A x \in H : x # c.par => cut.childrenIDs[x] = c.th.childrenIDs[x]
    <3>1. c.th.childrenIDs \in [TagId -> SUBSET TagId]
      BY <1>2 DEF Hier
    <3> HIDE DEF Kids0
    <3> QED
      BY <1>4, <1>5, <2>1, <2>2, <2>3, <3>1
  <2>5. \A x \in H : cut.childrenIDs[x] =
                        IF x \in c.open THEN {} ELSE Kids0(x) \ (IF x = c.par THEN {c.child} ELSE {})
    <3> TAKE x \in H
    <3>1. CASE x = c.par
      BY <2>2, <2>4, <3>1
    <3>2. CASE x # c.par
      <4>1. Kids0(x) \ {} = Kids0(x)
        OBVIOUS
      <4> HIDE DEF Kids0
      <4> QED
        BY <1>5, <2>4, <3>2, <4>1
    <3> QED
      BY <3>1, <3>2
  <2>6. Kids0(c.par) \ {c.child} = {} <=> Bare(p, H, id, np, c.par)
    BY <1>1, <2>1, CutIsBare
  <2>7. cut.childrenIDs[c.par] = {} <=> Bare(p, H, id, np, c.par)
    BY <2>4, <2>6
  <2> HIDE DEF Kids0
  \* It has other children, or is not to be removed: no further call.
  <2>10. ASSUME NEW t \in Hier, t.ids = cut.ids, t.parentID = cut.parentID, t.roots = cut.roots,
                t.childrenIDs = cut.childrenIDs,
                t.leafs = IF Bare(p, H, id, np, c.par) THEN h.leafs \cup {c.par} ELSE h.leafs,
                c.remove => ~Bare(p, H, id, np, c.par),
                d = [c EXCEPT !.th = t, !.ended = TRUE]
         PROVE  d \in TakingCalls(h, id, np, p, remove) /\ CallsLeft(d) < CallsLeft(c)
    <3>1. /\ d \in TakeCall /\ d.th = t /\ d.par = c.par /\ d.child = c.child /\ d.remove = c.remove
          /\ d.open = c.open /\ d.ended = TRUE /\ d.nil = FALSE
      BY <1>2, <1>3, <2>10 DEF TakeCall
    <3>2. TakingUp(d, h, id, np, p)
      BY <1>1, <3>1 DEF TakingUp
    <3>3. \A x \in H : t.childrenIDs[x] =
                         IF x \in d.open THEN {}
                         ELSE LinkedKids(p, H, id, np, x)
                                \ (IF d.ended /\ x = d.par THEN {d.child} ELSE {})
      BY <2>5, <2>10, <3>1 DEF Kids0
    <3>4. TakingMaps(d, h, id, np, p)
      BY <1>5, <2>1, <2>3, <2>10, <3>1, <3>3 DEF TakingMaps
    <3>5. CallsLeft(d) < CallsLeft(c)
      BY <1>2, <1>6, <3>1 DEF CallsLeft
    <3> QED
      BY <1>1, <3>1, <3>2, <3>4, <3>5 DEF TakingCalls, Taking
  <2>11. CASE cut.childrenIDs[c.par] # {}
    <3>1. d = [c EXCEPT !.th = cut, !.ended = TRUE]
      BY <1>2, <1>11, <2>11 DEF TakeChild, cut
    <3> QED
      BY <1>5, <2>3, <2>7, <2>10, <2>11, <3>1
  <2>12. CASE cut.childrenIDs[c.par] = {} /\ ~c.remove
    <3> DEFINE t == [cut EXCEPT !.leafs = @ \cup {c.par}]
    <3>1. /\ t \in Hier /\ t.ids = cut.ids /\ t.parentID = cut.parentID /\ t.roots = cut.roots
          /\ t.childrenIDs = cut.childrenIDs /\ t.leafs = h.leafs \cup {c.par}
      BY <1>5, <2>1, <2>3 DEF Hier
    <3>2. d = [c EXCEPT !.th = t, !.ended = TRUE]
      BY <1>2, <1>11, <2>12 DEF TakeChild, cut
    <3> HIDE DEF t
    <3> QED
      BY <2>7, <2>10, <2>12, <3>1, <3>2
  \* It is to be removed after a call for its parent.
  <2>13. CASE cut.childrenIDs[c.par] = {} /\ c.remove
    <3>0. c.par # id
      BY <1>4, <2>1
    <3>1. cut.parentID[c.par] = p[c.par]
      <4>1. h.parentID \in ParentMap /\ h.parentID[c.par] = p[c.par]
        BY <2>1 DEF CanGo, AgreesWith, Hier
      <4>2. cut.parentID[c.par] = h.parentID[c.par]
        BY <1>5, <2>1, <2>3, <3>0, <4>1 DEF ParentMap
      <4> QED
        BY <4>1, <4>2
    <3>2. d = [c EXCEPT !.th = cut, !.par = cut.parentID[c.par], !.child = c.par,
                        !.open = @ \cup {c.par}]
      BY <1>2, <1>11, <2>13 DEF TakeChild, cut
    <3>3. p[c.par] \in TagId \cup {NoTag}
      BY <1>4, <2>1
    <3>4. /\ d \in TakeCall /\ d.th = cut /\ d.par = p[c.par] /\ d.child = c.par /\ d.remove = c.remove
          /\ d.open = c.open \cup {c.par} /\ d.ended = FALSE /\ d.nil = FALSE
      <4>1. d = [th |-> cut, par |-> p[c.par], child |-> c.par, remove |-> c.remove,
                 open |-> c.open \cup {c.par}, ended |-> FALSE, nil |-> FALSE]
        BY <1>2, <1>3, <3>1, <3>2
      <4>2. cut \in Hier /\ c.open \cup {c.par} \in SUBSET TagId
        BY <1>2, <2>1, <2>3
      <4> QED
        BY <1>2, <2>1, <3>3, <4>1, <4>2 DEF TakeCall
    <3>5. TakingUp(d, h, id, np, p)
      <4>1. /\ \/ c.child = id /\ c.par = p[id] /\ c.open = {}
               \/ c.child \in c.open /\ c.par = p[c.child] /\ p[id] \in c.open
            /\ c.open \subseteq chain
            /\ \A x \in chain : x \in c.open <=> (c.par = NoTag \/ x \notin Path(p, c.par))
            /\ \A y \in c.open : /\ y = c.child \/ p[y] \in c.open
                                 /\ \E z \in c.open \cup {id} : p[z] = y
                                 /\ Bare(p, h.ids, id, np, y)
        BY <1>1 DEF TakingUp
      <4>2. /\ p[c.par] = NoTag \/ p[c.par] \in chain
            /\ c.par \in c.open \cup {c.par} /\ p[id] \in c.open \cup {c.par}
            /\ c.open \cup {c.par} \subseteq chain
        BY <1>4, <2>1, <4>1
      <4>3. \A x \in chain : x \in c.open \cup {c.par} <=>
                               (p[c.par] = NoTag \/ x \notin Path(p, p[c.par]))
        BY <1>4, <2>1, <4>1
      <4>4. \A y \in c.open \cup {c.par} :
              /\ y = c.par \/ p[y] \in c.open \cup {c.par}
              /\ \E z \in c.open \cup {c.par} \cup {id} : p[z] = y
              /\ Bare(p, h.ids, id, np, y)
        <5> TAKE y \in c.open \cup {c.par}
        <5>1. CASE y = c.par
          BY <2>7, <2>13, <4>1, <5>1
        <5>2. CASE y # c.par
          <6>1. y = c.child => p[y] = c.par
            BY <4>1, <5>2
          <6> QED
            BY <4>1, <5>2, <6>1
        <5> QED
          BY <5>1, <5>2
      <4> HIDE DEF chain
      <4>5. d.par = NoTag \/ d.par \in chain
        BY <3>4, <4>2
      <4>6. d.child \in d.open /\ d.par = p[d.child] /\ p[id] \in d.open /\ d.open \subseteq chain
        BY <3>4, <4>2
      <4>7. \A x \in chain : x \in d.open <=> (d.par = NoTag \/ x \notin Path(p, d.par))
        BY <3>4, <4>3
      <4>8. \A y \in d.open : /\ y = d.child \/ p[y] \in d.open
                              /\ \E z \in d.open \cup {id} : p[z] = y
                              /\ Bare(p, h.ids, id, np, y)
        BY <3>4, <4>4
      <4> QED
        BY <4>5, <4>6, <4>7, <4>8 DEF TakingUp, chain
    <3>6. TakingMaps(d, h, id, np, p)
      <4>1. \A x \in H : cut.childrenIDs[x] =
                 IF x \in d.open THEN {}
                 ELSE LinkedKids(p, H, id, np, x) \ (IF d.ended /\ x = d.par THEN {d.child} ELSE {})
        <5> TAKE x \in H
        <5>1. CASE x = c.par
          BY <2>13, <3>4, <5>1
        <5>2. CASE x # c.par
          BY <2>5, <3>4, <5>2 DEF Kids0
        <5> QED
          BY <5>1, <5>2
      <4>2. d.th = cut /\ d.ended = FALSE /\ d.nil = FALSE /\ d.remove = TRUE
        BY <1>2, <2>13, <3>4
      <4> HIDE DEF H
      <4> QED
        BY <1>5, <2>3, <4>1, <4>2 DEF TakingMaps, H
    <3>7. CallsLeft(d) < CallsLeft(c)
      <4>1. c.par \in TagId \ c.open /\ TagId \ c.open \in SUBSET TagId
            /\ TagId \ d.open = (TagId \ c.open) \ {c.par} /\ TagId \ d.open \in SUBSET TagId
        BY <2>1, <2>2, <3>4
      <4>2. /\ Cardinality(TagId \ d.open) < Cardinality(TagId \ c.open)
            /\ Cardinality(TagId \ d.open) \in Nat
        BY <4>1, TagsLeft
      <4> QED
        BY <1>2, <1>6, <3>4, <4>2 DEF CallsLeft
    <3> QED
      BY <1>1, <3>4, <3>5, <3>6, <3>7 DEF TakingCalls, Taking
  <2> QED
    BY <1>2, <2>11, <2>12, <2>13
<1> QED
  BY <1>10, <1>11

\* The moved tag gets its new parent, and is a child of both.
Linked(h, id, np) == [h EXCEPT !.parentID[id] = np, !.childrenIDs[np] = @ \cup {id}]

\* After the last call the open ones remove their items.
Removed(c) == [c.th EXCEPT !.ids = IF c.nil THEN @ ELSE @ \ c.open]

LEMMA RemoveChildEnds ==
  ASSUME NEW p, NEW h, NEW id, NEW np, NEW root, CanGo(p, h, id, np, root), NEW remove \in BOOLEAN,
         NEW from, from = h.parentID[id]
  PROVE  \E c \in TakingCalls(h, id, np, p, remove) :
           /\ c.ended
           /\ RemoveChild(Linked(h, id, np), from, id, remove) = [th |-> Removed(c), nil |-> c.nil]
<1> DEFINE l == [h EXCEPT !.parentID[id] = np, !.childrenIDs[np] = @ \cup {id}]
<1>l. l = Linked(h, id, np)
  BY DEF Linked
<1> DEFINE S == TakingCalls(h, id, np, p, remove)
           F == [c \in S |-> TakeChild(c)]
           s0 == [th |-> l, par |-> h.parentID[id], child |-> id, remove |-> remove,
                  open |-> {}, ended |-> FALSE, nil |-> FALSE]
           M == [c \in S |-> CallsLeft(c)]
           Done == {c \in S : c.ended}
           Is(f) == f = [n \in 0..Depth |-> IF n = 0 THEN s0 ELSE TakeChild(f[n - 1])]
<1>0. /\ h.ids \in SUBSET TagId /\ id \in TagId /\ np \in TagId /\ p[id] \in TagId /\ p[id] # NoTag
      /\ p[id] \in Path(p, p[id]) /\ h \in Hier /\ id \in h.ids /\ np \in h.ids
      /\ h.parentID[id] = p[id]
      /\ \A x \in h.ids : h.childrenIDs[x] = {y \in h.ids : p[y] = x}
  BY OldPath, ZenonT(30) DEF CanGo, AgreesWith
<1>1. s0 \in S
  <2>1. /\ l \in Hier /\ l.ids = h.ids /\ l.parentID = [h.parentID EXCEPT ![id] = np]
        /\ l.roots = h.roots /\ l.leafs = h.leafs
        /\ l.childrenIDs = [h.childrenIDs EXCEPT ![np] = @ \cup {id}]
    <3>1. /\ [h.childrenIDs EXCEPT ![np] = @ \cup {id}] \in [TagId -> SUBSET TagId]
          /\ [h.parentID EXCEPT ![id] = np] \in ParentMap
      BY <1>0 DEF Hier, ParentMap
    <3> QED
      BY <1>0, <3>1 DEF Hier
  <2>2. s0 \in TakeCall /\ s0.remove = remove
    BY <1>0, <2>1 DEF TakeCall
  <2>3. TakingUp(s0, h, id, np, p)
    <3>1. \A x \in Path(p, p[id]) : x \in Path(p, s0.par) /\ s0.par # NoTag
      BY <1>0
    <3> QED
      BY <1>0, <3>1 DEF TakingUp
  <2>4. \A x \in h.ids : l.childrenIDs[x] = LinkedKids(p, h.ids, id, np, x)
    <3> TAKE x \in h.ids
    <3>1. l.childrenIDs[x] = IF x = np THEN h.childrenIDs[x] \cup {id} ELSE h.childrenIDs[x]
      BY <1>0, <2>1 DEF Hier
    <3>2. h.childrenIDs[x] = {y \in h.ids : p[y] = x}
      BY <1>0
    <3> QED
      BY <1>0, <3>1, <3>2 DEF LinkedKids
  <2>5. TakingMaps(s0, h, id, np, p)
    <3>1. \A A : A \ {} = A
      OBVIOUS
    <3> QED
      BY <2>1, <2>4, <3>1 DEF TakingMaps
  <2> HIDE DEF s0
  <2> QED
    BY <2>2, <2>3, <2>5 DEF TakingCalls, Taking
<1>2. \A c \in S : /\ c.ended => TakeChild(c) = c
                   /\ ~c.ended => TakeChild(c) \in S /\ CallsLeft(TakeChild(c)) < CallsLeft(c)
  <2> TAKE c \in S
  <2>1. c.ended => TakeChild(c) = c
    BY DEF TakeChild
  <2>2. ~c.ended => TakeChild(c) \in S /\ CallsLeft(TakeChild(c)) < CallsLeft(c)
    BY TakeChildKeeps
  <2> QED
    BY <2>1, <2>2
<1> HIDE DEF s0
<1>3. F \in [S -> S] /\ \A c \in S : F[c] = TakeChild(c)
  <2> HIDE DEF S
  <2> QED
    BY <1>2
<1>4. /\ Depth \in Nat
      /\ \A c \in S : M[c] = CallsLeft(c) /\ M[c] \in Nat /\ M[c] <= Depth
                      /\ (M[c] = 0 => c \in Done)
      /\ M \in [S -> Nat]
  <2>1. \A c \in S : CallsLeft(c) \in Nat /\ CallsLeft(c) <= Depth /\ (CallsLeft(c) = 0 => c.ended)
    <3> TAKE c \in S
    <3>1. TagId \ c.open \in SUBSET TagId
      OBVIOUS
    <3>2. Cardinality(TagId \ c.open) \in Nat /\ Cardinality(TagId \ c.open) + 1 <= Depth
      BY ONLY <3>1, TagsLeft
    <3> QED
      BY <3>2, DepthIsNat DEF CallsLeft
  <2> HIDE DEF S
  <2> QED
    BY <2>1, DepthIsNat
<1> DEFINE calls == CHOOSE f : Is(f)
<1>6. Is(calls)
  <2>1. PICK f \in [0..Depth -> S] : Turns(f, F, s0, Depth)
    <3> HIDE DEF S, F
    <3> QED
      BY <1>1, <1>3, <1>4, TurnsExist
  <2>2. \A n \in 0..Depth : n # 0 => f[n - 1] \in S
    <3>1. \A n \in 0..Depth : n # 0 => n - 1 \in 0..Depth
      BY <1>4
    <3> HIDE DEF S
    <3> QED
      BY <2>1, <3>1
  <2>3. Is(f)
    <3> HIDE DEF S, F
    <3> QED
      BY <1>3, <2>1, <2>2 DEF Turns
  <2> HIDE DEF Is
  <2> QED
    BY <2>3
<1>7. RemoveChild(l, from, id, remove) = [th |-> Removed(calls[Depth]), nil |-> calls[Depth].nil]
  BY DEF RemoveChild, Removed, s0
<1>8. calls[0] = s0 /\ \A n \in 1..Depth : calls[n] = TakeChild(calls[n - 1])
  <2>1. 0 \in 0..Depth /\ \A n \in 1..Depth : n \in 0..Depth /\ n # 0
    BY <1>4
  <2> HIDE DEF calls
  <2> QED
    BY <1>6, <2>1
<1> HIDE DEF calls, Is
<1>9. calls[Depth] \in S /\ calls[Depth] \in Done
  <2>0. \A c \in S : c \in Done <=> c.ended
    OBVIOUS
  <2> HIDE DEF S, M, Done, F
  <2>1. \A c \in S : IF c \in Done THEN TakeChild(c) = c
                     ELSE TakeChild(c) \in S /\ M[TakeChild(c)] < M[c]
    BY <1>2, <1>4, <2>0
  <2>2. calls[0] \in S /\ M[calls[0]] <= Depth
    BY <1>1, <1>4, <1>8
  <2>3. ASSUME NEW n \in 1..Depth, calls[n - 1] \in S
        PROVE  /\ calls[n] \in S
               /\ IF calls[n - 1] \in Done THEN calls[n] \in Done
                  ELSE calls[n] \in Done \/ M[calls[n]] < M[calls[n - 1]]
    <3>1. calls[n] = TakeChild(calls[n - 1])
      BY <1>8
    <3> QED
      BY <2>1, <2>3, <3>1
  <2>4. /\ \A n \in 1..Depth : calls[n - 1] \in S => calls[n] \in S
        /\ \A n \in 1..Depth : calls[n - 1] \in S =>
            IF calls[n - 1] \in Done THEN calls[n] \in Done
            ELSE calls[n] \in Done \/ M[calls[n]] < M[calls[n - 1]]
    BY <2>3
  <2>5. \A c \in S : M[c] = 0 => c \in Done
    BY <1>4
  <2>6. Depth \in Nat /\ M \in [S -> Nat]
    BY <1>4
  <2> QED
    BY ONLY <2>2, <2>4, <2>5, <2>6, LoopEnds
<1> QED
  BY <1>l, <1>7, <1>9

\* removeChild removes what TagTree says, and panics when it says so.
LEMMA RemoveChildRemoves ==
  ASSUME NEW p, NEW h, NEW id, NEW np, NEW root, CanGo(p, h, id, np, root), NEW remove \in BOOLEAN,
         NEW c \in TakingCalls(h, id, np, p, remove), c.ended
  PROVE  /\ c.nil <=> MovePanics(p, h.ids, id, np, remove)
         /\ ~c.nil => h.ids \ c.open = TagsAfterMove(p, h.ids, id, np, remove)
<1> DEFINE chain == Path(p, p[id])
           R == NewLeafs(p, h.ids, id, np)
<1>1. /\ p[id] # NoTag /\ p[id] \in TagId /\ chain \subseteq h.ids /\ p[id] \in chain
      /\ \A x \in chain :
              /\ Path(p, x) \subseteq chain /\ x \in Path(p, x) /\ root \in Path(p, x)
              /\ p[x] = NoTag => x = root
      /\ p[root] = NoTag
  <2>1. p[root] = NoTag
    BY DEF CanGo, Rooted
  <2> QED
    BY <2>1, OldPath
<1>2. /\ c \in TakeCall /\ TakingUp(c, h, id, np, p) /\ TakingMaps(c, h, id, np, p)
      /\ c.remove = remove /\ c.nil \in BOOLEAN /\ c.ended = TRUE
  BY DEF TakingCalls, Taking, TakeCall
<1>3. R = {x \in chain : \A y \in chain : x \in Path(p, y) => Bare(p, h.ids, id, np, y)}
  BY DEF NewLeafs, Bare
<1> HIDE DEF R
<1>4. /\ c.par = NoTag \/ c.par \in chain
      /\ c.open = {} \/ p[id] \in c.open
      /\ c.open \subseteq chain
      /\ \A x \in chain : x \in c.open <=> (c.par = NoTag \/ x \notin Path(p, c.par))
      /\ \A y \in c.open : Bare(p, h.ids, id, np, y)
      /\ c.nil => c.par = NoTag
      /\ ~c.nil => c.par # NoTag
      /\ ~c.nil /\ c.remove => ~Bare(p, h.ids, id, np, c.par)
      /\ ~c.remove => c.open = {}
  <2>1. c.open = {} \/ p[id] \in c.open
    BY <1>2 DEF TakingUp
  <2> QED
    BY <1>2, <2>1 DEF TakingUp, TakingMaps
<1> HIDE DEF chain
<1>5. c.open \subseteq R
  <2> SUFFICES ASSUME NEW x \in c.open, NEW y \in chain, x \in Path(p, y)
               PROVE  Bare(p, h.ids, id, np, y)
    BY <1>3, <1>4
  <2>1. y \in c.open
    <3> SUFFICES ASSUME c.par # NoTag, y \in Path(p, c.par) PROVE FALSE
      BY <1>4
    <3>1. c.par \in TagId /\ p \in ParentMap
      BY <1>4, <1>2 DEF CanGo, TakeCall
    <3>2. Path(p, y) \subseteq Path(p, c.par)
      BY <3>1, PathOfAncestor
    <3> QED
      BY <1>4, <3>2
  <2> QED
    BY <1>4, <2>1
<1>6. ~c.nil /\ c.remove => R \subseteq c.open
  BY <1>1, <1>3, <1>4
<1>7. CASE c.nil
  <2>1. c.par = NoTag /\ c.remove
    BY <1>1, <1>2, <1>4, <1>7
  <2>2. root \in chain
    BY <1>1
  <2>3. root \in R
    BY <1>4, <1>5, <2>1, <2>2
  <2> QED
    BY <1>1, <1>2, <1>7, <2>1, <2>3 DEF MovePanics, R
<1>8. CASE ~c.nil
  <2>1. root \notin c.open
    BY <1>1, <1>4, <1>8
  <2>2. c.remove => R = c.open
    BY <1>5, <1>6, <1>8
  <2>3. c.remove => \A x \in R : p[x] # NoTag
    BY <1>1, <1>4, <2>1, <2>2
  <2>4. ~MovePanics(p, h.ids, id, np, remove)
    BY <1>1, <1>2, <2>3 DEF MovePanics, R
  <2>5. h.ids \ c.open = TagsAfterMove(p, h.ids, id, np, remove)
    <3>1. CASE c.remove
      BY <1>2, <2>2, <3>1 DEF TagsAfterMove, R
    <3>2. CASE ~c.remove
      BY <1>2, <1>4, <3>2 DEF TagsAfterMove
    <3> QED
      BY <3>1, <3>2
  <2> QED
    BY <1>8, <2>4, <2>5
<1> QED
  BY <1>7, <1>8

\* Without a panic the call that ends looks at a tag that stays; what is removed below it
\* was neither leaf nor root.
LEMMA WhatIsRemoved ==
  ASSUME NEW p, NEW h, NEW id, NEW np, NEW root, CanGo(p, h, id, np, root), NEW remove \in BOOLEAN,
         NEW c \in TakingCalls(h, id, np, p, remove), c.ended, ~c.nil
  PROVE  /\ c.open \subseteq h.ids /\ id \notin c.open
         /\ c.par \in h.ids \ c.open /\ c.par # NoTag
         /\ \/ c.child = id /\ c.par = p[id] /\ c.open = {}
            \/ c.child \in c.open /\ c.par = p[c.child] /\ p[id] \in c.open
         /\ \A y \in c.open : /\ y = c.child \/ p[y] \in c.open
                              /\ y \notin h.leafs /\ y \notin h.roots
<1>1. /\ h.leafs = {x \in h.ids : \A y \in h.ids : p[y] # x}
      /\ h.roots = {x \in h.ids : p[x] = NoTag}
      /\ id \in h.ids
  BY DEF CanGo, AgreesWith, LeafsIn
<1>2. /\ p[id] # NoTag /\ Path(p, p[id]) \subseteq h.ids /\ p[id] \in Path(p, p[id])
      /\ id \notin Path(p, p[id])
      /\ \A x \in Path(p, p[id]) : /\ x \in Path(p, x) /\ root \in Path(p, x)
                                   /\ p[x] = NoTag => x = root
  BY OldPath
<1>3. TakingUp(c, h, id, np, p) /\ TakingMaps(c, h, id, np, p)
  BY DEF TakingCalls, Taking
<1>4. c.par # NoTag
  BY <1>3 DEF TakingMaps
<1>5. /\ c.par \in Path(p, p[id])
      /\ \/ c.child = id /\ c.par = p[id] /\ c.open = {}
         \/ c.child \in c.open /\ c.par = p[c.child] /\ p[id] \in c.open
      /\ c.open \subseteq Path(p, p[id])
      /\ \A x \in Path(p, p[id]) : x \in c.open <=> x \notin Path(p, c.par)
      /\ \A y \in c.open : /\ y = c.child \/ p[y] \in c.open
                           /\ \E z \in c.open \cup {id} : p[z] = y
  BY <1>3, <1>4 DEF TakingUp
<1>6. c.par \notin c.open /\ root \notin c.open
  BY <1>2, <1>5
<1>7. \A y \in c.open : y \notin h.leafs /\ y \notin h.roots
  BY <1>1, <1>2, <1>5, <1>6
<1> QED
  BY <1>2, <1>4, <1>5, <1>6, <1>7

LEMMA MoveAgrees ==
  ASSUME NEW p, NEW h, NEW id, NEW np, NEW root, CanGo(p, h, id, np, root), NEW remove \in BOOLEAN,
         NEW c \in TakingCalls(h, id, np, p, remove), c.ended, ~c.nil, np # p[id],
         NEW e, e.ids = h.ids \ c.open, e.parentID = c.th.parentID,
         e.childrenIDs = c.th.childrenIDs, e.roots = c.th.roots, e.leafs = c.th.leafs \ {np}
  PROVE  AgreesWith(e, [p EXCEPT ![id] = np])
<1> DEFINE q == [p EXCEPT ![id] = np]
           H == h.ids
           O == c.open
           ids == e.ids
<1>1. /\ O \subseteq H /\ id \notin O
      /\ c.par \in H \ O /\ c.par # NoTag
      /\ \/ c.child = id /\ c.par = p[id] /\ O = {}
         \/ c.child \in O /\ c.par = p[c.child] /\ p[id] \in O
      /\ \A y \in O : /\ y = c.child \/ p[y] \in O
                      /\ y \notin h.leafs /\ y \notin h.roots
  BY WhatIsRemoved
<1>2. /\ p \in ParentMap /\ Rooted(p, TagId, root) /\ H \in SUBSET TagId /\ Closed(p, H)
      /\ id \in TagId /\ np \in TagId /\ id \in H /\ np \in H /\ id \notin Path(p, np)
      /\ p[id] # NoTag
  BY OldPath DEF CanGo
<1>3. /\ h.leafs = {x \in H : \A y \in H : p[y] # x}
      /\ h.roots = {x \in H : p[x] = NoTag}
      /\ \A x \in H : h.parentID[x] = p[x]
      /\ h.parentID \in ParentMap
  BY DEF CanGo, AgreesWith, LeafsIn, Hier
<1>4. q[id] = np /\ \A x \in H : x # id => q[x] = p[x]
  BY <1>2 DEF ParentMap
<1>5. /\ c \in TakeCall /\ TakingUp(c, h, id, np, p) /\ TakingMaps(c, h, id, np, p)
      /\ c.ended = TRUE /\ c.nil = FALSE
  BY DEF TakingCalls, Taking, TakeCall
<1>6. Closed(q, ids)
  <2>1. ids = TagsAfterMove(p, H, id, np, remove)
    BY RemoveChildRemoves
  <2> HIDE DEF ids
  <2> QED
    BY <1>2, <2>1, MoveClosed
<1> HIDE DEF q
<1>7. ids = H \ O /\ id \in ids /\ np \in ids /\ np # id /\ np # NoTag
  <2>1. id \in ids /\ ids = H \ O
    BY <1>1, <1>2
  <2>2. np # NoTag /\ np # id
    BY <1>2, TagIdAssumption, PathClosed
  <2> QED
    BY <1>4, <1>6, <2>1, <2>2 DEF Closed
<1>8. \A x \in ids : e.parentID[x] = q[x]
  <2>1. e.parentID = [h.parentID EXCEPT ![id] = np]
    BY <1>5 DEF TakingMaps
  <2> TAKE x \in ids
  <2>2. x \in H /\ x \in TagId
    BY <1>2, <1>7
  <2>3. e.parentID[x] = IF x = id THEN np ELSE h.parentID[x]
    BY <1>2, <1>3, <2>1, <2>2 DEF ParentMap
  <2> QED
    BY <1>3, <1>4, <2>2, <2>3
<1> DEFINE K(x) == LinkedKids(p, H, id, np, x)
<1>9. \A x \in ids : e.childrenIDs[x] = K(x) \ (IF x = c.par THEN {c.child} ELSE {})
  <2> TAKE x \in ids
  <2>1. x \in H /\ x \notin O
    BY <1>7
  <2> QED
    BY <1>5, <2>1, ZenonT(30) DEF TakingMaps
<1>10. \A x, y : y \in K(x) <=> y \in H /\ (p[y] = x \/ (y = id /\ x = np))
  BY DEF LinkedKids
<1>11. /\ e.roots = h.roots
       /\ e.leafs = (IF Bare(p, H, id, np, c.par) THEN h.leafs \cup {c.par} ELSE h.leafs) \ {np}
  BY <1>5 DEF TakingMaps
<1>12. K(c.par) \ {c.child} = {} <=> Bare(p, H, id, np, c.par)
  BY <1>1, <1>5, CutIsBare
<1> HIDE DEF K, ids, H, O
\* Who has left the children of x, is not there any more, and the moved tag is new.
<1>13. \A x \in ids : K(x) \ (IF x = c.par THEN {c.child} ELSE {}) = {y \in ids : q[y] = x}
  <2> TAKE x \in ids
  <2> DEFINE L == K(x) \ (IF x = c.par THEN {c.child} ELSE {})
  <2>1. ASSUME NEW y \in L PROVE y \in ids /\ q[y] = x
    <3>0. y \in H /\ (p[y] = x \/ (y = id /\ x = np)) /\ ~(x = c.par /\ y = c.child)
      BY <1>10
    <3>1. x \notin O
      BY <1>7
    <3>2. CASE y = id
      <4>1. p[id] # x
        BY <1>1, <3>0, <3>1, <3>2
      <4> QED
        BY <1>4, <1>7, <3>0, <3>2, <4>1
    <3>3. CASE y # id
      <4>1. p[y] = x
        BY <3>0, <3>3
      <4>2. y \notin O
        BY <1>1, <3>0, <3>1, <3>3, <4>1
      <4> QED
        BY <1>4, <1>7, <3>0, <3>3, <4>1, <4>2
    <3> QED
      BY <3>2, <3>3
  <2>2. ASSUME NEW y \in ids, q[y] = x PROVE y \in L
    <3>1. y \in H /\ y \notin O
      BY <1>7
    <3>2. CASE y = id
      <4>1. x = np /\ ~(x = c.par /\ y = c.child)
        BY <1>1, <1>4, <1>7, <2>2, <3>2
      <4> QED
        BY <1>10, <3>1, <3>2, <4>1
    <3>3. CASE y # id
      <4>1. p[y] = x /\ y # c.child
        BY <1>1, <1>4, <2>2, <3>1, <3>3
      <4> QED
        BY <1>10, <3>1, <4>1
    <3> QED
      BY <3>2, <3>3
  <2> HIDE DEF L
  <2>3. L = {y \in ids : q[y] = x}
    BY <2>1, <2>2
  <2> QED
    BY <2>3 DEF L
<1>14. \A x \in ids : e.childrenIDs[x] = {y \in ids : q[y] = x}
  BY <1>9, <1>13
<1>15. e.roots = {x \in ids : q[x] = NoTag}
  <2>1. \A x \in H : (x \in ids /\ q[x] = NoTag) <=> p[x] = NoTag
    BY <1>1, <1>2, <1>3, <1>4, <1>7
  <2> QED
    BY <1>3, <1>7, <1>11, <2>1
<1>16. e.leafs = {x \in ids : \A y \in ids : q[y] # x}
  <2>1. c.par \in ids /\ e.leafs \subseteq ids /\ np \notin e.leafs
    BY <1>1, <1>3, <1>7, <1>11
  <2>2. \E y \in ids : q[y] = np
    BY <1>4, <1>7
  <2>3. ASSUME NEW x \in ids, x # np, x # c.par
        PROVE  x \in e.leafs <=> \A y \in ids : q[y] # x
    <3>1. x \in e.leafs <=> \A y \in H : p[y] # x
      BY <1>3, <1>7, <1>11, <2>3
    <3>2. ASSUME NEW y \in ids, q[y] = x PROVE y \in H /\ p[y] = x
      BY <1>4, <1>7, <2>3, <3>2
    <3>3. ASSUME NEW y \in H, p[y] = x PROVE y \in ids /\ q[y] = x
      BY <1>1, <1>4, <1>7, <2>3, <3>3
    <3> QED
      BY <3>1, <3>2, <3>3
  <2>4. ASSUME c.par # np
        PROVE  c.par \in e.leafs <=> \A y \in ids : q[y] # c.par
    <3>1. K(c.par) \ {c.child} = {y \in ids : q[y] = c.par}
      BY <1>13, <2>1
    <3>2. Bare(p, H, id, np, c.par) <=> \A y \in ids : q[y] # c.par
      BY <1>12, <3>1 DEF K, H
    <3>3. c.par \notin h.leafs
      BY <1>1, <1>2, <1>3
    <3> QED
      BY <1>11, <2>4, <3>2, <3>3
  <2> QED
    BY <2>1, <2>2, <2>3, <2>4
<1> QED
  BY <1>6, <1>8, <1>14, <1>15, <1>16 DEF AgreesWith, LeafsIn, q, ids

-----------------------------------------------------------------------------
(* The specification *)

\* The inductive invariant: before a move the hierarchy is the part of the registry above
\* the tags asked for, after a move to another parent a part of some tree.
HierInv ==
  /\ HierTypeOK
  /\ Rooted(registry, TagId, Root)
  /\ moveDone = "no" =>
       ~nilItem /\ hier.ids = UpClosure(registry, asked) /\ AgreesWith(hier, registry)
  /\ moveDone = "elsewhere" =>
       ~nilItem /\ \E q \in ParentMap : Rooted(q, TagId, Root) /\ AgreesWith(hier, q)

\* What a hierarchy holds of a tree is a tree, with the same paths.
LEMMA PartOfTree ==
  ASSUME NEW q \in ParentMap, NEW root, Rooted(q, TagId, root), NEW h \in Hier,
         AgreesWith(h, q), NEW x \in h.ids
  PROVE  /\ h.ids \in SUBSET TagId /\ h.parentID \in ParentMap
         /\ Rooted(h.parentID, h.ids, root)
         /\ Path(h.parentID, x) = Path(q, x)
<1> DEFINE p == h.parentID
           H == h.ids
<1>1. /\ H \in SUBSET TagId /\ p \in ParentMap /\ x \in TagId /\ x \in H
      /\ Closed(q, H) /\ \A y \in H : p[y] = q[y]
  BY DEF Hier, AgreesWith
<1> HIDE DEF p, H
<1>2. Closed(p, H)
  BY <1>1 DEF Closed
<1>3. x \in Path(q, x) /\ Path(q, x) \subseteq H /\ Closed(q, Path(q, x)) /\ root \in Path(q, x)
  BY <1>1, PathClosed, PathLeast, RootOnPath
<1>4. x \in Path(p, x) /\ Path(p, x) \subseteq H /\ Closed(p, Path(p, x))
  BY <1>1, <1>2, PathClosed, PathLeast
<1>5. Path(p, x) = Path(q, x)
  <2>1. Closed(p, Path(q, x)) /\ Path(q, x) \in SUBSET TagId
    BY <1>1, <1>3 DEF Closed
  <2>2. Closed(q, Path(p, x)) /\ Path(p, x) \in SUBSET TagId
    BY <1>1, <1>4 DEF Closed
  <2> QED
    BY <1>1, <1>3, <1>4, <2>1, <2>2, PathLeast
<1>6. Rooted(p, H, root)
  <2>1. root \in H /\ p[root] = NoTag
    BY <1>1, <1>3 DEF Rooted
  <2>2. ASSUME NEW S \in SUBSET H, S # {}, Closed(p, S) PROVE root \in S
    <3>1. Closed(q, S) /\ S \in SUBSET TagId
      BY <1>1, <2>2 DEF Closed
    <3> QED
      BY <2>2, <3>1 DEF Rooted
  <2> QED
    BY <1>2, <2>1, <2>2 DEF Rooted
<1> QED
  BY <1>1, <1>5, <1>6 DEF p, H

LEMMA HierInitInv == HierInit => HierInv
<1> SUFFICES ASSUME HierInit PROVE HierInv
  OBVIOUS
<1>1. /\ registry \in ParentMap /\ Rooted(registry, TagId, Root) /\ hier = EmptyHier
      /\ asked = {} /\ moveDone = "no" /\ nilItem = FALSE
  BY DEF HierInit
<1>2. /\ EmptyHier \in Hier /\ EmptyHier.ids = {} /\ EmptyHier.leafs = {} /\ EmptyHier.roots = {}
  BY DEF EmptyHier, Hier, ParentMap
<1>3. AgreesWith(hier, registry)
  BY <1>1, <1>2 DEF AgreesWith, Closed, LeafsIn
<1>4. UpClosure(registry, asked) = {}
  BY <1>1 DEF UpClosure
<1> QED
  BY <1>1, <1>2, <1>3, <1>4 DEF HierInv, HierTypeOK

LEMMA HierAddInv == ASSUME HierInv, NEW id \in TagId, Add(id) PROVE HierInv'
<1>1. /\ registry \in ParentMap /\ Rooted(registry, TagId, Root) /\ hier \in Hier /\ asked \subseteq TagId
      /\ hier.ids = UpClosure(registry, asked) /\ AgreesWith(hier, registry)
      /\ moveDone = "no" /\ nilItem = FALSE
  BY DEF HierInv, HierTypeOK, Add
<1>2. /\ hier' = AddInternal(hier, id, TRUE) /\ asked' = asked \cup {id}
      /\ registry' = registry /\ moveDone' = moveDone /\ nilItem' = nilItem
  BY DEF Add
<1>3. /\ hier' \in Hier /\ AgreesWith(hier', registry)
      /\ hier'.ids = hier.ids \cup Path(registry, id)
  BY <1>1, <1>2, AddAddsPath
<1>4. hier'.ids = UpClosure(registry, asked')
  BY <1>1, <1>2, <1>3 DEF UpClosure
<1>5. hier'.leafs \subseteq hier'.ids /\ hier'.roots \subseteq hier'.ids
  BY <1>3 DEF AgreesWith, LeafsIn
<1>6. HierTypeOK'
  BY <1>1, <1>2, <1>3, <1>5 DEF HierTypeOK
<1>7. AgreesWith(hier, registry)'
  BY <1>2, <1>3
<1> QED
  BY <1>1, <1>2, <1>4, <1>6, <1>7 DEF HierInv

\* What a move does, by its last call of removeChild.
LEMMA MoveTakes ==
  ASSUME HierInv, NEW id \in TagId, NEW np \in TagId, NEW remove \in BOOLEAN,
         Move(id, np, remove)
  PROVE  /\ CanGo(registry, hier, id, np, Root)
         /\ moveDone' = IF np = registry[id] THEN "same" ELSE "elsewhere"
         /\ \E c \in TakingCalls(hier, id, np, registry, remove) :
              /\ c.ended /\ nilItem' = c.nil /\ hier' \in Hier
              /\ hier'.ids = (IF c.nil THEN c.th.ids ELSE c.th.ids \ c.open)
              /\ hier'.parentID = c.th.parentID /\ hier'.childrenIDs = c.th.childrenIDs
              /\ hier'.roots = c.th.roots /\ hier'.leafs = c.th.leafs \ {np}
<1>1. /\ registry \in ParentMap /\ Rooted(registry, TagId, Root) /\ hier \in Hier
      /\ AgreesWith(hier, registry)
  BY DEF HierInv, HierTypeOK, Move, HierCanMove
<1>2. id \in hier.ids /\ np \in hier.ids /\ np # id /\ ~IsSubnode(hier, np, id)
  BY DEF Move, HierCanMove
<1>3. CanGo(registry, hier, id, np, Root)
  <2>1. /\ hier.ids \in SUBSET TagId /\ hier.parentID \in ParentMap
        /\ Rooted(hier.parentID, hier.ids, Root)
        /\ Path(hier.parentID, np) = Path(registry, np)
    BY <1>1, <1>2, PartOfTree
  <2>2. id \notin Path(registry, np)
    BY <1>2, <2>1, IsSubnodeIsPath
  <2> QED
    BY <1>1, <1>2, <2>2 DEF CanGo
<1>4. hier.parentID[id] = registry[id]
  BY <1>1, <1>2 DEF AgreesWith
<1> DEFINE r == RemoveChild(Linked(hier, id, np), hier.parentID[id], id, remove)
<1>5. /\ hier' = [r.th EXCEPT !.leafs = @ \ {np}] /\ nilItem' = r.nil
      /\ moveDone' = IF np = hier.parentID[id] THEN "same" ELSE "elsewhere"
  BY DEF Move, Linked
<1>6. PICK c \in TakingCalls(hier, id, np, registry, remove) :
        c.ended /\ r = [th |-> Removed(c), nil |-> c.nil]
  BY <1>3, RemoveChildEnds
<1> HIDE DEF r
<1>7. c.ended /\ r.nil = c.nil /\ r.th = Removed(c)
  BY <1>6
<1>8. c.th \in Hier
  BY DEF TakingCalls, TakeCall
<1>9. /\ r.th \in Hier
      /\ r.th.ids = (IF c.nil THEN c.th.ids ELSE c.th.ids \ c.open)
      /\ r.th.parentID = c.th.parentID /\ r.th.childrenIDs = c.th.childrenIDs
      /\ r.th.roots = c.th.roots /\ r.th.leafs = c.th.leafs
  BY <1>7, <1>8 DEF Removed, Hier
<1>10. /\ hier' \in Hier /\ hier'.ids = r.th.ids
       /\ hier'.parentID = r.th.parentID /\ hier'.childrenIDs = r.th.childrenIDs
       /\ hier'.roots = r.th.roots /\ hier'.leafs = r.th.leafs \ {np}
  BY <1>5, <1>9 DEF Hier
<1> QED
  BY <1>3, <1>4, <1>5, <1>7, <1>9, <1>10

LEMMA HierMoveInv ==
  ASSUME HierInv, NEW id \in TagId, NEW np \in TagId, NEW remove \in BOOLEAN,
         Move(id, np, remove)
  PROVE  /\ HierInv'
         /\ nilItem' = MovePanics(registry, hier.ids, id, np, remove)
         /\ ~nilItem' => hier'.ids = TagsAfterMove(registry, hier.ids, id, np, remove)
<1> DEFINE p == registry
           h == hier
           e == hier'
<1>1. /\ CanGo(p, h, id, np, Root)
      /\ moveDone' = IF np = p[id] THEN "same" ELSE "elsewhere"
  BY MoveTakes
<1>2. PICK c \in TakingCalls(h, id, np, p, remove) :
        /\ c.ended /\ nilItem' = c.nil /\ e \in Hier
        /\ e.ids = (IF c.nil THEN c.th.ids ELSE c.th.ids \ c.open)
        /\ e.parentID = c.th.parentID /\ e.childrenIDs = c.th.childrenIDs
        /\ e.roots = c.th.roots /\ e.leafs = c.th.leafs \ {np}
  BY MoveTakes
<1>3. /\ c \in TakeCall /\ TakingMaps(c, h, id, np, p) /\ c.th \in Hier /\ c.nil \in BOOLEAN
  BY DEF TakingCalls, Taking, TakeCall
<1>5. c.th.ids = h.ids /\ c.th.roots = h.roots
  BY <1>3 DEF TakingMaps
<1>6. /\ nilItem' = MovePanics(p, h.ids, id, np, remove)
      /\ ~nilItem' => e.ids = TagsAfterMove(p, h.ids, id, np, remove)
  <2>1. MovePanics(p, h.ids, id, np, remove) \in BOOLEAN
    BY DEF MovePanics
  <2> QED
    BY <1>1, <1>2, <1>3, <1>5, <2>1, RemoveChildRemoves, SMTT(30)
<1>7. registry' = registry /\ asked' = asked
  BY DEF Move
<1>8. /\ registry \in ParentMap /\ Rooted(registry, TagId, Root) /\ asked \subseteq TagId
  BY DEF HierInv, HierTypeOK
<1>9. nilItem' \/ (e.leafs \subseteq e.ids /\ e.roots \subseteq e.ids)
  <2> SUFFICES ASSUME ~c.nil PROVE e.leafs \subseteq e.ids /\ e.roots \subseteq e.ids
    BY <1>2
  <2>1. /\ c.par \in h.ids \ c.open
        /\ \A y \in c.open : y \notin h.leafs /\ y \notin h.roots
    BY <1>1, <1>2, WhatIsRemoved
  <2>2. h.leafs \subseteq h.ids /\ h.roots \subseteq h.ids
    BY <1>1 DEF CanGo, AgreesWith, LeafsIn
  <2>3. c.th.leafs \subseteq h.leafs \cup {c.par}
    BY <1>3 DEF TakingMaps
  <2> QED
    BY <1>2, <1>5, <2>1, <2>2, <2>3
<1>10. HierTypeOK'
  BY <1>1, <1>2, <1>3, <1>7, <1>8, <1>9 DEF HierTypeOK
<1>11. ASSUME np # p[id]
       PROVE  ~nilItem' /\ \E q \in ParentMap : Rooted(q, TagId, Root) /\ AgreesWith(e, q)
  <2>1. /\ h.ids \in SUBSET TagId /\ Closed(p, h.ids) /\ id \in h.ids /\ np \in h.ids
        /\ id \notin Path(p, np)
    BY <1>1 DEF CanGo, AgreesWith, Hier
  <2>2. ~MovePanics(p, h.ids, id, np, remove)
    BY <1>8, <1>11, <2>1, MoveDoesNotPanic
  <2>3. ~c.nil /\ e.ids = h.ids \ c.open
    BY <1>2, <1>5, <1>6, <2>2
  <2>4. AgreesWith(e, [p EXCEPT ![id] = np])
    <3> HIDE DEF p, h, e
    <3> QED
      BY <1>1, <1>2, <1>11, <2>3, MoveAgrees
  <2>5. Rooted([p EXCEPT ![id] = np], TagId, Root)
    BY <1>8, <2>1, RootedMove
  <2>6. [p EXCEPT ![id] = np] \in ParentMap
    BY <1>8 DEF ParentMap
  <2> QED
    BY <1>6, <2>2, <2>4, <2>5, <2>6
<1>12. HierInv'
  <2>1. Rooted(registry, TagId, Root)'
    BY <1>7, <1>8
  <2>2. moveDone' = "elsewhere" => np # p[id]
    BY <1>1
  <2>3. moveDone' # "no"
    BY <1>1
  <2> QED
    BY <1>10, <1>11, <2>1, <2>2, <2>3 DEF HierInv
<1> QED
  BY <1>6, <1>12

LEMMA HierInvHolds == HierSpec => []HierInv
<1>1. HierInv /\ [HierNext]_hierVars => HierInv'
  <2> SUFFICES ASSUME HierInv, [HierNext]_hierVars PROVE HierInv'
    OBVIOUS
  <2>1. ASSUME NEW id \in TagId, Add(id) PROVE HierInv'
    BY <2>1, HierAddInv
  <2>2. ASSUME NEW id \in TagId, NEW newParent \in TagId, NEW removeNewLeafs \in BOOLEAN,
               Move(id, newParent, removeNewLeafs)
        PROVE  HierInv'
    BY <2>2, HierMoveInv
  <2>3. CASE UNCHANGED hierVars
    BY <2>3 DEF hierVars, HierInv, HierTypeOK
  <2> QED
    BY <2>1, <2>2, <2>3 DEF HierNext
<1> QED
  BY <1>1, HierInitInv, PTL DEF HierSpec

\* The tree the hierarchy is a part of, unless a tag was moved to the parent it had.
LEMMA SoundTree ==
  ASSUME HierInv, HierSound
  PROVE  /\ hier \in Hier /\ ~nilItem
         /\ \E q \in ParentMap : Rooted(q, TagId, Root) /\ AgreesWith(hier, q)
BY DEF HierInv, HierTypeOK, HierSound

\* However the Adds were ordered, and after a move too, the maps of a TagHier agree: the
\* children of an item are those that name it as their parent, and the leafs and roots the
\* callers get are those of the links.
THEOREM HierMapsAgree == HierSpec => []MapsAgree
<1>1. HierInv => MapsAgree
  <2> SUFFICES ASSUME HierInv PROVE MapsAgree
    OBVIOUS
  <2>1. HierTypeOK
    BY DEF HierInv
  <2>2. ASSUME HierSound
        PROVE  /\ \A x, y \in hier.ids : y \in hier.childrenIDs[x] <=> hier.parentID[y] = x
               /\ hier.leafs = {x \in hier.ids : \A y \in hier.ids : hier.parentID[y] # x}
               /\ hier.roots = {x \in hier.ids : hier.parentID[x] = NoTag}
    <3>1. PICK q \in ParentMap : AgreesWith(hier, q)
      BY <2>2, SoundTree
    <3>2. \A x \in hier.ids : /\ hier.parentID[x] = q[x]
                              /\ hier.childrenIDs[x] = {y \in hier.ids : q[y] = x}
      BY <3>1 DEF AgreesWith
    <3>3. /\ hier.leafs = {x \in hier.ids : \A y \in hier.ids : q[y] # x}
          /\ hier.roots = {x \in hier.ids : q[x] = NoTag}
      BY <3>1 DEF AgreesWith, LeafsIn
    <3> QED
      BY <3>2, <3>3
  <2> QED
    BY <2>1, <2>2 DEF MapsAgree
<1> QED
  BY <1>1, HierInvHolds, PTL

\* Add brings the whole path of a tag and nothing else, Move leaves whole paths, and a move
\* to another parent never reaches above the root, where removeChild would panic.
THEOREM HierWholePaths == HierSpec => []WholePaths
<1>1. HierInv => WholePaths
  <2> SUFFICES ASSUME HierInv PROVE WholePaths
    OBVIOUS
  <2>1. ASSUME HierSound PROVE ~nilItem /\ Closed(hier.parentID, hier.ids)
    <3>1. PICK q \in ParentMap : AgreesWith(hier, q)
      BY <2>1, SoundTree
    <3>2. Closed(q, hier.ids) /\ \A x \in hier.ids : hier.parentID[x] = q[x]
      BY <3>1 DEF AgreesWith
    <3>3. Closed(hier.parentID, hier.ids)
      BY <3>2 DEF Closed
    <3> QED
      BY <2>1, <3>3, SoundTree
  <2> QED
    BY <2>1 DEF WholePaths, HierInv
<1> QED
  BY <1>1, HierInvHolds, PTL

\* The loops of IsSubnode and GetPath end, and agree with the paths of TagTree.
THEOREM HierQueriesAgree == HierSpec => []QueriesAgree
<1>1. HierInv => QueriesAgree
  <2> SUFFICES ASSUME HierInv, HierSound, NEW x \in hier.ids
               PROVE  /\ \A y \in hier.ids :
                           IsSubnode(hier, x, y) <=> (x # y /\ y \in Path(hier.parentID, x))
                      /\ LET path == GetPath(hier, x)
                         IN  /\ {path[i] : i \in DOMAIN path} = Path(hier.parentID, x)
                             /\ \A i \in DOMAIN path :
                                  hier.parentID[path[i]] = IF i = 1 THEN NoTag ELSE path[i - 1]
    BY DEF QueriesAgree
  <2>1. hier \in Hier
    BY SoundTree
  <2>2. PICK q \in ParentMap : Rooted(q, TagId, Root) /\ AgreesWith(hier, q)
    BY SoundTree
  <2>3. /\ hier.ids \in SUBSET TagId /\ hier.parentID \in ParentMap
        /\ Rooted(hier.parentID, hier.ids, Root)
    BY <2>1, <2>2, PartOfTree
  <2>4. \A y \in hier.ids :
          IsSubnode(hier, x, y) <=> (x # y /\ y \in Path(hier.parentID, x))
    BY <2>3, IsSubnodeIsPath
  <2> DEFINE path == GetPath(hier, x)
  <2>5. /\ {path[i] : i \in DOMAIN path} = Path(hier.parentID, x)
        /\ \A i \in DOMAIN path :
             hier.parentID[path[i]] = IF i = 1 THEN NoTag ELSE path[i - 1]
    <3>1. FromRoot(path, hier.parentID, x)
      BY <2>3, GetPathIsPath
    <3> HIDE DEF path
    <3> QED
      BY <3>1 DEF FromRoot
  <2> QED
    BY <2>4, <2>5
<1> QED
  BY <1>1, HierInvHolds, PTL

\* Move, with its calls of removeChild, leaves the tags TagTree says and panics when it says
\* so, a move to the same parent included: what TagStore and TagTx take it to do.
THEOREM HierMoves == HierSpec => MoveAsInTagTree
<1> DEFINE Moves == \A id, newParent \in TagId, removeNewLeafs \in BOOLEAN :
       Move(id, newParent, removeNewLeafs) =>
         /\ nilItem' = MovePanics(registry, hier.ids, id, newParent, removeNewLeafs)
         /\ ~nilItem' =>
              hier'.ids = TagsAfterMove(registry, hier.ids, id, newParent, removeNewLeafs)
<1>1. HierInv => Moves
  BY HierMoveInv
<1>2. HierInv /\ [HierNext]_hierVars => [Moves]_hierVars
  BY <1>1
<1> QED
  BY <1>2, HierInvHolds, PTL DEF MoveAsInTagTree, HierSpec
=============================================================================
