--------------------------- MODULE EditPageProofs ---------------------------
(***************************************************************************)
(* Whatever the user of the page does, and whenever answers come: there is *)
(* one window of it; its form is the one of the last tab; a bookmark is    *)
(* saved with the tags of its form; what is typed is asked for.            *)
(*                                                                         *)
(* The inductive invariant follows a window from its making to the message *)
(* that it is closed (WindowInv), a tab from the command to the form       *)
(* (PageInv, TabInv), and a submission from its new tags to the bookmark   *)
(* (AddInv, SubmitInv).  It rests on the order of the requests: an answer    *)
(* is always that to the first one.                                        *)
(***************************************************************************)
EXTENDS EditPage, FiniteSetTheorems, WellFoundedInduction, TLAPS

\* The one window: its script has not run, it is open, or its end is on its way to
\* background.js.  (A window that is closed early leaves none of the three.)
WindowInv ==
  /\ "portExists" \notin threw
  /\ ctx.there => ctx.tab \in Url
  /\ ctx.port => ctx.there
  /\ opening > 0 => opening = 1 /\ ctx.there /\ ~ctx.port /\ ~page.open /\ ~cleared
  /\ page.open => ctx.port /\ ~cleared
  /\ cleared => ctx.port

\* Without a window there is no form, nothing waits, and no request is the page's.
PageInv ==
  /\ ~page.open => page = NoPage /\ toPage = <<>>
  /\ form.curTabUrl # NoUrl => page.open /\ page.ready /\ inits > 0
  /\ waiting # <<>> \/ form.enabled => form.curTabUrl # NoUrl
  /\ sent # <<>> => inits > 0
  /\ \A i \in DOMAIN sent :
       sent[i].init <= inits /\ (sent[i].init # 0 => form.curTabUrl # NoUrl)

\* The tab of the last command is the last one on its way, or has arrived, and is
\* then in the form when nothing is to be loaded any more.
TabInv ==
  /\ toPage # <<>> => toPage[Len(toPage)] = ctx.tab
  /\ page.open /\ toPage = <<>> => page.curTab = ctx.tab
  /\ page.loads > 0 => page.ready /\ page.curTab # NoUrl
  /\ page.loads = 0 /\ form.curTabUrl # NoUrl => form.curTabUrl = page.curTab

\* Ids of bookmarks are those of bookmarks that are there.
Ids == {NoBookmark} \cup DOMAIN server.bookmarks
IdInv ==
  /\ form.bkmID \in Ids
  /\ \A i \in DOMAIN sent : sent[i].kind \in {"lookup", "save"} => sent[i].id \in Ids

\* The form shows the bookmark with the URL u.
Shows(u) ==
  /\ form.url = u
  /\ form.bkmID \in WithUrl(u) \cup {NoBookmark}
  /\ form.bkmID = NoBookmark => WithUrl(u) = {}

\* If no lookup was out when the page was initialised, there is one lookup: it
\* waits for the connection, it is out, or it is answered.
LookupInv ==
  ~overlapped =>
    /\ waiting # <<>> => /\ Len(waiting) = 1 /\ LookupsOut = {}
                         /\ ~form.enabled /\ form.bkmID = NoBookmark
    /\ \A i, j \in LookupsOut : i = j
    /\ \A i \in LookupsOut : /\ ~form.enabled
                             /\ sent[i].init # 0 => /\ sent[i].id = NoBookmark
                                                    /\ sent[i].url = form.curTabUrl
                                                    /\ form.bkmID = NoBookmark
    /\ form.enabled => Shows(form.curTabUrl)

\* What a closed page has saved comes before the lookups of the next one.
OrphanInv ==
  \A i \in DOMAIN sent : sent[i].kind = "save" /\ sent[i].init = 0 =>
    /\ ~form.enabled
    /\ \A j \in LookupsOut : sent[j].init # 0 => i < j

\* The new tags of the submission s that are asked for, and those still to come.
AddsOut(s) == {i \in DOMAIN sent : sent[i].kind = "addTag" /\ sent[i].sub = s}
Missing(s) == Len(subs[s].newTagPaths) - subs[s].addedCnt

\* The requests for the new tags of a submission are next to each other, not more
\* than are missing.  If they are fewer (Short), one has failed and there will be no
\* end; if not, the other tags are there.
Short(s) == Missing(s) > 0 /\ \A i, j \in AddsOut(s) : j - i + 1 < Missing(s)
Asked(s) ==
  \A p \in ToSet(subs[s].newTagPaths) :
    p \in subs[s].tagIDs \/ \E i \in AddsOut(s) : sent[i].path = p
AddInv ==
  \A s \in DOMAIN subs :
    /\ subs[s].init \in 1..inits
    /\ subs[s].tagIDs \subseteq server.tags
    /\ \A i, j \in AddsOut(s) : j - i < Missing(s)
    /\ Short(s) \/ Asked(s)

\* While tags are created the form stays as it was submitted.
Unchanged(s) ==
  subs[s].init = inits /\ ~overlapped =>
    form.enabled /\ form.bkmID = subs[s].id /\ form.url = subs[s].url
SavesOut(s) == {i \in DOMAIN sent : sent[i].kind = "save" /\ sent[i].sub = s}
SubmitInv ==
  /\ \A i \in DOMAIN sent : sent[i].kind \in {"addTag", "save"} =>
       /\ sent[i].sub \in DOMAIN subs
       /\ sent[i].init \in {0, subs[sent[i].sub].init}
  /\ \A s \in DOMAIN subs :
       /\ (\E i \in AddsOut(s) : sent[i].init # 0) => Unchanged(s)
       /\ SavesOut(s) # {} => AddsOut(s) = {}

\* Tags that the input takes for existing ones exist.
OldAreIn(in, E) ==
  /\ \A t \in TagPath : in.tagsByPath[t] = "old" => t \in E
  /\ in.selectedTagIDs \subseteq E
TagsExist == OldAreIn(input, server.tags)

\* While a pattern is asked for, the text typed and the tags entered by their text
\* wait for its answer or for that of the pattern that waits.
WaitsRight(in) ==
  IF in.loading = NoText
    THEN /\ in.tagsPending \subseteq in.givenUp
         /\ in.typed \in {NoText} \cup in.givenUp \/ in.curTagsArr = Suggested[in.typed]
    ELSE /\ in.tagsPending \subseteq in.givenUp \cup {in.loading, in.pendingRequest}
         /\ in.typed \in {NoText} \cup in.givenUp
              \cup {IF in.pendingRequest = NoText THEN in.loading ELSE in.pendingRequest}
QueryInv == TypedIsAsked /\ WaitsRight(input)

\* What is said of the windows, and of the form and its requests.
PagesInv == WindowInv /\ PageInv /\ TabInv
RequestsInv ==
  /\ IdInv /\ LookupInv /\ OrphanInv /\ AddInv /\ SubmitInv /\ SavedAsMeant
  /\ TagsExist /\ QueryInv

IInv == TypeOK /\ PagesInv /\ RequestsInv
-----------------------------------------------------------------------------
(* Folds and recursive functions: a function with the equations exists, by *)
(* a least number for which there would be none.                           *)

LEMMA LeastNumber ==
  ASSUME NEW S \in SUBSET Nat, S # {}
  PROVE  \E m \in S : \A k \in S : m <= k
<1> DEFINE Less == {ss \in Nat \X Nat : ss[1] < ss[2]}
<1>1. IsWellFoundedOn(Less, Nat)
  BY NatLessThanWellFounded DEF OpToRel
<1>2. PICK m \in S : \A k \in S : <<k, m>> \notin Less
  <2> HIDE DEF Less
  <2> QED
    BY <1>1, WFMin
<1>3. ASSUME NEW k \in S, ~(m <= k) PROVE FALSE
  <2>1. <<k, m>> \in Nat \X Nat /\ <<k, m>>[1] = k /\ <<k, m>>[2] = m
    OBVIOUS
  <2>2. k < m
    BY <1>3
  <2>3. <<k, m>> \in Less
    BY <2>1, <2>2
  <2> QED
    BY <1>2, <2>3
<1> QED
  BY <1>3

AddOne(f, base, s) ==
  IF s = {} THEN base ELSE AddTag(f[s \ {CHOOSE x \in s : TRUE}], CHOOSE x \in s : TRUE)
Iterates(f, base, D) == f = [s \in D |-> AddOne(f, base, s)]
UpTo(T, n) == {s \in SUBSET T : Cardinality(s) <= n}

LEMMA Smaller ==
  ASSUME NEW T, IsFiniteSet(T), NEW n \in Nat, NEW s \in UpTo(T, n), s # {}
  PROVE  /\ (CHOOSE x \in s : TRUE) \in T
         /\ n > 0 /\ s \ {CHOOSE x \in s : TRUE} \in UpTo(T, n - 1)
<1>1. IsFiniteSet(s) /\ (CHOOSE x \in s : TRUE) \in s
  BY FS_Subset DEF UpTo
<1>2. Cardinality(s \ {CHOOSE x \in s : TRUE}) = Cardinality(s) - 1 /\ Cardinality(s) \in Nat
  BY <1>1, FS_RemoveElement, FS_CardinalityType
<1>3. Cardinality(s \ {CHOOSE x \in s : TRUE}) \in Nat
  BY <1>1, FS_RemoveElement, FS_CardinalityType
<1> QED
  BY <1>1, <1>2, <1>3 DEF UpTo

LEMMA IteratesExist ==
  ASSUME NEW T, IsFiniteSet(T), NEW base, NEW n \in Nat
  PROVE  \E f : Iterates(f, base, UpTo(T, n))
<1> DEFINE Bad == {k \in Nat : ~ \E f : Iterates(f, base, UpTo(T, k))}
<1>1. SUFFICES ASSUME Bad # {} PROVE FALSE
  OBVIOUS
<1>2. PICK m \in Bad : \A k \in Bad : m <= k
  <2> HIDE DEF Bad
  <2>1. Bad \in SUBSET Nat
    BY DEF Bad
  <2> QED
    BY <1>1, <2>1, LeastNumber
<1>3. CASE m = 0
  <2>0. m \in Nat
    BY <1>2
  <2>1. ASSUME NEW s \in UpTo(T, m) PROVE s = {}
    <3> HIDE DEF Bad
    <3>1. ~ (m > 0)
      BY <1>3
    <3> QED
      BY <2>0, <3>1, Smaller
  <2>2. Iterates([s \in UpTo(T, m) |-> base], base, UpTo(T, m))
    BY <2>1 DEF Iterates, AddOne
  <2> QED
    BY <1>2, <1>3, <2>2
<1>4. CASE m # 0
  <2>1. m - 1 \in Nat /\ m \in Nat /\ m - 1 \notin Bad
    BY <1>2, <1>4
  <2>2. PICK f : Iterates(f, base, UpTo(T, m - 1))
    BY <2>1
  <2> DEFINE g == [s \in UpTo(T, m) |-> AddOne(f, base, s)]
  <2>3. \A s \in UpTo(T, m - 1) : s \in UpTo(T, m) /\ g[s] = f[s]
    <3>1. \A s \in UpTo(T, m - 1) : s \in UpTo(T, m)
      BY <2>1, FS_CardinalityType, FS_Subset DEF UpTo
    <3> QED
      BY <2>2, <3>1 DEF Iterates
  <2>4. \A s \in UpTo(T, m) : AddOne(g, base, s) = AddOne(f, base, s)
    <3> TAKE s \in UpTo(T, m)
    <3>1. CASE s = {}
      BY <3>1 DEF AddOne
    <3>2. CASE s # {}
      <4>1. s \ {CHOOSE x \in s : TRUE} \in UpTo(T, m - 1)
        BY <2>1, <3>2, Smaller
      <4> HIDE DEF g
      <4> QED
        BY <2>3, <3>2, <4>1 DEF AddOne
    <3> QED
      BY <3>1, <3>2
  <2>5. Iterates(g, base, UpTo(T, m))
    BY <2>4 DEF Iterates
  <2> QED
    BY <1>2, <2>5
<1> QED
  BY <1>3, <1>4

LEMMA AddTagsStays ==
  ASSUME NEW T, IsFiniteSet(T), NEW G, NEW base \in G,
         \A v \in G, t \in T : AddTag(v, t) \in G
  PROVE  AddTags(base, T) \in G
<1> DEFINE it == CHOOSE f : Iterates(f, base, SUBSET T)
           c == Cardinality(T)
<1>1. c \in Nat /\ UpTo(T, c) = SUBSET T
  BY FS_CardinalityType, FS_Subset DEF UpTo
<1>2. Iterates(it, base, SUBSET T)
  <2> HIDE DEF c
  <2>1. \E f : Iterates(f, base, UpTo(T, c))
    BY <1>1, IteratesExist
  <2> QED
    BY <1>1, <2>1
<1>3. AddTags(base, T) = it[T]
  BY DEF AddTags, FoldSet, MapThenFoldSet, Iterates, AddOne
<1>4. SUFFICES it[T] \in G
  BY <1>3
<1> DEFINE Bad == {k \in Nat : \E s \in UpTo(T, k) : it[s] \notin G}
<1> HIDE DEF it
<1>5. \A k \in Nat : \A s \in UpTo(T, k) : it[s] = AddOne(it, base, s)
  BY <1>2 DEF Iterates, UpTo
<1>6. Bad = {}
  <2> SUFFICES ASSUME Bad # {} PROVE FALSE
    OBVIOUS
  <2>1. PICK m \in Bad : \A k \in Bad : m <= k
    <3>1. Bad \in SUBSET Nat
      OBVIOUS
    <3> HIDE DEF Bad
    <3> QED
      BY <3>1, LeastNumber
  <2>2. PICK s \in UpTo(T, m) : it[s] \notin G
    BY <2>1
  <2>3. s # {}
    BY <1>5, <2>1, <2>2 DEF AddOne
  <2>4. m > 0 /\ s \ {CHOOSE x \in s : TRUE} \in UpTo(T, m - 1) /\ (CHOOSE x \in s : TRUE) \in T
    BY <2>1, <2>2, <2>3, Smaller
  <2>5. it[s \ {CHOOSE x \in s : TRUE}] \in G
    <3>1. m - 1 \in Nat /\ m - 1 \notin Bad
      BY <2>1, <2>4
    <3> QED
      BY <2>4, <3>1
  <2>6. it[s] = AddTag(it[s \ {CHOOSE x \in s : TRUE}], CHOOSE x \in s : TRUE)
    BY <1>5, <2>1, <2>3 DEF AddOne
  <2> QED
    BY <2>2, <2>4, <2>5, <2>6
<1> QED
  BY <1>1, <1>6

\* The n-th step of Only, after the steps f.
KeepOne(f, list, S, n) ==
  IF n = 0 THEN <<>>
  ELSE IF list[n] \in S THEN Append(f[n - 1], list[n]) ELSE f[n - 1]
Steps(f, list, S, n) == f = [i \in 0..n |-> KeepOne(f, list, S, i)]

LEMMA OnlyType ==
  ASSUME NEW T, NEW list \in Seq(T), NEW S
  PROVE  Only(list, S) \in Seq(T)
<1> DEFINE N == Len(list)
           Good(k) == \E f : Steps(f, list, S, k)
           Bad == {k \in 0..N : ~Good(k)}
<1>1. N \in Nat /\ \A n \in 1..N : list[n] \in T
  OBVIOUS
<1> HIDE DEF N
<1>2. Good(0)
  <2> DEFINE g == [i \in 0..0 |-> <<>>]
  <2>1. Steps(g, list, S, 0)
    BY DEF Steps, KeepOne
  <2> QED
    BY <2>1
<1>3. ASSUME NEW m \in 1..N, Good(m - 1) PROVE Good(m)
  <2>1. PICK f : Steps(f, list, S, m - 1)
    BY <1>3
  <2> DEFINE g == [i \in 0..m |-> KeepOne(f, list, S, i)]
  <2>2. \A i \in 0..(m - 1) : g[i] = f[i]
    <3>1. \A i \in 0..(m - 1) : f[i] = KeepOne(f, list, S, i)
      BY <2>1 DEF Steps
    <3>2. \A i \in 0..(m - 1) : i \in 0..m
      BY <1>1
    <3> QED
      BY <3>1, <3>2
  <2>3. \A i \in 0..m : KeepOne(g, list, S, i) = KeepOne(f, list, S, i)
    <3> HIDE DEF g
    <3>1. \A i \in 0..m : i = 0 \/ i - 1 \in 0..(m - 1)
      BY <1>1
    <3> QED
      BY <2>2, <3>1 DEF KeepOne
  <2>4. Steps(g, list, S, m)
    BY <2>3 DEF Steps
  <2> HIDE DEF g
  <2> QED
    BY <2>4
<1>4. Bad = {}
  <2> SUFFICES ASSUME Bad # {} PROVE FALSE
    OBVIOUS
  <2> HIDE DEF Good
  <2>1. PICK m \in Bad : \A k \in Bad : m <= k
    <3>1. Bad \in SUBSET Nat
      BY <1>1
    <3> HIDE DEF Bad
    <3> QED
      BY <3>1, LeastNumber
  <2>2. m \in 1..N /\ m - 1 \in 0..N /\ m - 1 \notin Bad
    BY <1>1, <1>2, <2>1
  <2> QED
    BY <1>3, <2>1, <2>2
<1> DEFINE kept == CHOOSE f : Steps(f, list, S, N)
<1>5. Steps(kept, list, S, N)
  <2>1. N \in 0..N
    BY <1>1
  <2> QED
    BY <1>4, <2>1
<1>6. Only(list, S) = kept[N]
  BY DEF Only, Steps, KeepOne, N
<1>7. \A i \in 0..N : kept[i] = KeepOne(kept, list, S, i)
  <2> HIDE DEF kept
  <2> QED
    BY <1>5 DEF Steps
<1> HIDE DEF kept
<1> DEFINE Wrong == {k \in 0..N : kept[k] \notin Seq(T)}
<1>8. Wrong = {}
  <2> SUFFICES ASSUME Wrong # {} PROVE FALSE
    OBVIOUS
  <2>1. PICK m \in Wrong : \A k \in Wrong : m <= k
    <3>1. Wrong \in SUBSET Nat
      BY <1>1
    <3> HIDE DEF Wrong
    <3> QED
      BY <3>1, LeastNumber
  <2>2. m \in 0..N /\ kept[m] \notin Seq(T) /\ kept[m] = KeepOne(kept, list, S, m)
    BY <1>7, <2>1
  <2>3. <<>> \in Seq(T)
    OBVIOUS
  <2>4. m # 0
    BY <2>2, <2>3 DEF KeepOne
  <2>5. m \in 1..N /\ m - 1 \in 0..N /\ m - 1 \notin Wrong
    BY <1>1, <2>1, <2>4
  <2>6. kept[m - 1] \in Seq(T) /\ list[m] \in T
    BY <1>1, <2>5
  <2>7. kept[m] \in {kept[m - 1], Append(kept[m - 1], list[m])}
    BY <2>2, <2>4 DEF KeepOne
  <2>8. \A q \in Seq(T), x \in T : Append(q, x) \in Seq(T)
    OBVIOUS
  <2> HIDE DEF Wrong
  <2> QED
    BY <2>2, <2>6, <2>7, <2>8
<1> QED
  BY <1>1, <1>6, <1>8
-----------------------------------------------------------------------------
(* The handlers of the tag input.                                          *)

\* What a handler that only changes the list of tags leaves alone.
SameQueries(v, in) ==
  /\ v.typed = in.typed /\ v.loading = in.loading
  /\ v.pendingRequest = in.pendingRequest /\ v.curTagsArr = in.curTagsArr
  /\ v.tagsPending = in.tagsPending /\ v.givenUp = in.givenUp

Sound(in, E) == in \in Instance /\ OldAreIn(in, E) /\ WaitsRight(in)

LEMMA WithTagsKeeps ==
  ASSUME NEW E, NEW in \in Instance, OldAreIn(in, E), NEW list \in Seq(TagPath)
  PROVE  /\ WithTags(in, list) \in Instance /\ OldAreIn(WithTags(in, list), E)
         /\ SameQueries(WithTags(in, list), in)
<1>1. CASE list = in.tags
  BY <1>1 DEF WithTags, SameQueries
<1>2. CASE list # in.tags
  <2> DEFINE ids == {t \in ToSet(list) : in.tagsByPath[t] = "old"}
             new == Only(list, {t \in TagPath : in.tagsByPath[t] = "new"})
             v == [in EXCEPT !.tags = list, !.selectedTagIDs = ids, !.selectedNewTagPaths = new]
  <2>1. WithTags(in, list) = v
    BY <1>2 DEF WithTags
  <2>2. ids \subseteq TagPath /\ ids \subseteq E
    BY DEF ToSet, OldAreIn
  <2>3. new \in Seq(TagPath)
    BY OnlyType
  <2> HIDE DEF ids, new
  <2>4. v \in Instance /\ v.selectedTagIDs = ids /\ v.tagsByPath = in.tagsByPath
        /\ SameQueries(v, in)
    BY <2>2, <2>3 DEF Instance, SameQueries
  <2> QED
    BY <2>1, <2>2, <2>4 DEF OldAreIn
<1> QED
  BY <1>1, <1>2

LEMMA EnterKeeps ==
  ASSUME NEW E, NEW in \in Instance, OldAreIn(in, E), NEW t \in TagPath
  PROVE  /\ Enter(in, t) \in Instance /\ OldAreIn(Enter(in, t), E)
         /\ SameQueries(Enter(in, t), in)
<1>1. in.tags \in Seq(TagPath)
  BY DEF Instance
<1>2. Without(in.tags, t) \in Seq(TagPath)
  BY <1>1, OnlyType DEF Without
<1>3. Append(Without(in.tags, t), t) \in Seq(TagPath)
  BY <1>2
<1> QED
  BY <1>3, WithTagsKeeps DEF Enter

LEMMA DeleteKeeps ==
  ASSUME NEW E, NEW in, Sound(in, E), NEW t \in TagPath
  PROVE  Sound(Delete(in, t), E) /\ Delete(in, t).loading = in.loading
<1>1. in.tags \in Seq(TagPath)
  BY DEF Instance, Sound
<1>2. Without(in.tags, t) \in Seq(TagPath)
  BY <1>1, OnlyType DEF Without
<1>3. /\ Delete(in, t) \in Instance /\ OldAreIn(Delete(in, t), E)
      /\ SameQueries(Delete(in, t), in)
  BY <1>2, WithTagsKeeps DEF Delete, Sound
<1> QED
  BY <1>3 DEF Sound, SameQueries, WaitsRight

\* The typed text goes; while suggestions are out it waits.
LEMMA CommitKeeps ==
  ASSUME NEW E, NEW in, Sound(in, E)
  PROVE  Sound(Commit(in), E) /\ Commit(in).loading = in.loading
<1> DEFINE empty == [in EXCEPT !.typed = NoText, !.menu = FALSE]
<1>1. in \in Instance /\ OldAreIn(in, E) /\ WaitsRight(in)
  BY DEF Sound
<1>2. empty \in Instance /\ OldAreIn(empty, E)
  BY <1>1 DEF Instance, OldAreIn, Text
<1>3. CASE in.typed = NoText
  BY <1>3 DEF Commit
<1>4. CASE in.typed # NoText /\ in.loading # NoText
  <2> DEFINE v == [empty EXCEPT !.tagsPending = @ \cup {in.typed}]
  <2>1. Commit(in) = v
    BY <1>4 DEF Commit
  <2>2. v \in Instance
    BY <1>1, <1>4 DEF Instance, Text
  <2>3. /\ v.tagsByPath = in.tagsByPath /\ v.selectedTagIDs = in.selectedTagIDs
        /\ v.typed = NoText /\ v.loading = in.loading /\ v.pendingRequest = in.pendingRequest
        /\ v.tagsPending = in.tagsPending \cup {in.typed} /\ v.givenUp = in.givenUp
    BY <1>1 DEF Instance
  <2> HIDE DEF v
  <2> QED
    BY <1>1, <1>4, <2>1, <2>2, <2>3 DEF Sound, OldAreIn, WaitsRight
<1>5. CASE in.typed # NoText /\ in.loading = NoText
  <2>1. /\ empty.typed = NoText /\ empty.loading = in.loading
        /\ empty.tagsPending = in.tagsPending /\ empty.givenUp = in.givenUp
    BY <1>1 DEF Instance
  <2>2. WaitsRight(empty)
    BY <1>1, <1>5, <2>1 DEF WaitsRight
  <2>3. CASE in.curTagsArr = <<>>
    BY <1>2, <1>5, <2>1, <2>2, <2>3 DEF Commit, Sound
  <2>4. CASE in.curTagsArr # <<>>
    <3>1. in.curTagsArr[1] \in TagPath
      BY <1>1, <2>4 DEF Instance
    <3>2. Commit(in) = Enter(empty, in.curTagsArr[1])
      BY <1>5, <2>4 DEF Commit
    <3> HIDE DEF empty
    <3>3. /\ Commit(in) \in Instance /\ OldAreIn(Commit(in), E)
          /\ SameQueries(Commit(in), empty)
      BY <1>2, <3>1, <3>2, EnterKeeps
    <3> QED
      BY <2>1, <2>2, <3>3 DEF Sound, SameQueries, WaitsRight
  <2> QED
    BY <2>3, <2>4
<1> QED
  BY <1>3, <1>4, <1>5

LEMMA ChooseKeeps ==
  ASSUME NEW E, NEW in, Sound(in, E), NEW t \in TagPath
  PROVE  Sound(Choose(in, t), E) /\ Choose(in, t).loading = in.loading
<1> DEFINE empty == [in EXCEPT !.typed = NoText, !.menu = FALSE]
<1>1. in \in Instance /\ OldAreIn(in, E) /\ WaitsRight(in)
  BY DEF Sound
<1>2. /\ empty \in Instance /\ OldAreIn(empty, E)
      /\ empty.typed = NoText /\ empty.loading = in.loading
      /\ empty.pendingRequest = in.pendingRequest
      /\ empty.tagsPending = in.tagsPending /\ empty.givenUp = in.givenUp
  BY <1>1 DEF Instance, OldAreIn, Text
<1>3. Choose(in, t) = Enter(empty, t)
  BY DEF Choose
<1> HIDE DEF empty
<1>4. WaitsRight(empty)
  BY <1>1, <1>2 DEF WaitsRight
<1>5. /\ Choose(in, t) \in Instance /\ OldAreIn(Choose(in, t), E)
      /\ SameQueries(Choose(in, t), empty)
  BY <1>2, <1>3, EnterKeeps
<1> QED
  BY <1>2, <1>4, <1>5 DEF Sound, SameQueries, WaitsRight

LEMMA AddTagKeeps ==
  ASSUME NEW E, NEW in, Sound(in, E), NEW t \in TagPath \cap E
  PROVE  Sound(AddTag(in, t), E) /\ AddTag(in, t).loading = in.loading
<1> DEFINE v == [in EXCEPT !.tagsByPath[t] = "old"]
           w == Enter(v, t)
<1>1. in \in Instance /\ OldAreIn(in, E) /\ WaitsRight(in)
  BY DEF Sound
<1>2. v \in Instance /\ OldAreIn(v, E) /\ SameQueries(v, in)
  BY <1>1 DEF Instance, OldAreIn, SameQueries, Known
<1>3. AddTag(in, t) = Commit(w)
  BY DEF AddTag
<1> HIDE DEF v
<1>4. w \in Instance /\ OldAreIn(w, E) /\ SameQueries(w, v)
  BY <1>2, EnterKeeps
<1> HIDE DEF w
<1>5. Sound(w, E) /\ w.loading = in.loading
  BY <1>1, <1>2, <1>4 DEF Sound, SameQueries, WaitsRight
<1> QED
  BY <1>3, <1>5, CommitKeeps

LEMMA AddTagsKeep ==
  ASSUME NEW E, NEW in, Sound(in, E), NEW T \in SUBSET (TagPath \cap E)
  PROVE  Sound(AddTags(in, T), E) /\ AddTags(in, T).loading = in.loading
<1> DEFINE G == {v \in Instance : Sound(v, E) /\ v.loading = in.loading}
<1>1. IsFiniteSet(T)
  BY TagPathAssumption, FS_Subset
<1>2. in \in G
  BY DEF Sound
<1>3. \A v \in G, t \in T : AddTag(v, t) \in G
  <2> TAKE v \in G, t \in T
  <2>1. Sound(AddTag(v, t), E) /\ AddTag(v, t).loading = v.loading
    BY AddTagKeeps
  <2> QED
    BY <2>1 DEF Sound
<1>4. AddTags(in, T) \in G
  <2> HIDE DEF G
  <2> QED
    BY <1>1, <1>2, <1>3, AddTagsStays
<1> QED
  BY <1>4

LEMMA CommitQuiet ==
  ASSUME NEW E, NEW in \in Instance, OldAreIn(in, E), in.loading = NoText
  PROVE  /\ Commit(in) \in Instance /\ OldAreIn(Commit(in), E)
         /\ Commit(in).typed = NoText /\ Commit(in).loading = NoText
         /\ Commit(in).pendingRequest = in.pendingRequest
         /\ Commit(in).curTagsArr = in.curTagsArr
         /\ Commit(in).tagsPending = in.tagsPending /\ Commit(in).givenUp = in.givenUp
<1> DEFINE empty == [in EXCEPT !.typed = NoText, !.menu = FALSE]
<1>1. /\ empty \in Instance /\ OldAreIn(empty, E)
      /\ empty.typed = NoText /\ empty.loading = NoText
      /\ empty.pendingRequest = in.pendingRequest
      /\ empty.curTagsArr = in.curTagsArr
      /\ empty.tagsPending = in.tagsPending /\ empty.givenUp = in.givenUp
  BY DEF Instance, OldAreIn, Text
<1>2. CASE in.typed = NoText
  BY <1>2 DEF Commit
<1>3. CASE in.typed # NoText /\ in.curTagsArr = <<>>
  BY <1>1, <1>3 DEF Commit
<1>4. CASE in.typed # NoText /\ in.curTagsArr # <<>>
  <2>1. in.curTagsArr[1] \in TagPath
    BY <1>4 DEF Instance
  <2>2. Commit(in) = Enter(empty, in.curTagsArr[1])
    BY <1>4 DEF Commit
  <2> HIDE DEF empty
  <2>3. /\ Commit(in) \in Instance /\ OldAreIn(Commit(in), E)
        /\ SameQueries(Commit(in), empty)
    BY <1>1, <2>1, <2>2, EnterKeeps
  <2> QED
    BY <1>1, <2>3 DEF SameQueries
<1> QED
  BY <1>2, <1>3, <1>4

LEMMA FreshSound ==
  ASSUME NEW E
  PROVE  Sound(Fresh, E) /\ Fresh.loading = NoText
BY DEF Fresh, Sound, Instance, OldAreIn, WaitsRight, Text, Known

LEMMA TypeKeeps ==
  ASSUME NEW E, NEW in, Sound(in, E), NEW p \in Pattern
  PROVE  Sound(Type(in, p), E) /\ Type(in, p).loading # NoText
<1> DEFINE typed == [in EXCEPT !.typed = p]
           v == Type(in, p)
<1>1. in \in Instance /\ OldAreIn(in, E) /\ WaitsRight(in) /\ p # NoText
  BY PatternAssumption DEF Sound
<1>2. CASE in.loading = NoText
  <2>1. v = [typed EXCEPT !.pendingRequest = NoText, !.loading = p, !.givenUp = @ \ {p}]
    BY <1>2 DEF Type, Query
  <2>2. /\ v \in Instance
        /\ v.tagsByPath = in.tagsByPath /\ v.selectedTagIDs = in.selectedTagIDs
        /\ v.typed = p /\ v.loading = p /\ v.pendingRequest = NoText
        /\ v.tagsPending = in.tagsPending /\ v.givenUp = in.givenUp \ {p}
    BY <1>1, <2>1, ZenonT(30) DEF Instance, Text
  <2>3. v = Type(in, p)
    OBVIOUS
  <2> HIDE DEF v
  <2> QED
    BY <1>1, <1>2, <2>2, <2>3 DEF Sound, OldAreIn, WaitsRight
<1>3. CASE in.loading # NoText
  <2> DEFINE up == (in.givenUp \cup ({in.pendingRequest} \cap Pattern)) \ {p}
  <2>1. v = [typed EXCEPT !.pendingRequest = p, !.givenUp = up]
    BY <1>1, <1>3 DEF Type, Instance
  <2>2. /\ v \in Instance
        /\ v.tagsByPath = in.tagsByPath /\ v.selectedTagIDs = in.selectedTagIDs
        /\ v.typed = p /\ v.loading = in.loading /\ v.pendingRequest = p
        /\ v.tagsPending = in.tagsPending /\ v.givenUp = up
    BY <1>1, <2>1, ZenonT(30) DEF Instance, Text
  <2>3. in.tagsPending \subseteq Pattern
    BY <1>1 DEF Instance
  <2>4. v = Type(in, p)
    OBVIOUS
  <2> HIDE DEF v
  <2> QED
    BY <1>1, <1>3, <2>2, <2>3, <2>4 DEF Sound, OldAreIn, WaitsRight
<1> QED
  BY <1>2, <1>3

LEMMA FailedKeeps ==
  ASSUME NEW E, NEW in, Sound(in, E), in.loading # NoText
  PROVE  Sound(Failed(in), E) /\ Failed(in).loading = NoText
<1> DEFINE v == Failed(in)
           up == in.givenUp \cup ({in.loading, in.pendingRequest} \cap Pattern)
<1>1. in \in Instance /\ OldAreIn(in, E) /\ WaitsRight(in)
  BY DEF Sound
<1>2. v = [in EXCEPT !.loading = NoText, !.givenUp = up]
  BY <1>1 DEF Failed, Instance
<1>3. /\ v \in Instance
      /\ v.tagsByPath = in.tagsByPath /\ v.selectedTagIDs = in.selectedTagIDs
      /\ v.typed = in.typed /\ v.loading = NoText
      /\ v.tagsPending = in.tagsPending /\ v.givenUp = up
  BY <1>1, <1>2 DEF Instance, Text
<1>4. in.tagsPending \subseteq Pattern /\ in.typed \in Text
      /\ in.loading \in Text /\ in.pendingRequest \in Text
  BY <1>1 DEF Instance
<1>5. v = Failed(in)
  OBVIOUS
<1> HIDE DEF v
<1> QED
  BY <1>1, <1>3, <1>4, <1>5 DEF Sound, OldAreIn, WaitsRight, Text

LEMMA AnsweredKeeps ==
  ASSUME NEW E, NEW in, Sound(in, E), in.loading # NoText
  PROVE  Sound(Answered(in, E), E)
<1> DEFINE p == in.loading
           q == in.pendingRequest
           found == Suggested[p]
           byPath == [t \in TagPath |-> IF t \notin ToSet(found) THEN in.tagsByPath[t]
                                        ELSE IF t \in E THEN "old" ELSE "new"]
           now == [in EXCEPT !.loading = NoText,
                             !.menu = found # <<>> /\ in.typed # NoText,
                             !.curTagsArr = found,
                             !.tagsByPath = byPath]
           w == Replace(now, p)
<1>1. in \in Instance /\ OldAreIn(in, E) /\ WaitsRight(in)
  BY DEF Sound
<1>2. p \in Pattern /\ found \in Seq(TagPath) /\ in.tagsPending \subseteq Pattern
      /\ in.typed \in Text /\ q \in Text
  BY <1>1, SuggestedAssumption DEF Instance, Text
<1>3. byPath \in [TagPath -> Known] /\ \A t \in TagPath : byPath[t] = "old" => t \in E
  BY <1>1 DEF Instance, Known, OldAreIn
<1>4. Answered(in, E) = NextQuery(w)
  BY <1>1 DEF Answered, Instance
<1> HIDE DEF found, byPath
<1>5. /\ now \in Instance /\ OldAreIn(now, E)
      /\ now.typed = in.typed /\ now.loading = NoText /\ now.pendingRequest = q
      /\ now.curTagsArr = found
      /\ now.tagsPending = in.tagsPending /\ now.givenUp = in.givenUp
  BY <1>1, <1>2, <1>3 DEF Instance, OldAreIn, Text
<1> HIDE DEF now
<1>6. /\ w \in Instance /\ OldAreIn(w, E)
      /\ w.typed \in {NoText, in.typed} /\ w.loading = NoText /\ w.pendingRequest = q
      /\ w.curTagsArr = found
      /\ w.tagsPending = in.tagsPending \ {p} /\ w.givenUp = in.givenUp
  <2>1. CASE p \notin now.tagsPending
    BY <1>5, <2>1 DEF Replace
  <2>2. CASE p \in now.tagsPending
    <3> DEFINE settled == [now EXCEPT !.tagsPending = @ \ {p}]
    <3>1. /\ settled \in Instance /\ OldAreIn(settled, E)
          /\ settled.typed = in.typed /\ settled.loading = NoText
          /\ settled.pendingRequest = q /\ settled.curTagsArr = found
          /\ settled.tagsPending = in.tagsPending \ {p} /\ settled.givenUp = in.givenUp
      BY <1>5 DEF Instance, OldAreIn
    <3>2. CASE found = <<>>
      BY <1>5, <2>2, <3>1, <3>2 DEF Replace
    <3>3. CASE found # <<>>
      <4> DEFINE e == Enter(settled, found[1])
      <4>1. w = Commit(e)
        BY <1>5, <2>2, <3>1, <3>3 DEF Replace
      <4>2. found[1] \in TagPath
        BY <1>2, <3>3
      <4> HIDE DEF settled, w
      <4>3. e \in Instance /\ OldAreIn(e, E) /\ SameQueries(e, settled)
        BY <3>1, <4>2, EnterKeeps
      <4> HIDE DEF e
      <4> QED
        BY <3>1, <4>1, <4>3, CommitQuiet DEF SameQueries
    <3> QED
      BY <3>2, <3>3
  <2> QED
    BY <2>1, <2>2
<1> HIDE DEF w
<1>7. CASE q = NoText
  <2>1. Answered(in, E) = w
    BY <1>4, <1>6, <1>7 DEF NextQuery
  <2> QED
    BY <1>1, <1>2, <1>6, <1>7, <2>1, PatternAssumption DEF Sound, WaitsRight, found
<1>8. CASE q # NoText
  <2> DEFINE v == Answered(in, E)
  <2>1. v = [w EXCEPT !.pendingRequest = NoText, !.loading = q, !.givenUp = @ \ {q}]
    BY <1>4, <1>6, <1>8 DEF NextQuery, Query
  <2>2. /\ v \in Instance
        /\ v.tagsByPath = w.tagsByPath /\ v.selectedTagIDs = w.selectedTagIDs
        /\ v.typed = w.typed /\ v.loading = q /\ v.pendingRequest = NoText
        /\ v.tagsPending = w.tagsPending /\ v.givenUp = in.givenUp \ {q}
    BY <1>2, <1>6, <2>1, ZenonT(30) DEF Instance, Text
  <2>3. v = Answered(in, E)
    OBVIOUS
  <2> HIDE DEF v
  <2> QED
    BY <1>1, <1>6, <1>8, <2>2, <2>3 DEF Sound, OldAreIn, WaitsRight
<1> QED
  BY <1>7, <1>8

-----------------------------------------------------------------------------
(* Windows, ports and tabs.                                                *)

LEMMA InitIInv == Init => IInv
<1> SUFFICES ASSUME Init PROVE IInv
  OBVIOUS
<1>1. TypeOK
  <2>1. input \in Instance /\ server \in Server
    BY FreshSound, AtServerAssumption DEF Init, Sound
  <2>2. NoUrl \in AnyUrl
    BY DEF AnyUrl
  <2>3. ctx \in [there : BOOLEAN, port : BOOLEAN, tab : AnyUrl]
    BY <2>2 DEF Init, Absent
  <2>4. page \in [open : BOOLEAN, ready : BOOLEAN, curTab : AnyUrl, loads : Nat]
    BY <2>2 DEF Init, NoPage
  <2>5. form \in [bkmID : Nat, curTabUrl : AnyUrl, url : AnyUrl, enabled : BOOLEAN]
    BY <2>2 DEF Init, EmptyForm, NoBookmark
  <2>6. /\ <<>> \in Seq(1..inits) /\ <<>> \in Seq(Request) /\ <<>> \in Seq(Submission)
        /\ <<>> \in Seq(Url)
    OBVIOUS
  <2> QED
    BY <2>1, <2>3, <2>4, <2>5, <2>6 DEF Init, TypeOK
<1>2. PagesInv
  BY DEF Init, PagesInv, WindowInv, PageInv, TabInv, Absent, NoPage, EmptyForm
<1>3. TagsExist /\ WaitsRight(input)
  BY FreshSound DEF Init, Sound, TagsExist
<1>4. TypedIsAsked
  BY FreshSound DEF Init, Sound, WaitsRight, TypedIsAsked, QueriesOut
<1>5. IdInv /\ LookupInv /\ OrphanInv
  BY DEF Init, IdInv, LookupInv, OrphanInv, LookupsOut, Ids, EmptyForm
<1>6. AddInv /\ SubmitInv /\ SavedAsMeant
  BY DEF Init, AddInv, SubmitInv, SavedAsMeant, ToSet
<1> QED
  BY <1>1, <1>2, <1>3, <1>4, <1>5, <1>6 DEF IInv, RequestsInv, QueryInv

\* The steps of background.js and page-wrapper.js leave the form alone.
LEMMA RequestsUnchanged ==
  ASSUME RequestsInv, UNCHANGED <<editVars, server>>
  PROVE  RequestsInv'
BY DEF RequestsInv, editVars, IdInv, Ids, LookupInv, LookupsOut, Shows, WithUrl, OrphanInv,
       AddInv, AddsOut, Missing, Short, Asked, SubmitInv, SavesOut, Unchanged, SavedAsMeant,
       TagsExist,
       QueryInv, TypedIsAsked, QueriesOut, TagQuery

LEMMA WindowTypes ==
  ASSUME TypeOK, UNCHANGED <<editVars, server>>,
         ctx' \in [there : BOOLEAN, port : BOOLEAN, tab : AnyUrl],
         opening' \in Nat,
         threw' \subseteq {"noPort", "portGone", "portExists"},
         page' \in [open : BOOLEAN, ready : BOOLEAN, curTab : AnyUrl, loads : Nat],
         toPage' \in Seq(Url),
         cleared' \in BOOLEAN
  PROVE  TypeOK'
BY DEF TypeOK, editVars

LEMMA CommandKeeps ==
  ASSUME IInv, NEW u \in Url, Command(u)
  PROVE  IInv'
<1> USE DEF editVars
<1>1. RequestsInv'
  BY RequestsUnchanged DEF IInv, Command
<1>2. CASE ~ctx.there
  <2>1. /\ ctx' = [there |-> TRUE, port |-> FALSE, tab |-> u] /\ opening' = opening + 1
        /\ UNCHANGED <<threw, toPage, page, cleared, editVars, server>>
    BY <1>2 DEF Command, IsThere
  <2>2. opening = 0 /\ ~page.open /\ ~cleared
    BY <1>2 DEF IInv, TypeOK, PagesInv, WindowInv
  <2>3. TypeOK'
    <3>1. opening' \in Nat /\ ctx' \in [there : BOOLEAN, port : BOOLEAN, tab : AnyUrl]
      BY <2>1, <2>2 DEF AnyUrl
    <3> QED
      BY <2>1, <3>1, WindowTypes DEF IInv, TypeOK
  <2>4. PagesInv'
    BY <2>1, <2>2 DEF IInv, TypeOK, PagesInv, WindowInv, PageInv, TabInv, NoPage
  <2> QED
    BY <1>1, <2>3, <2>4 DEF IInv
<1>3. CASE ctx.there
  <2>1. /\ ctx' = [ctx EXCEPT !.tab = u]
        /\ toPage' = IF ctx.port /\ page.open THEN Append(toPage, u) ELSE toPage
        /\ threw' = threw \cup (IF ~ctx.port THEN {"noPort"}
                                ELSE IF ~page.open THEN {"portGone"} ELSE {})
        /\ UNCHANGED <<opening, page, cleared, editVars, server>>
    BY <1>3 DEF Command, IsThere
  <2>2. TypeOK'
    <3>1. u \in AnyUrl
      BY DEF AnyUrl
    <3>2. ctx' \in [there : BOOLEAN, port : BOOLEAN, tab : AnyUrl]
      BY <2>1, <3>1 DEF IInv, TypeOK
    <3>3. toPage \in Seq(Url) /\ Append(toPage, u) \in Seq(Url)
      BY DEF IInv, TypeOK
    <3>4. toPage' \in Seq(Url)
      BY <2>1, <3>3
    <3>5. threw' \subseteq {"noPort", "portGone", "portExists"}
      BY <2>1 DEF IInv, TypeOK
    <3> QED
      BY <2>1, <3>2, <3>4, <3>5, WindowTypes DEF IInv, TypeOK
  <2>3. ctx'.tab = u /\ ctx'.there = ctx.there /\ ctx'.port = ctx.port
        /\ ("portExists" \in threw' => "portExists" \in threw)
    BY <2>1 DEF IInv, TypeOK
  <2>4. WindowInv'
    BY <2>1, <2>3 DEF IInv, PagesInv, WindowInv
  <2>5. CASE page.open
    <3>1. toPage' = Append(toPage, u) /\ toPage \in Seq(Url)
      BY <2>1, <2>5 DEF IInv, TypeOK, PagesInv, WindowInv
    <3>2. toPage' # <<>> /\ toPage'[Len(toPage')] = u
      BY <3>1
    <3> QED
      BY <1>1, <2>1, <2>2, <2>3, <2>4, <2>5, <3>2 DEF IInv, PagesInv, PageInv, TabInv
  <2>6. CASE ~page.open
    BY <1>1, <2>1, <2>2, <2>3, <2>4, <2>6 DEF IInv, PagesInv, PageInv, TabInv
  <2> QED
    BY <2>5, <2>6
<1> QED
  BY <1>2, <1>3 DEF IInv, TypeOK

LEMMA ConnectKeeps ==
  ASSUME IInv, Connect
  PROVE  IInv'
<1>1. RequestsInv'
  BY RequestsUnchanged DEF IInv, Connect
<1>2. /\ opening = 1 /\ ctx.there /\ ~ctx.port /\ ~page.open /\ ~cleared
      /\ ctx.tab \in Url
  BY DEF Connect, IInv, TypeOK, PagesInv, WindowInv
<1>3. /\ opening' = 0 /\ page' = [NoPage EXCEPT !.open = TRUE]
      /\ ctx' = [ctx EXCEPT !.port = TRUE] /\ toPage' = <<ctx.tab>>
      /\ UNCHANGED <<threw, cleared, editVars, server>>
  BY <1>2 DEF Connect
<1>4. ctx'.there /\ ctx'.port /\ ctx'.tab = ctx.tab
  BY <1>2, <1>3 DEF IInv, TypeOK
<1>5. toPage' \in Seq(Url) /\ toPage' # <<>> /\ toPage'[Len(toPage')] = ctx.tab
  BY <1>2, <1>3
<1>6. page' = [open |-> TRUE, ready |-> FALSE, curTab |-> NoUrl, loads |-> 0]
  BY <1>3 DEF NoPage
<1>7. TypeOK'
  <2>1. ctx' \in [there : BOOLEAN, port : BOOLEAN, tab : AnyUrl]
    BY <1>3 DEF IInv, TypeOK
  <2>2. NoUrl \in AnyUrl
    BY DEF AnyUrl
  <2>3. page' \in [open : BOOLEAN, ready : BOOLEAN, curTab : AnyUrl, loads : Nat]
    BY <1>6, <2>2
  <2> QED
    BY <1>3, <1>5, <2>1, <2>3, WindowTypes DEF IInv, TypeOK
<1>8. PagesInv'
  BY <1>2, <1>3, <1>4, <1>5, <1>6
  DEF IInv, PagesInv, WindowInv, PageInv, TabInv, editVars
<1> QED
  BY <1>1, <1>7, <1>8 DEF IInv

LEMMA ClearCurTabKeeps ==
  ASSUME IInv, ClearCurTab
  PROVE  IInv'
<1>1. RequestsInv'
  BY RequestsUnchanged DEF IInv, ClearCurTab
<1>2. opening = 0 /\ ~page.open
  BY DEF ClearCurTab, IInv, TypeOK, PagesInv, WindowInv
<1>3. TypeOK'
  BY DEF ClearCurTab, IInv, TypeOK, AnyUrl, editVars, Absent
<1>4. PagesInv'
  BY <1>2 DEF ClearCurTab, IInv, PagesInv, WindowInv, PageInv, TabInv, editVars, Absent, NoPage
<1> QED
  BY <1>1, <1>3, <1>4 DEF IInv

LEMMA CloseEarlyKeeps ==
  ASSUME IInv, CloseEarly
  PROVE  IInv'
<1>1. RequestsInv'
  BY RequestsUnchanged DEF IInv, CloseEarly
<1>2. TypeOK'
  BY DEF CloseEarly, IInv, TypeOK, editVars, wrapperVars
<1>3. PagesInv'
  BY DEF CloseEarly, IInv, TypeOK, PagesInv, WindowInv, PageInv, TabInv, editVars, wrapperVars
<1> QED
  BY <1>1, <1>2, <1>3 DEF IInv

LEMMA IfReadyIs ==
  ASSUME NEW pg \in [open : BOOLEAN, ready : BOOLEAN, curTab : AnyUrl, loads : Nat]
  PROVE  /\ IfReady(pg) \in [open : BOOLEAN, ready : BOOLEAN, curTab : AnyUrl, loads : Nat]
         /\ IfReady(pg).open = pg.open /\ IfReady(pg).ready = pg.ready
         /\ IfReady(pg).curTab = pg.curTab
         /\ IfReady(pg).loads =
              IF pg.ready /\ pg.curTab # NoUrl THEN pg.loads + 1 ELSE pg.loads
BY DEF IfReady

LEMMA SetCurTabKeeps ==
  ASSUME IInv, SetCurTab
  PROVE  IInv'
<1> DEFINE pg == [page EXCEPT !.curTab = toPage[1]]
<1>1. RequestsInv'
  BY RequestsUnchanged DEF IInv, SetCurTab
<1>2. /\ toPage \in Seq(Url) /\ toPage # <<>> /\ toPage[1] \in Url /\ toPage[1] # NoUrl
      /\ Tail(toPage) \in Seq(Url)
      /\ Tail(toPage) = <<>> => toPage[1] = toPage[Len(toPage)]
      /\ Tail(toPage) # <<>> => Tail(toPage)[Len(Tail(toPage))] = toPage[Len(toPage)]
  <2>1. toPage \in Seq(Url) /\ toPage # <<>>
    BY DEF IInv, TypeOK, SetCurTab
  <2>2. /\ toPage[1] \in Url /\ Tail(toPage) \in Seq(Url) /\ Len(toPage) \in Nat
        /\ Len(Tail(toPage)) = Len(toPage) - 1
        /\ \A i \in 1..(Len(toPage) - 1) : Tail(toPage)[i] = toPage[i + 1]
    BY <2>1
  <2>3. Tail(toPage) = <<>> => Len(toPage) = 1
    BY <2>2
  <2>4. Tail(toPage) # <<>> => Len(toPage) - 1 \in 1..(Len(toPage) - 1)
    BY <2>1, <2>2
  <2> QED
    BY <2>1, <2>2, <2>3, <2>4, UrlAssumption
<1>3. /\ pg \in [open : BOOLEAN, ready : BOOLEAN, curTab : AnyUrl, loads : Nat]
      /\ pg.open = page.open /\ pg.ready = page.ready /\ pg.curTab = toPage[1]
      /\ pg.loads = page.loads
  BY <1>2 DEF IInv, TypeOK, AnyUrl
<1>4. page' = IfReady(pg) /\ toPage' = Tail(toPage) /\ page.open
      /\ UNCHANGED <<backVars, cleared, editVars, server>>
  BY DEF SetCurTab
<1> HIDE DEF pg
<1>5. /\ page' \in [open : BOOLEAN, ready : BOOLEAN, curTab : AnyUrl, loads : Nat]
      /\ page'.open = page.open /\ page'.ready = page.ready /\ page'.curTab = toPage[1]
      /\ page'.loads = IF page.ready THEN page.loads + 1 ELSE page.loads
  BY <1>2, <1>3, <1>4, IfReadyIs, ZenonT(30)
<1>6. TypeOK'
  BY <1>2, <1>4, <1>5, WindowTypes DEF IInv, TypeOK, backVars
<1>7. WindowInv'
  BY <1>4, <1>5 DEF IInv, PagesInv, WindowInv, backVars
<1>8. PageInv'
  BY <1>4, <1>5 DEF IInv, PagesInv, PageInv, editVars
<1>9. TabInv'
  <2>1. page.loads \in Nat /\ (form.curTabUrl # NoUrl => page.ready)
    BY DEF IInv, TypeOK, PagesInv, PageInv
  <2>2. (page'.loads > 0 => page.ready) /\ (page'.loads = 0 => ~page.ready)
    BY <1>5, <2>1 DEF IInv, PagesInv, TabInv
  <2> QED
    BY <1>2, <1>4, <1>5, <2>1, <2>2 DEF IInv, PagesInv, TabInv, editVars, backVars
<1> QED
  BY <1>1, <1>6, <1>7, <1>8, <1>9 DEF IInv, PagesInv

LEMMA DocumentReadyKeeps ==
  ASSUME IInv, DocumentReady
  PROVE  IInv'
<1> DEFINE pg == [page EXCEPT !.ready = TRUE]
<1>1. RequestsInv'
  BY RequestsUnchanged DEF IInv, DocumentReady
<1>2. /\ pg \in [open : BOOLEAN, ready : BOOLEAN, curTab : AnyUrl, loads : Nat]
      /\ pg.open = page.open /\ pg.ready /\ pg.curTab = page.curTab
      /\ pg.loads = page.loads
  BY DEF IInv, TypeOK, AnyUrl
<1>3. page' = IfReady(pg) /\ page.open /\ ~page.ready
      /\ UNCHANGED <<backVars, toPage, cleared, editVars, server>>
  BY DEF DocumentReady
<1> HIDE DEF pg
<1>4. /\ page' \in [open : BOOLEAN, ready : BOOLEAN, curTab : AnyUrl, loads : Nat]
      /\ page'.open = page.open /\ page'.ready /\ page'.curTab = page.curTab
      /\ page'.loads = IF page.curTab # NoUrl THEN page.loads + 1 ELSE page.loads
  <2>1. /\ IfReady(pg) \in [open : BOOLEAN, ready : BOOLEAN, curTab : AnyUrl, loads : Nat]
        /\ IfReady(pg).open = pg.open /\ IfReady(pg).ready = pg.ready
        /\ IfReady(pg).curTab = pg.curTab
        /\ IfReady(pg).loads =
             IF pg.ready /\ pg.curTab # NoUrl THEN pg.loads + 1 ELSE pg.loads
    BY <1>2, IfReadyIs
  <2> QED
    BY <1>2, <1>3, <2>1
<1>5. TypeOK'
  BY <1>3, <1>4, WindowTypes DEF IInv, TypeOK, backVars
<1>6. PagesInv'
  BY <1>3, <1>4 DEF IInv, TypeOK, PagesInv, WindowInv, PageInv, TabInv, editVars, backVars
<1> QED
  BY <1>1, <1>5, <1>6 DEF IInv

-----------------------------------------------------------------------------
(* The requests that are out: the first d of them go, those of R are added *)
(* at the end.                                                             *)

Shifted(q2, q, d, R) ==
  /\ \A i \in DOMAIN q2 : \/ i + d \in DOMAIN q /\ q2[i] = q[i + d]
                          \/ i + d > Len(q) /\ q2[i] \in R
  /\ \A i \in DOMAIN q : i > d => i - d \in DOMAIN q2 /\ q2[i - d] = q[i]

LEMMA ConcatShifts ==
  ASSUME NEW q \in Seq(Request), NEW n \in Seq(Request), NEW R, \A i \in DOMAIN n : n[i] \in R
  PROVE  q \o n \in Seq(Request) /\ Shifted(q \o n, q, 0, R)
<1>1. /\ q \o n \in Seq(Request) /\ Len(q \o n) = Len(q) + Len(n)
      /\ Len(q) \in Nat /\ Len(n) \in Nat
      /\ DOMAIN q = 1..Len(q) /\ DOMAIN n = 1..Len(n) /\ DOMAIN (q \o n) = 1..Len(q \o n)
      /\ \A i \in 1..Len(q \o n) : (q \o n)[i] = IF i <= Len(q) THEN q[i] ELSE n[i - Len(q)]
  OBVIOUS
<1> QED
  BY <1>1 DEF Shifted

LEMMA AppendShifts ==
  ASSUME NEW q \in Seq(Request), NEW r \in Request
  PROVE  Append(q, r) \in Seq(Request) /\ Shifted(Append(q, r), q, 0, {r})
<1>1. /\ Append(q, r) \in Seq(Request) /\ Len(Append(q, r)) = Len(q) + 1 /\ Len(q) \in Nat
      /\ DOMAIN q = 1..Len(q) /\ DOMAIN Append(q, r) = 1..(Len(q) + 1)
      /\ \A i \in 1..Len(q) : Append(q, r)[i] = q[i]
      /\ Append(q, r)[Len(q) + 1] = r
  OBVIOUS
<1> QED
  BY <1>1 DEF Shifted

LEMMA TailShifts ==
  ASSUME NEW q \in Seq(Request), q # <<>>, NEW R
  PROVE  Tail(q) \in Seq(Request) /\ Shifted(Tail(q), q, 1, R)
<1>1. /\ Tail(q) \in Seq(Request) /\ Len(Tail(q)) = Len(q) - 1 /\ Len(q) \in Nat /\ Len(q) > 0
      /\ DOMAIN q = 1..Len(q) /\ DOMAIN Tail(q) = 1..(Len(q) - 1)
      /\ \A i \in 1..(Len(q) - 1) : Tail(q)[i] = q[i + 1]
  OBVIOUS
<1> QED
  BY <1>1 DEF Shifted

LEMMA TailConcatShifts ==
  ASSUME NEW q \in Seq(Request), q # <<>>, NEW r \in Request
  PROVE  /\ Tail(q) \o <<r>> \in Seq(Request) /\ Shifted(Tail(q) \o <<r>>, q, 1, {r})
         /\ DOMAIN (Tail(q) \o <<r>>) = 1..Len(q) /\ (Tail(q) \o <<r>>)[Len(q)] = r
<1>1. /\ Tail(q) \in Seq(Request) /\ Len(Tail(q)) = Len(q) - 1 /\ Len(q) \in Nat /\ Len(q) > 0
      /\ DOMAIN q = 1..Len(q)
      /\ \A i \in 1..(Len(q) - 1) : Tail(q)[i] = q[i + 1]
  OBVIOUS
<1> DEFINE p == Tail(q)
<1> HIDE DEF p
<1>2. /\ p \in Seq(Request) => /\ p \o <<r>> \in Seq(Request)
                              /\ DOMAIN (p \o <<r>>) = 1..(Len(p) + 1)
                              /\ \A i \in 1..Len(p) : (p \o <<r>>)[i] = p[i]
                              /\ (p \o <<r>>)[Len(p) + 1] = r
  OBVIOUS
<1> QED
  BY <1>1, <1>2 DEF Shifted, p

\* A request that nobody will get the answer to is the same for the server.
LEMMA OrphanIs ==
  ASSUME NEW r \in Request
  PROVE  LET o == [r EXCEPT !.init = 0]
         IN  /\ o \in Request /\ o.init = 0 /\ o.kind = r.kind
             /\ r.kind = "lookup" => o.id = r.id /\ o.url = r.url
             /\ r.kind = "addTag" => o.sub = r.sub /\ o.path = r.path
             /\ r.kind = "save" => o.sub = r.sub /\ o.id = r.id /\ o.url = r.url
                                   /\ o.tags = r.tags
<1>1. CASE r \in [kind : {"tags"}, init : Nat]
  BY <1>1 DEF Request
<1>2. CASE r \in [kind : {"lookup"}, init : Nat, id : Nat, url : AnyUrl]
  BY <1>2 DEF Request
<1>3. CASE r \in [kind : {"addTag"}, init : Nat, sub : Nat, path : TagPath]
  BY <1>3 DEF Request
<1>4. CASE r \in [kind : {"save"}, init : Nat, sub : Nat, id : Nat, url : AnyUrl,
                  tags : SUBSET TagPath]
  BY <1>4 DEF Request
<1> QED
  BY <1>1, <1>2, <1>3, <1>4 DEF Request

LEMMA RequestIs ==
  ASSUME NEW r \in Request
  PROVE  /\ r.init \in Nat
         /\ r.kind \in {"tags", "lookup", "addTag", "save"}
         /\ r.kind = "tags" => r = [kind |-> "tags", init |-> r.init]
         /\ r.kind = "lookup" => r.id \in Nat /\ r.url \in AnyUrl
         /\ r.kind = "addTag" => r.sub \in Nat /\ r.path \in TagPath
         /\ r.kind = "save" => r.sub \in Nat /\ r.id \in Nat /\ r.url \in AnyUrl
                               /\ r.tags \subseteq TagPath
BY DEF Request

\* A request goes on with or without the page: it is the same for the server.
Like(r2, r) ==
  /\ r2.kind = r.kind /\ r2.init \in {0, r.init}
  /\ r.kind = "lookup" => r2.id = r.id /\ r2.url = r.url
  /\ r.kind = "addTag" => r2.sub = r.sub /\ r2.path = r.path
  /\ r.kind = "save" => r2.sub = r.sub /\ r2.id = r.id /\ r2.url = r.url /\ r2.tags = r.tags

Moved(q2, q, d, R) ==
  /\ \A i \in DOMAIN q2 : \/ i + d \in DOMAIN q /\ Like(q2[i], q[i + d])
                          \/ i + d > Len(q) /\ q2[i] \in R
  /\ \A i \in DOMAIN q : i > d => i - d \in DOMAIN q2 /\ Like(q2[i - d], q[i])

LEMMA ShiftedMoves ==
  ASSUME NEW q2, NEW q, NEW d, NEW R, Shifted(q2, q, d, R)
  PROVE  Moved(q2, q, d, R)
BY DEF Shifted, Moved, Like

LEMMA OrphansMove ==
  ASSUME NEW q \in Seq(Request), NEW d \in {0, 1}, NEW p \in Seq(Request),
         Shifted(p, q, d, {})
  PROVE  /\ Orphaned(p) \in Seq(Request) /\ Moved(Orphaned(p), q, d, {})
         /\ \A i \in DOMAIN Orphaned(p) : Orphaned(p)[i].init = 0
<1>1. \A i \in DOMAIN p : p[i] \in Request
  OBVIOUS
<1>2. \A i \in DOMAIN p : LET o == [p[i] EXCEPT !.init = 0]
                          IN  o \in Request /\ o.init = 0 /\ Like(o, p[i])
  BY <1>1, OrphanIs DEF Like
<1> DEFINE o == Orphaned(p)
<1>3. DOMAIN o = DOMAIN p /\ \A i \in DOMAIN p : o[i] = [p[i] EXCEPT !.init = 0]
  BY DEF Orphaned
<1>4. /\ \A i \in DOMAIN p : o[i] \in Request /\ o[i].init = 0 /\ Like(o[i], p[i])
  BY <1>2, <1>3
<1>5. o \in Seq(Request)
  <2>1. DOMAIN p = 1..Len(p) /\ Len(p) \in Nat /\ o = [i \in DOMAIN p |-> o[i]]
    BY DEF Orphaned
  <2>2. \A n \in Nat : \A f \in [1..n -> Request] : f \in Seq(Request)
    OBVIOUS
  <2> HIDE DEF o
  <2>3. o \in [DOMAIN p -> Request]
    BY <1>4, <2>1
  <2> QED
    BY <2>1, <2>2, <2>3
<1>6. o = Orphaned(p)
  OBVIOUS
<1> HIDE DEF o
<1>7. Moved(o, q, d, {})
  BY <1>3, <1>4 DEF Shifted, Moved
<1> QED
  BY <1>3, <1>4, <1>5, <1>6, <1>7

LEMMA IdKept ==
  ASSUME IdInv, NEW d, NEW R, Moved(sent', sent, d, R), form'.bkmID \in Ids',
         DOMAIN server.bookmarks \subseteq DOMAIN server'.bookmarks,
         \A r \in R : r.kind \in {"lookup", "save"} => r.id \in Ids'
  PROVE  IdInv'
<1>1. Ids \subseteq Ids'
  BY DEF Ids
<1>2. \A i \in DOMAIN sent' : sent'[i].kind \in {"lookup", "save"} => sent'[i].id \in Ids'
  BY <1>1 DEF IdInv, Moved, Like
<1> QED
  BY <1>2 DEF IdInv

\* The requests are those of the page that is there.
RequestsOfPage ==
  /\ sent # <<>> => inits > 0
  /\ \A i \in DOMAIN sent :
       sent[i].init <= inits /\ (sent[i].init # 0 => form.curTabUrl # NoUrl)

LEMMA OfPageKept ==
  ASSUME TypeOK, RequestsOfPage, NEW d \in {0, 1}, NEW R, Moved(sent', sent, d, R),
         sent' \in Seq(Request), inits' \in Nat, inits <= inits',
         form.curTabUrl # NoUrl => form'.curTabUrl # NoUrl,
         \A r \in R : /\ inits' > 0 /\ r.init <= inits'
                      /\ r.init # 0 => form'.curTabUrl # NoUrl
  PROVE  RequestsOfPage'
<1>0. inits \in Nat /\ \A i \in DOMAIN sent : sent[i] \in Request /\ sent[i].init \in Nat
  <2>1. sent \in Seq(Request) /\ inits \in Nat
    BY DEF TypeOK
  <2>2. \A i \in DOMAIN sent : sent[i] \in Request
    BY <2>1
  <2> QED
    BY <2>1, <2>2, RequestIs
<1>1. ASSUME NEW i \in DOMAIN sent'
      PROVE  /\ inits' > 0
             /\ sent'[i].init <= inits' /\ (sent'[i].init # 0 => form'.curTabUrl # NoUrl)
  <2>1. CASE i + d \in DOMAIN sent /\ Like(sent'[i], sent[i + d])
    <3>1. sent # <<>>
      BY <2>1
    <3> QED
      BY <1>0, <2>1, <3>1 DEF RequestsOfPage, Like
  <2>2. CASE sent'[i] \in R
    BY <2>2
  <2> QED
    BY <2>1, <2>2 DEF Moved
<1>2. sent' # <<>> => 1 \in DOMAIN sent'
  OBVIOUS
<1> QED
  BY <1>1, <1>2 DEF RequestsOfPage

LEMMA LookupKept ==
  ASSUME LookupInv, sent' \in Seq(Request), NEW d \in {0, 1}, NEW R,
         Moved(sent', sent, d, R),
         \A i \in DOMAIN sent' : sent'[i].init # 0 => sent'[i] \in R \/ sent'[i] = sent[i + d],
         \A r \in R : r.kind # "lookup",
         waiting' \in {waiting, <<>>}, overlapped' = overlapped,
         \/ form' = form
         \/ ~form'.enabled /\ waiting' = <<>> /\ \A i \in DOMAIN sent' : sent'[i].init = 0,
         form'.enabled => server'.bookmarks = server.bookmarks
  PROVE  LookupInv'
<1>1. ASSUME NEW i \in LookupsOut'
      PROVE  /\ i \in DOMAIN sent' /\ i + d \in LookupsOut /\ sent'[i] \notin R
             /\ sent'[i].init # 0 => sent'[i] = sent[i + d]
  BY DEF LookupsOut, Moved, Like
<1>2. LookupsOut = {} => LookupsOut' = {}
  BY <1>1
<1>3. ASSUME \A i, j \in LookupsOut : i = j, NEW i \in LookupsOut', NEW j \in LookupsOut'
      PROVE  i = j
  <2>1. i + d = j + d
    BY <1>1, <1>3
  <2>2. \A k \in DOMAIN sent' : k \in Int
    OBVIOUS
  <2> QED
    BY <1>1, <2>1, <2>2
<1>4. ASSUME NEW u PROVE server'.bookmarks = server.bookmarks => WithUrl(u)' = WithUrl(u)
  BY DEF WithUrl
<1> SUFFICES ASSUME ~overlapped
             PROVE  /\ waiting' # <<>> => /\ Len(waiting') = 1 /\ LookupsOut' = {}
                                          /\ ~form'.enabled /\ form'.bkmID = NoBookmark
                    /\ \A i, j \in LookupsOut' : i = j
                    /\ \A i \in LookupsOut' :
                         /\ ~form'.enabled
                         /\ sent'[i].init # 0 => /\ sent'[i].id = NoBookmark
                                                 /\ sent'[i].url = form'.curTabUrl
                                                 /\ form'.bkmID = NoBookmark
                    /\ form'.enabled => Shows(form.curTabUrl)'
  BY DEF LookupInv, Shows, WithUrl
<1> QED
  BY <1>1, <1>2, <1>3, <1>4 DEF LookupInv, Shows

LEMMA OrphanKept ==
  ASSUME TypeOK, OrphanInv, NEW d \in {0, 1}, NEW R, Shifted(sent', sent, d, R),
         sent' \in Seq(Request),
         \A r \in R : r.kind = "save" => r.init # 0,
         form'.enabled => form.enabled \/ (d = 1 /\ 1 \in LookupsOut /\ sent[1].init # 0)
  PROVE  OrphanInv'
<1>1. sent \in Seq(Request)
  BY DEF TypeOK
<1>2. \A i \in DOMAIN sent' : i \in Nat /\ i > 0 /\ i + d > 0
  OBVIOUS
<1> SUFFICES ASSUME NEW i \in DOMAIN sent', sent'[i].kind = "save", sent'[i].init = 0
             PROVE  /\ ~form'.enabled
                    /\ \A j \in LookupsOut' : sent'[j].init # 0 => i < j
  BY DEF OrphanInv
<1>3. i + d \in DOMAIN sent /\ sent'[i] = sent[i + d]
  BY DEF Shifted
<1>4. ~form.enabled /\ \A j \in LookupsOut : sent[j].init # 0 => i + d < j
  BY <1>3 DEF OrphanInv
<1>5. ~form'.enabled
  BY <1>2, <1>4
<1>6. ASSUME NEW j \in LookupsOut', sent'[j].init # 0 PROVE i < j
  <2>1. j \in DOMAIN sent'
    BY DEF LookupsOut
  <2>2. CASE j + d \in DOMAIN sent /\ sent'[j] = sent[j + d]
    BY <1>2, <1>4, <1>6, <2>1, <2>2 DEF LookupsOut
  <2>3. CASE j + d > Len(sent)
    <3>1. i + d <= Len(sent)
      BY <1>1, <1>3
    <3> QED
      BY <1>1, <1>2, <2>1, <2>3, <3>1
  <2> QED
    BY <2>1, <2>2, <2>3 DEF Shifted
<1> QED
  BY <1>5, <1>6

\* The requests for new tags of a submission, when none of them is answered or sent.
LEMMA AddsMove ==
  ASSUME TypeOK, sent' \in Seq(Request), NEW d \in {0, 1}, NEW R, Moved(sent', sent, d, R),
         \A r \in R : r.kind # "addTag", NEW s, d = 1 => 1 \notin AddsOut(s)
  PROVE  /\ \A i \in AddsOut(s)' : i \in Int /\ i + d \in AddsOut(s)
         /\ \A i \in AddsOut(s) : /\ i \in Int /\ i - d \in AddsOut(s)'
                                  /\ sent'[i - d].path = sent[i].path
<1>1. sent \in Seq(Request)
  BY DEF TypeOK
<1>2. \A i \in DOMAIN sent : i \in Int /\ (i > 1 \/ i = 1)
  BY <1>1
<1>3. \A i \in DOMAIN sent' : i \in Int
  OBVIOUS
<1>4. ASSUME NEW i \in AddsOut(s)' PROVE i \in Int /\ i + d \in AddsOut(s)
  <2>1. i \in DOMAIN sent' /\ sent'[i].kind = "addTag" /\ sent'[i].sub = s
    BY DEF AddsOut
  <2>2. i + d \in DOMAIN sent /\ Like(sent'[i], sent[i + d])
    BY <2>1 DEF Moved
  <2> QED
    BY <1>3, <2>1, <2>2 DEF AddsOut, Like
<1>5. ASSUME NEW i \in AddsOut(s)
      PROVE  i \in Int /\ i - d \in AddsOut(s)' /\ sent'[i - d].path = sent[i].path
  <2>1. i \in DOMAIN sent /\ sent[i].kind = "addTag" /\ sent[i].sub = s
    BY DEF AddsOut
  <2>2. i > d
    BY <1>2, <2>1 DEF AddsOut
  <2>3. i - d \in DOMAIN sent' /\ Like(sent'[i - d], sent[i])
    BY <2>1, <2>2 DEF Moved
  <2> QED
    BY <1>2, <2>1, <2>3 DEF AddsOut, Like
<1> QED
  BY <1>4, <1>5

LEMMA AddKept ==
  ASSUME TypeOK, AddInv, sent' \in Seq(Request),
         NEW d \in {0, 1}, NEW R, Moved(sent', sent, d, R),
         \A r \in R : r.kind # "addTag", d = 1 => sent[1].kind # "addTag",
         subs' = subs, inits' \in Nat, inits <= inits', server.tags \subseteq server'.tags
  PROVE  AddInv'
<1> SUFFICES ASSUME NEW s \in DOMAIN subs
             PROVE  /\ subs[s].init \in 1..inits'
                    /\ subs[s].tagIDs \subseteq server'.tags
                    /\ \A i, j \in AddsOut(s)' : j - i < Missing(s)
                    /\ (Short(s) \/ Asked(s))'
  BY DEF AddInv, Missing
<1>1. /\ subs[s].init \in 1..inits /\ subs[s].tagIDs \subseteq server.tags
      /\ \A i, j \in AddsOut(s) : j - i < Missing(s)
      /\ Short(s) \/ Asked(s)
  BY DEF AddInv
<1>2. /\ \A i \in AddsOut(s)' : i \in Int /\ i + d \in AddsOut(s)
      /\ \A i \in AddsOut(s) : /\ i \in Int /\ i - d \in AddsOut(s)'
                               /\ sent'[i - d].path = sent[i].path
  <2>1. d = 1 => 1 \notin AddsOut(s)
    BY DEF AddsOut
  <2> QED
    BY <2>1, AddsMove
<1>3. \A i, j \in AddsOut(s)' : /\ (j + d) - (i + d) = j - i
                                /\ i + d \in AddsOut(s) /\ j + d \in AddsOut(s)
  BY <1>2
<1>4. Missing(s)' = Missing(s)
  BY DEF Missing
<1>5. Short(s) => Short(s)'
  BY <1>3, <1>4 DEF Short
<1>6. Asked(s) => Asked(s)'
  BY <1>2 DEF Asked
<1>7. subs[s].init \in 1..inits'
  BY <1>1 DEF TypeOK
<1>8. \A i, j \in AddsOut(s)' : j - i < Missing(s)
  BY <1>1, <1>3
<1> QED
  BY <1>1, <1>5, <1>6, <1>7, <1>8

LEMMA SubmitKept ==
  ASSUME TypeOK, SubmitInv, NEW d, NEW R, Moved(sent', sent, d, R),
         \A r \in R : r.kind \notin {"addTag", "save"}, subs' = subs,
         \A i \in DOMAIN sent' :
           sent'[i].init = 0 \/ \A s \in DOMAIN subs : Unchanged(s) => Unchanged(s)'
  PROVE  SubmitInv'
<1>1. ASSUME NEW i \in DOMAIN sent', sent'[i].kind \in {"addTag", "save"}
      PROVE  /\ i + d \in DOMAIN sent /\ Like(sent'[i], sent[i + d])
             /\ sent'[i].sub \in DOMAIN subs
             /\ sent'[i].init \in {0, subs[sent'[i].sub].init}
  <2>1. i + d \in DOMAIN sent /\ Like(sent'[i], sent[i + d])
    BY <1>1 DEF Moved
  <2> QED
    BY <1>1, <2>1 DEF Like, SubmitInv
<1>2. ASSUME NEW s \in DOMAIN subs, NEW i \in AddsOut(s)'
      PROVE  /\ i \in DOMAIN sent' /\ i + d \in AddsOut(s)
             /\ sent'[i].init \in {0, sent[i + d].init}
  BY <1>1 DEF AddsOut, Like
<1>3. ASSUME NEW s \in DOMAIN subs, NEW i \in SavesOut(s)' PROVE i + d \in SavesOut(s)
  BY <1>1 DEF SavesOut, Like
<1>4. ASSUME NEW s \in DOMAIN subs, NEW i \in AddsOut(s)', sent'[i].init # 0
      PROVE  Unchanged(s)'
  BY <1>2, <1>4 DEF SubmitInv
<1>5. ASSUME NEW s \in DOMAIN subs, SavesOut(s)' # {} PROVE AddsOut(s)' = {}
  BY <1>2, <1>3, <1>5 DEF SubmitInv
<1> QED
  BY <1>1, <1>4, <1>5 DEF SubmitInv

\* What is said of the request r to save a bookmark.
SavedFrom(r, s, E) ==
  /\ r.tags = s.tagIDs
  /\ ToSet(s.newTagPaths) \subseteq r.tags
  /\ r.tags \subseteq E
  /\ (s.init = inits /\ ~overlapped) => r.id = s.id /\ r.url = s.url

LEMMA SavedByNumber ==
  SavedAsMeant <=> \A i \in DOMAIN sent : sent[i].kind = "save" =>
                     SavedFrom(sent[i], subs[sent[i].sub], server.tags)
<1>1. \A x : x \in ToSet(sent) <=> \E i \in DOMAIN sent : x = sent[i]
  BY DEF ToSet
<1> QED
  BY <1>1 DEF SavedAsMeant, SavedFrom

LEMMA SavedNext ==
  ASSUME UNCHANGED <<inits, overlapped>>,
         \A i \in DOMAIN sent' : sent'[i].kind = "save" =>
           SavedFrom(sent'[i], subs'[sent'[i].sub], server'.tags)
  PROVE  SavedAsMeant'
<1>1. \A x : x \in ToSet(sent') <=> \E i \in DOMAIN sent' : x = sent'[i]
  BY DEF ToSet
<1> QED
  BY <1>1 DEF SavedAsMeant, SavedFrom

LEMMA SavedKept ==
  ASSUME SubmitInv, SavedAsMeant, NEW d, NEW R, Moved(sent', sent, d, R),
         \A r \in R : r.kind # "save", subs' = subs, server.tags \subseteq server'.tags,
         \A s \in DOMAIN subs :
           subs[s].init = inits' /\ ~overlapped' => subs[s].init = inits /\ ~overlapped
  PROVE  SavedAsMeant'
<1> DEFINE Saved(r, s) ==
             /\ r.tags = s.tagIDs
             /\ ToSet(s.newTagPaths) \subseteq r.tags
             /\ r.tags \subseteq server'.tags
             /\ (s.init = inits' /\ ~overlapped') => r.id = s.id /\ r.url = s.url
<1>1. ASSUME NEW i \in DOMAIN sent', sent'[i].kind = "save"
      PROVE  Saved(sent'[i], subs[sent'[i].sub])
  <2>1. i + d \in DOMAIN sent /\ Like(sent'[i], sent[i + d])
    BY <1>1 DEF Moved
  <2> DEFINE r == sent[i + d]
  <2>2. r.kind = "save" /\ r.sub \in DOMAIN subs /\ sent'[i].sub = r.sub
        /\ sent'[i].id = r.id /\ sent'[i].url = r.url /\ sent'[i].tags = r.tags
    BY <1>1, <2>1 DEF Like, SubmitInv
  <2>3. SavedFrom(r, subs[r.sub], server.tags)
    BY <2>1, <2>2, SavedByNumber
  <2> HIDE DEF r
  <2> QED
    BY <2>2, <2>3 DEF SavedFrom
<1>2. SavedAsMeant' <=> \A i \in DOMAIN sent' : sent'[i].kind = "save" =>
                          Saved(sent'[i], subs'[sent'[i].sub])
  <2>1. \A x : x \in ToSet(sent') <=> \E i \in DOMAIN sent' : x = sent'[i]
    BY DEF ToSet
  <2> QED
    BY <2>1 DEF SavedAsMeant
<1> QED
  BY <1>1, <1>2

\* The query of the tag input stays the same, or it is sent.
LEMMA QueryKept ==
  ASSUME TypeOK, QueryInv, sent' \in Seq(Request),
         NEW d \in {0, 1}, NEW R, Shifted(sent', sent, d, R), inits' = inits,
         TagQuery \notin R, d = 1 => sent[1] # TagQuery,
         input'.loading = input.loading, WaitsRight(input')
  PROVE  QueryInv'
<1>1. TagQuery' = TagQuery
  BY DEF TagQuery
<1>2. /\ DOMAIN sent \subseteq Int /\ DOMAIN sent' \subseteq Int
      /\ \A i \in DOMAIN sent : i > 1 \/ i = 1
  <2>1. sent \in Seq(Request) /\ sent' \in Seq(Request)
    BY DEF TypeOK
  <2>2. \A q \in Seq(Request) : DOMAIN q \subseteq Int /\ \A i \in DOMAIN q : i > 1 \/ i = 1
    OBVIOUS
  <2> QED
    BY <2>1, <2>2
<1>3. ASSUME NEW i \in QueriesOut PROVE i \in Int /\ i - d \in QueriesOut'
  <2>1. i \in DOMAIN sent /\ sent[i] = TagQuery
    BY DEF QueriesOut
  <2>2. i > d
    BY <1>2, <2>1 DEF TagQuery
  <2> QED
    BY <1>1, <1>2, <2>1, <2>2 DEF QueriesOut, Shifted
<1>4. ASSUME NEW i \in QueriesOut' PROVE i \in Int /\ i + d \in QueriesOut
  <2>1. i \in DOMAIN sent' /\ sent'[i] = TagQuery
    BY <1>1 DEF QueriesOut
  <2> QED
    BY <1>2, <2>1 DEF QueriesOut, Shifted
<1>5. CASE input.loading = NoText
  BY <1>4, <1>5 DEF QueryInv, TypedIsAsked, WaitsRight
<1>6. CASE input.loading # NoText
  <2>1. PICK i : QueriesOut = {i}
    BY <1>6 DEF QueryInv, TypedIsAsked
  <2>2. i \in Int /\ i - d \in QueriesOut'
    BY <1>3, <2>1
  <2>3. ASSUME NEW j \in QueriesOut' PROVE j = i - d
    BY <1>4, <2>1, <2>2
  <2>4. QueriesOut' = {i - d}
    BY <2>2, <2>3
  <2> QED
    BY <1>6, <2>2, <2>4 DEF QueryInv, TypedIsAsked
<1> QED
  BY <1>5, <1>6

LEMMA QueryIsSent ==
  ASSUME TypeOK, QueryInv, input.loading = NoText, sent' = Append(sent, TagQuery),
         inits' = inits, input'.loading # NoText, WaitsRight(input')
  PROVE  QueryInv'
<1>1. sent \in Seq(Request) /\ inits \in Nat
  BY DEF TypeOK
<1>2. TagQuery \in Request /\ TagQuery' = TagQuery
  BY <1>1 DEF TagQuery, Request
<1>3. /\ DOMAIN sent' = 1..(Len(sent) + 1) /\ DOMAIN sent = 1..Len(sent) /\ Len(sent) \in Nat
      /\ \A i \in 1..Len(sent) : sent'[i] = sent[i]
      /\ sent'[Len(sent) + 1] = TagQuery
  BY <1>1, <1>2
<1>4. QueriesOut = {}
  BY DEF QueryInv, TypedIsAsked
<1>5. QueriesOut' = {Len(sent) + 1}
  BY <1>2, <1>3, <1>4 DEF QueriesOut
<1> QED
  BY <1>5 DEF QueryInv, TypedIsAsked

\* No query is out, and none is waited for.
LEMMA NoQuery ==
  ASSUME input'.loading = NoText, WaitsRight(input'),
         \A i \in DOMAIN sent' : sent'[i].init # inits'
  PROVE  QueryInv'
BY DEF QueryInv, TypedIsAsked, QueriesOut, TagQuery, WaitsRight

-----------------------------------------------------------------------------
(* The page is closed, loaded, connected.                                  *)

LEMMA NothingShifts ==
  ASSUME NEW q \in Seq(Request), NEW R
  PROVE  Shifted(q, q, 0, R)
<1>1. \A i \in DOMAIN q : i \in Int
  OBVIOUS
<1> QED
  BY <1>1 DEF Shifted

LEMMA UnloadKeeps ==
  ASSUME IInv, page.open, Unload, NEW p \in Seq(Request), NEW d \in {0, 1},
         Shifted(p, sent, d, {}), d = 1 => sent[1].kind = "save", sent' = Orphaned(p),
         UNCHANGED <<backVars, inits, subs, overlapped>>,
         server' \in Server, server.tags \subseteq server'.tags,
         DOMAIN server.bookmarks \subseteq DOMAIN server'.bookmarks
  PROVE  IInv'
<1>1. /\ page' = NoPage /\ toPage' = <<>> /\ cleared' = TRUE
      /\ form' = EmptyForm /\ input' = Fresh /\ waiting' = <<>>
      /\ form'.curTabUrl = NoUrl /\ ~form'.enabled /\ form'.bkmID = NoBookmark
  BY DEF Unload, EmptyForm
<1>2. TypeOK /\ sent \in Seq(Request) /\ inits \in Nat
  BY DEF IInv, TypeOK
<1>3. /\ sent' \in Seq(Request) /\ Moved(sent', sent, d, {})
      /\ \A i \in DOMAIN sent' : sent'[i].init = 0
  BY <1>2, OrphansMove
<1>4. Sound(input', server'.tags) /\ input'.loading = NoText
  BY <1>1, FreshSound
<1>5. TypeOK'
  <2>1. NoUrl \in AnyUrl
    BY DEF AnyUrl
  <2>2. form' \in [bkmID : Nat, curTabUrl : AnyUrl, url : AnyUrl, enabled : BOOLEAN]
    BY <1>1, <2>1 DEF EmptyForm, NoBookmark
  <2>3. page' \in [open : BOOLEAN, ready : BOOLEAN, curTab : AnyUrl, loads : Nat]
    BY <1>1, <2>1 DEF NoPage
  <2>4. toPage' \in Seq(Url) /\ waiting' \in Seq(1..inits')
    BY <1>1
  <2> QED
    BY <1>1, <1>2, <1>3, <1>4, <2>2, <2>3, <2>4 DEF TypeOK, Sound, backVars
<1>6. WindowInv' /\ TabInv'
  BY <1>1 DEF IInv, TypeOK, PagesInv, WindowInv, TabInv, NoPage, backVars
<1>7. RequestsOfPage'
  <2>1. \A i \in DOMAIN sent' : i + d \in DOMAIN sent
    BY <1>3 DEF Moved
  <2>2. sent # <<>> => inits > 0
    BY DEF IInv, PagesInv, PageInv
  <2>3. sent' # <<>> => 1 \in DOMAIN sent'
    BY <1>3
  <2>4. sent' # <<>> => inits > 0
    BY <2>1, <2>2, <2>3
  <2> QED
    BY <1>2, <1>3, <2>4 DEF RequestsOfPage
<1>8. PageInv'
  BY <1>1, <1>7 DEF PageInv, RequestsOfPage
<1>9. IdInv'
  <2>1. form'.bkmID \in Ids'
    BY <1>1 DEF Ids
  <2> QED
    BY <1>3, <2>1, IdKept DEF IInv, RequestsInv
<1>10. LookupInv'
  BY <1>1, <1>3, LookupKept DEF IInv, RequestsInv
<1>11. OrphanInv'
  BY <1>1, <1>3 DEF OrphanInv, LookupsOut
<1>12. AddInv'
  BY <1>2, <1>3, AddKept DEF IInv, RequestsInv
<1>13. SubmitInv'
  BY <1>2, <1>3, SubmitKept DEF IInv, RequestsInv
<1>14. SavedAsMeant'
  BY <1>3, SavedKept DEF IInv, RequestsInv
<1>15. TagsExist' /\ WaitsRight(input')
  BY <1>4 DEF TagsExist, Sound
<1>16. QueryInv'
  <2>1. sent' # <<>> => inits' > 0
    BY <1>7 DEF RequestsOfPage
  <2>2. \A i \in DOMAIN sent' : inits' > 0
    BY <2>1
  <2>3. \A i \in DOMAIN sent' : sent'[i].init # inits'
    BY <1>3, <2>2
  <2> QED
    BY <1>4, <1>15, <2>3, NoQuery
<1> QED
  BY <1>5, <1>6, <1>8, <1>9, <1>10, <1>11, <1>12, <1>13, <1>14, <1>15, <1>16
  DEF IInv, PagesInv, RequestsInv

LEMMA CloseWindowKeeps ==
  ASSUME IInv, CloseWindow
  PROVE  IInv'
<1>1. /\ sent \in Seq(Request) /\ server \in Server
  BY DEF IInv, TypeOK
<1>2. Shifted(sent, sent, 0, {})
  BY <1>1, NothingShifts
<1>3. /\ page.open /\ Unload /\ sent' = Orphaned(sent)
      /\ UNCHANGED <<backVars, inits, subs, overlapped>> /\ server' = server
  BY DEF CloseWindow
<1> QED
  BY <1>1, <1>2, <1>3, UnloadKeeps

LEMMA LoadedKeeps ==
  ASSUME IInv, Loaded
  PROVE  IInv'
<1>1. /\ page.open /\ page.loads > 0 /\ page.ready /\ page.curTab # NoUrl
      /\ page.curTab \in AnyUrl /\ page.loads \in Nat
  BY DEF Loaded, IInv, TypeOK, PagesInv, TabInv
<1>2. /\ page'.open /\ page'.ready /\ page'.curTab = page.curTab
      /\ page'.loads = page.loads - 1 /\ page' \in [open : BOOLEAN, ready : BOOLEAN,
                                                     curTab : AnyUrl, loads : Nat]
  <2>1. page' = [page EXCEPT !.loads = @ - 1]
    BY DEF Loaded
  <2>2. page \in [open : BOOLEAN, ready : BOOLEAN, curTab : AnyUrl, loads : Nat]
    BY DEF IInv, TypeOK
  <2>3. page.loads - 1 \in Nat
    BY <1>1
  <2> QED
    BY <1>1, <2>1, <2>2, <2>3
<1>3. /\ inits' = inits + 1 /\ input' = Fresh /\ waiting' = Append(waiting, inits')
      /\ overlapped' = (waiting # <<>> \/ LookupsOut # {})
      /\ UNCHANGED <<backVars, toPage, cleared, sent, subs, server>>
  BY DEF Loaded
<1>4. /\ form'.curTabUrl = page.curTab /\ ~form'.enabled /\ form'.bkmID = NoBookmark
      /\ form' \in [bkmID : Nat, curTabUrl : AnyUrl, url : AnyUrl, enabled : BOOLEAN]
  <2>1. NoUrl \in AnyUrl
    BY DEF AnyUrl
  <2>2. form' = [bkmID |-> NoBookmark, curTabUrl |-> page.curTab, url |-> NoUrl,
                 enabled |-> FALSE]
    BY DEF Loaded, Initialised, EmptyForm
  <2> QED
    BY <1>1, <2>1, <2>2 DEF NoBookmark
<1>5. TypeOK /\ sent \in Seq(Request) /\ inits \in Nat /\ waiting \in Seq(1..inits)
  BY DEF IInv, TypeOK
<1>6. Shifted(sent', sent, 0, {}) /\ Moved(sent', sent, 0, {}) /\ sent' \in Seq(Request)
  BY <1>3, <1>5, NothingShifts, ShiftedMoves
<1>7. Sound(input', server'.tags) /\ input'.loading = NoText
  BY <1>3, FreshSound
<1>8. TypeOK'
  <2>1. inits' \in Nat /\ inits' \in 1..inits' /\ 1..inits \subseteq 1..inits'
    BY <1>3, <1>5
  <2>2. waiting \in Seq(1..inits')
    BY <1>5, <2>1
  <2>3. waiting' \in Seq(1..inits')
    BY <1>3, <2>1, <2>2
  <2>4. overlapped' \in BOOLEAN
    BY <1>3
  <2> QED
    BY <1>2, <1>3, <1>4, <1>5, <1>7, <2>1, <2>3, <2>4 DEF TypeOK, Sound, backVars
<1>9. WindowInv' /\ TabInv'
  BY <1>1, <1>2, <1>3, <1>4 DEF IInv, PagesInv, WindowInv, TabInv, backVars
<1>10. RequestsOfPage /\ RequestsOfPage'
  <2>1. RequestsOfPage
    BY DEF IInv, PagesInv, PageInv, RequestsOfPage
  <2>2. inits' \in Nat /\ inits <= inits'
    BY <1>3, <1>5
  <2> QED
    BY <1>1, <1>4, <1>5, <1>6, <2>1, <2>2, OfPageKept
<1>11. PageInv'
  BY <1>1, <1>2, <1>3, <1>4, <1>5, <1>10 DEF PageInv, RequestsOfPage
<1>12. IdInv'
  BY <1>3, <1>4, <1>6, IdKept DEF IInv, RequestsInv, Ids
<1>13. LookupInv'
  <2>1. ASSUME ~overlapped' PROVE Len(waiting') = 1 /\ LookupsOut' = {}
    <3>1. waiting = <<>> /\ LookupsOut = {}
      BY <1>3, <2>1
    <3>2. waiting' = <<inits'>>
      BY <1>3, <3>1
    <3>3. LookupsOut' = LookupsOut
      BY <1>3 DEF LookupsOut
    <3> QED
      BY <3>1, <3>2, <3>3
  <2> QED
    BY <1>4, <2>1 DEF LookupInv
<1>14. OrphanInv'
  BY <1>4, <1>5, <1>6, OrphanKept DEF IInv, RequestsInv
<1>15. AddInv'
  BY <1>3, <1>5, <1>6, AddKept DEF IInv, RequestsInv
<1>16. \A s \in DOMAIN subs : subs[s].init # inits'
  BY <1>3, <1>5 DEF IInv, RequestsInv, AddInv
<1>17. SubmitInv'
  <2>1. \A s \in DOMAIN subs : Unchanged(s)'
    BY <1>3, <1>16 DEF Unchanged
  <2> QED
    BY <1>3, <1>5, <1>6, <2>1, SubmitKept DEF IInv, RequestsInv
<1>18. SavedAsMeant'
  BY <1>3, <1>6, <1>16, SavedKept DEF IInv, RequestsInv
<1>19. TagsExist' /\ WaitsRight(input')
  BY <1>7 DEF TagsExist, Sound
<1>20. QueryInv'
  <2>1. \A i \in DOMAIN sent : sent[i] \in Request /\ sent[i].init \in Nat
    BY <1>5, RequestIs
  <2>2. \A i \in DOMAIN sent' : sent'[i].init # inits'
    BY <1>3, <1>5, <1>10, <2>1 DEF RequestsOfPage
  <2> QED
    BY <1>7, <1>19, <2>2, NoQuery
<1> QED
  BY <1>8, <1>9, <1>11, <1>12, <1>13, <1>14, <1>15, <1>17, <1>18, <1>19, <1>20
  DEF IInv, PagesInv, RequestsInv

LEMMA ConnectedKeeps ==
  ASSUME IInv, Connected
  PROVE  IInv'
<1> DEFINE r == [kind |-> "lookup", init |-> waiting[1], id |-> form.bkmID,
                 url |-> IF form.bkmID = NoBookmark THEN form.curTabUrl ELSE NoUrl]
<1>1. /\ waiting # <<>> /\ waiting' = Tail(waiting) /\ sent' = Append(sent, r)
      /\ UNCHANGED <<backVars, wrapperVars, inits, form, input, subs, overlapped, server>>
  BY DEF Connected
<1>2. /\ TypeOK /\ sent \in Seq(Request) /\ inits \in Nat /\ waiting \in Seq(1..inits)
      /\ form \in [bkmID : Nat, curTabUrl : AnyUrl, url : AnyUrl, enabled : BOOLEAN]
  BY DEF IInv, TypeOK
<1>3. /\ waiting[1] \in 1..inits /\ waiting' \in Seq(1..inits)
      /\ Len(waiting) = 1 => waiting' = <<>>
  BY <1>1, <1>2, SMTT(30)
<1>4. /\ r \in Request /\ r.kind = "lookup" /\ r.init = waiting[1] /\ r.id = form.bkmID
      /\ r.id = NoBookmark => r.url = form.curTabUrl
  <2>1. r.url \in AnyUrl
    BY <1>2 DEF AnyUrl
  <2> QED
    BY <1>2, <1>3, <2>1 DEF Request
<1> HIDE DEF r
<1>5. sent' \in Seq(Request) /\ Shifted(sent', sent, 0, {r}) /\ Moved(sent', sent, 0, {r})
  BY <1>1, <1>2, <1>4, AppendShifts, ShiftedMoves
<1>6. form.curTabUrl # NoUrl /\ inits > 0
  BY <1>1 DEF IInv, PagesInv, PageInv
<1>7. TypeOK'
  BY <1>1, <1>2, <1>3, <1>5 DEF TypeOK, backVars, wrapperVars
<1>8. WindowInv' /\ TabInv'
  BY <1>1 DEF IInv, PagesInv, WindowInv, TabInv, backVars, wrapperVars
<1>9. PageInv'
  <2>1. RequestsOfPage
    BY DEF IInv, PagesInv, PageInv, RequestsOfPage
  <2>2. \A q \in {r} : inits > 0 /\ q.init <= inits /\ q.init # 0
    BY <1>2, <1>3, <1>4
  <2>3. RequestsOfPage'
    BY <1>1, <1>2, <1>5, <1>6, <2>1, <2>2, OfPageKept
  <2> QED
    BY <1>1, <1>6, <2>3 DEF IInv, PagesInv, PageInv, RequestsOfPage, wrapperVars
<1>10. IdInv'
  <2>1. form'.bkmID \in Ids' /\ \A q \in {r} : q.id \in Ids'
    BY <1>1, <1>4 DEF IInv, RequestsInv, IdInv, Ids
  <2> QED
    BY <1>1, <1>5, <2>1, IdKept DEF IInv, RequestsInv
<1>11. LookupInv'
  <2> SUFFICES ASSUME ~overlapped PROVE LookupInv'
    BY <1>1 DEF LookupInv
  <2>1. Len(waiting) = 1 /\ LookupsOut = {} /\ ~form.enabled /\ form.bkmID = NoBookmark
    BY <1>1 DEF IInv, RequestsInv, LookupInv
  <2>2. \A i \in LookupsOut' : sent'[i] = r /\ i = Len(sent) + 1
    <3> SUFFICES ASSUME NEW i \in LookupsOut' PROVE sent'[i] = r /\ i = Len(sent) + 1
      OBVIOUS
    <3>1. i \in 1..(Len(sent) + 1) /\ sent'[i].kind = "lookup" /\ Len(sent) \in Nat
          /\ DOMAIN sent = 1..Len(sent)
      BY <1>1, <1>2, SMTT(30) DEF LookupsOut
    <3>2. i \notin DOMAIN sent
      BY <1>1, <1>2, <2>1, <3>1 DEF LookupsOut
    <3> QED
      BY <1>1, <1>2, <3>1, <3>2
  <2> QED
    BY <1>1, <1>3, <1>4, <2>1, <2>2 DEF LookupInv
<1>12. OrphanInv'
  BY <1>1, <1>2, <1>4, <1>5, OrphanKept DEF IInv, RequestsInv
<1>13. AddInv'
  BY <1>1, <1>2, <1>4, <1>5, AddKept DEF IInv, RequestsInv
<1>14. SubmitInv'
  <2>1. \A s \in DOMAIN subs : Unchanged(s) => Unchanged(s)'
    BY <1>1 DEF Unchanged
  <2> QED
    BY <1>1, <1>2, <1>4, <1>5, <2>1, SubmitKept DEF IInv, RequestsInv
<1>15. SavedAsMeant'
  BY <1>1, <1>4, <1>5, SavedKept DEF IInv, RequestsInv
<1>16. TagsExist' /\ QueryInv'
  <2>1. WaitsRight(input') /\ TagQuery \notin {r}
    BY <1>1, <1>4 DEF IInv, RequestsInv, QueryInv, TagQuery
  <2> QED
    BY <1>1, <1>2, <1>5, <2>1, QueryKept DEF IInv, RequestsInv, TagsExist
<1> QED
  BY <1>7, <1>8, <1>9, <1>10, <1>11, <1>12, <1>13, <1>14, <1>15, <1>16
  DEF IInv, PagesInv, RequestsInv

-----------------------------------------------------------------------------
(* The user at the tag input.                                              *)

\* A step that leaves the form alone.
FormSame ==
  /\ UNCHANGED <<wrapperVars, backVars, inits, form, waiting, overlapped>>
  /\ server' \in Server /\ server.tags \subseteq server'.tags
  /\ DOMAIN server.bookmarks \subseteq DOMAIN server'.bookmarks
  /\ form.enabled => server'.bookmarks = server.bookmarks

LEMMA FormSameKeeps ==
  ASSUME IInv, FormSame, input' \in Instance, subs' \in Seq(Submission),
         sent' \in Seq(Request), NEW d \in {0, 1}, NEW R, Shifted(sent', sent, d, R),
         \A r \in R : /\ inits > 0 /\ r.init <= inits
                      /\ r.init # 0 => form.curTabUrl # NoUrl
                      /\ r.kind # "lookup"
                      /\ r.kind = "save" => r.id \in Ids /\ r.init # 0
  PROVE  TypeOK' /\ PagesInv' /\ IdInv' /\ LookupInv' /\ OrphanInv'
<1>1. /\ UNCHANGED <<ctx, opening, threw, page, toPage, cleared>>
      /\ UNCHANGED <<inits, form, waiting, overlapped>>
      /\ server' \in Server /\ server.tags \subseteq server'.tags
      /\ DOMAIN server.bookmarks \subseteq DOMAIN server'.bookmarks
      /\ form.enabled => server'.bookmarks = server.bookmarks
  BY DEF FormSame, backVars, wrapperVars
<1>2. TypeOK /\ inits \in Nat
  BY DEF IInv, TypeOK
<1>3. Moved(sent', sent, d, R)
  BY ShiftedMoves
<1>4. TypeOK'
  BY <1>1, <1>2 DEF TypeOK
<1>5. PagesInv'
  <2>1. RequestsOfPage
    BY DEF IInv, PagesInv, PageInv, RequestsOfPage
  <2>2. RequestsOfPage'
    BY <1>1, <1>2, <1>3, <2>1, OfPageKept
  <2> QED
    BY <1>1, <2>2 DEF IInv, PagesInv, WindowInv, TabInv, PageInv, RequestsOfPage
<1>6. IdInv'
  <2>1. Ids \subseteq Ids'
    BY <1>1 DEF Ids
  <2> QED
    BY <1>1, <1>3, <2>1, IdKept DEF IInv, RequestsInv, IdInv
<1>7. LookupInv'
  <2>1. \A i \in DOMAIN sent' : sent'[i] \in R \/ sent'[i] = sent[i + d]
    BY DEF Shifted
  <2> QED
    BY <1>1, <1>3, <2>1, LookupKept DEF IInv, RequestsInv
<1>8. OrphanInv'
  BY <1>1, <1>2, OrphanKept DEF IInv, RequestsInv
<1> QED
  BY <1>4, <1>5, <1>6, <1>7, <1>8

LEMMA FormSameSubs ==
  ASSUME IInv, FormSame, subs' = subs,
         sent' \in Seq(Request), NEW d \in {0, 1}, NEW R, Shifted(sent', sent, d, R),
         \A r \in R : r.kind = "tags"
  PROVE  /\ (d = 1 => sent[1].kind # "addTag") => AddInv'
         /\ SubmitInv' /\ SavedAsMeant'
<1>1. Moved(sent', sent, d, R) /\ UNCHANGED <<inits, form, overlapped>>
      /\ server.tags \subseteq server'.tags
  BY ShiftedMoves DEF FormSame
<1>2. TypeOK /\ inits \in Nat
  BY DEF IInv, TypeOK
<1>3. (d = 1 => sent[1].kind # "addTag") => AddInv'
  BY <1>1, <1>2, AddKept DEF IInv, RequestsInv
<1>4. SubmitInv'
  <2>1. \A s \in DOMAIN subs : Unchanged(s) => Unchanged(s)'
    BY <1>1 DEF Unchanged
  <2> QED
    BY <1>1, <1>2, <2>1, SubmitKept DEF IInv, RequestsInv
<1>5. SavedAsMeant'
  BY <1>1, SavedKept DEF IInv, RequestsInv
<1> QED
  BY <1>3, <1>4, <1>5

LEMMA TypeTextKeeps ==
  ASSUME IInv, NEW t \in Pattern, TypeText(t)
  PROVE  IInv'
<1>1. /\ form.curTabUrl # NoUrl /\ input' = Type(input, t)
      /\ sent' = (IF input.loading = NoText THEN Append(sent, TagQuery) ELSE sent)
      /\ UNCHANGED <<backVars, wrapperVars, inits, form, waiting, subs, overlapped, server>>
  BY DEF TypeText, IsInitialised
<1>2. /\ TypeOK /\ sent \in Seq(Request) /\ inits \in Nat /\ inits > 0 /\ server \in Server
      /\ Sound(input, server.tags)
  BY <1>1 DEF IInv, TypeOK, PagesInv, PageInv, RequestsInv, QueryInv, TagsExist, Sound
<1>3. /\ Sound(input', server'.tags) /\ input'.loading # NoText
  BY <1>1, <1>2, TypeKeeps
<1>4. TagQuery \in Request /\ TagQuery.kind = "tags" /\ TagQuery.init = inits
  BY <1>2 DEF TagQuery, Request
<1>5. /\ sent' \in Seq(Request) /\ Shifted(sent', sent, 0, {TagQuery})
  BY <1>1, <1>2, <1>4, AppendShifts, NothingShifts
<1>6. FormSame
  BY <1>1, <1>2 DEF FormSame
<1>7. TypeOK' /\ PagesInv' /\ IdInv' /\ LookupInv' /\ OrphanInv'
  <2>1. subs' \in Seq(Submission) /\ input' \in Instance
    BY <1>1, <1>2, <1>3 DEF TypeOK, Sound
  <2>2. \A r \in {TagQuery} : /\ inits > 0 /\ r.init <= inits /\ form.curTabUrl # NoUrl
                              /\ r.kind # "lookup" /\ r.kind # "save"
    BY <1>1, <1>2, <1>4
  <2> QED
    BY <1>5, <1>6, <2>1, <2>2, FormSameKeeps
<1>8. AddInv' /\ SubmitInv' /\ SavedAsMeant'
  BY <1>1, <1>4, <1>5, <1>6, FormSameSubs
<1>9. TagsExist' /\ WaitsRight(input')
  BY <1>3 DEF TagsExist, Sound
<1>10. QueryInv'
  <2>1. QueryInv
    BY DEF IInv, RequestsInv
  <2>2. CASE input.loading = NoText
    BY <1>1, <1>2, <1>3, <1>9, <2>1, <2>2, QueryIsSent
  <2>3. CASE input.loading # NoText
    <3>1. sent' = sent /\ Shifted(sent', sent, 0, {})
      BY <1>1, <1>2, <2>3, NothingShifts
    <3>2. input'.loading = input.loading
      BY <1>1, <2>3, <1>2 DEF Type, Sound, Instance
    <3> QED
      BY <1>1, <1>2, <1>9, <2>1, <3>1, <3>2, QueryKept
  <2> QED
    BY <2>2, <2>3
<1> QED
  BY <1>7, <1>8, <1>9, <1>10 DEF IInv, RequestsInv

LEMMA ChangeTagsKeeps ==
  ASSUME IInv, ChangeTags
  PROVE  IInv'
<1>1. /\ sent' = sent
      /\ UNCHANGED <<backVars, wrapperVars, inits, form, waiting, subs, overlapped, server>>
  BY DEF ChangeTags
<1>2. /\ TypeOK /\ sent \in Seq(Request) /\ server \in Server
      /\ Sound(input, server.tags)
  BY DEF IInv, TypeOK, RequestsInv, QueryInv, TagsExist, Sound
<1>3. /\ Sound(input', server'.tags) /\ input'.loading = input.loading
  <2>1. ToSet(input.curTagsArr) \subseteq TagPath /\ ToSet(input.tags) \subseteq TagPath
    BY <1>2 DEF Sound, Instance, ToSet
  <2>2. CASE input' = Commit(input)
    BY <1>1, <1>2, <2>2, CommitKeeps
  <2>3. ASSUME NEW t \in ToSet(input.curTagsArr), input' = Choose(input, t)
        PROVE  Sound(input', server'.tags) /\ input'.loading = input.loading
    BY <1>1, <1>2, <2>1, <2>3, ChooseKeeps
  <2>4. ASSUME NEW t \in ToSet(input.tags), input' = Delete(input, t)
        PROVE  Sound(input', server'.tags) /\ input'.loading = input.loading
    BY <1>1, <1>2, <2>1, <2>4, DeleteKeeps
  <2> QED
    BY <2>2, <2>3, <2>4 DEF ChangeTags
<1>4. /\ sent' \in Seq(Request) /\ Shifted(sent', sent, 0, {})
  BY <1>1, <1>2, NothingShifts
<1>5. FormSame
  BY <1>1, <1>2 DEF FormSame
<1>6. TypeOK' /\ PagesInv' /\ IdInv' /\ LookupInv' /\ OrphanInv'
  <2>1. subs' \in Seq(Submission) /\ input' \in Instance
    BY <1>1, <1>2, <1>3 DEF TypeOK, Sound
  <2> QED
    BY <1>4, <1>5, <2>1, FormSameKeeps
<1>7. AddInv' /\ SubmitInv' /\ SavedAsMeant'
  BY <1>1, <1>4, <1>5, FormSameSubs
<1>8. TagsExist' /\ WaitsRight(input')
  BY <1>3 DEF TagsExist, Sound
<1>9. QueryInv'
  BY <1>1, <1>2, <1>3, <1>4, <1>8, QueryKept DEF IInv, RequestsInv
<1> QED
  BY <1>6, <1>7, <1>8, <1>9 DEF IInv, RequestsInv

LEMMA QueryIsAnswered ==
  ASSUME TypeOK, QueryInv, sent # <<>>, sent[1] = TagQuery, inits' = inits, WaitsRight(input'),
         sent' = Tail(sent) \o (IF input'.loading = NoText THEN <<>> ELSE <<TagQuery>>)
  PROVE  QueryInv'
<1>1. sent \in Seq(Request) /\ inits \in Nat
  BY DEF TypeOK
<1>2. TagQuery \in Request /\ TagQuery' = TagQuery
  BY <1>1 DEF TagQuery, Request
<1>3. QueriesOut = {1}
  <2>1. 1 \in QueriesOut
    BY <1>1 DEF QueriesOut
  <2> QED
    BY <2>1 DEF QueryInv, TypedIsAsked
<1>4. \A i \in DOMAIN sent : i > 1 => sent[i] # TagQuery
  BY <1>1, <1>3 DEF QueriesOut
<1>5. CASE input'.loading = NoText
  <2>1. Tail(sent) \in Seq(Request)
    BY <1>1
  <2>2. sent' = Tail(sent)
    BY <1>5, <2>1
  <2>3. Shifted(sent', sent, 1, {}) /\ sent' \in Seq(Request)
    BY <1>1, <2>2, TailShifts
  <2>4. \A i \in DOMAIN sent' : i + 1 \in DOMAIN sent /\ i + 1 > 1 /\ sent'[i] = sent[i + 1]
    BY <2>3 DEF Shifted
  <2>5. QueriesOut' = {}
    BY <1>2, <1>4, <2>4 DEF QueriesOut
  <2> QED
    BY <1>5, <2>5 DEF QueryInv, TypedIsAsked, WaitsRight
<1>6. CASE input'.loading # NoText
  <2>1. sent' = Tail(sent) \o <<TagQuery>>
    BY <1>6
  <2>2. sent' \in Seq(Request) /\ Shifted(sent', sent, 1, {TagQuery})
    BY <1>1, <1>2, <2>1, TailConcatShifts
  <2>3. /\ DOMAIN sent' = 1..Len(sent) /\ Len(sent) \in Nat /\ Len(sent) > 0
        /\ sent'[Len(sent)] = TagQuery /\ DOMAIN sent = 1..Len(sent)
    <3>1. Len(sent) \in Nat /\ Len(sent) > 0 /\ DOMAIN sent = 1..Len(sent)
      BY <1>1
    <3> QED
      BY <1>1, <1>2, <2>1, <3>1, TailConcatShifts
  <2>4. ASSUME NEW i \in DOMAIN sent', i # Len(sent) PROVE sent'[i] # TagQuery
    <3>1. i + 1 \in DOMAIN sent /\ i + 1 > 1
      BY <2>3, <2>4
    <3>2. i + 1 <= Len(sent)
      BY <2>3, <3>1
    <3>3. sent'[i] = sent[i + 1]
      BY <2>2, <2>3, <3>2 DEF Shifted
    <3> QED
      BY <1>4, <3>1, <3>3
  <2>5. QueriesOut' = {Len(sent)}
    BY <1>2, <2>3, <2>4 DEF QueriesOut
  <2> QED
    BY <1>6, <2>5 DEF QueryInv, TypedIsAsked
<1> QED
  BY <1>5, <1>6

LEMMA AnswerTagsKeeps ==
  ASSUME IInv, sent # <<>>, NEW ok \in BOOLEAN, AnswerTags(sent[1], ok),
         UNCHANGED <<backVars, inits, overlapped>>
  PROVE  IInv'
<1>1. /\ TypeOK /\ sent \in Seq(Request) /\ inits \in Nat /\ inits > 0 /\ server \in Server
      /\ Sound(input, server.tags) /\ QueryInv
  BY DEF IInv, TypeOK, PagesInv, PageInv, RequestsInv, QueryInv, TagsExist, Sound
<1>2. /\ sent[1].kind = "tags" /\ UNCHANGED <<wrapperVars, form, waiting, subs, server>>
  BY DEF AnswerTags
<1>3. FormSame
  BY <1>1, <1>2 DEF FormSame
<1>4. sent[1] \in Request /\ 1 \in DOMAIN sent
  BY <1>1
<1>5. sent[1] = [kind |-> "tags", init |-> sent[1].init]
  BY <1>2, <1>4, RequestIs
<1>6. ASSUME NEW R, sent' \in Seq(Request), Shifted(sent', sent, 1, R),
             R \subseteq {TagQuery}, sent[1].init = inits \/ R = {},
             Sound(input', server.tags), QueryInv'
      PROVE  IInv'
  <2>1. subs' \in Seq(Submission) /\ input' \in Instance
    BY <1>1, <1>2, <1>6 DEF TypeOK, Sound
  <2>2. \A r \in R : /\ r.init = inits /\ r.kind = "tags"
                     /\ form.curTabUrl # NoUrl
    <3>1. sent[1].init # 0 => form.curTabUrl # NoUrl
      BY <1>4 DEF IInv, PagesInv, PageInv
    <3> QED
      BY <1>1, <1>6, <3>1 DEF TagQuery
  <2>3. TypeOK' /\ PagesInv' /\ IdInv' /\ LookupInv' /\ OrphanInv'
    BY <1>1, <1>3, <1>6, <2>1, <2>2, FormSameKeeps, SMTT(30)
  <2>4. AddInv' /\ SubmitInv' /\ SavedAsMeant'
    BY <1>2, <1>3, <1>6, <2>2, FormSameSubs
  <2>5. TagsExist'
    BY <1>2, <1>6 DEF TagsExist, Sound
  <2> QED
    BY <1>6, <2>3, <2>4, <2>5 DEF IInv, RequestsInv
<1>7. CASE sent[1].init # inits
  <2>1. sent' = Tail(sent) /\ input' = input
    BY <1>7 DEF AnswerTags
  <2>2. sent' \in Seq(Request) /\ Shifted(sent', sent, 1, {})
    BY <1>1, <2>1, TailShifts
  <2>3. sent[1] # TagQuery /\ WaitsRight(input')
    BY <1>1, <1>7, <2>1 DEF TagQuery, QueryInv
  <2>4. QueryInv'
    BY <1>1, <2>1, <2>2, <2>3, QueryKept
  <2> QED
    BY <1>1, <1>6, <2>1, <2>2, <2>4
<1>8. CASE sent[1].init = inits
  <2>1. sent[1] = TagQuery
    BY <1>5, <1>8 DEF TagQuery
  <2>2. input.loading # NoText
    <3>1. 1 \in QueriesOut
      BY <1>4, <2>1 DEF QueriesOut
    <3> QED
      BY <1>1, <3>1 DEF QueryInv, TypedIsAsked
  <2>3. /\ input' = (IF ok THEN Answered(input, server.tags) ELSE Failed(input))
        /\ sent' = Tail(sent) \o (IF input'.loading = NoText THEN <<>> ELSE <<TagQuery>>)
    BY <1>8 DEF AnswerTags
  <2>4. Sound(input', server.tags)
    BY <1>1, <2>2, <2>3, AnsweredKeeps, FailedKeeps
  <2>5. QueryInv'
    <3>1. WaitsRight(input')
      BY <2>4 DEF Sound
    <3> QED
      BY <1>1, <2>1, <2>3, <3>1, QueryIsAnswered
  <2>6. CASE input'.loading = NoText
    <3>1. Tail(sent) \in Seq(Request) /\ Tail(sent) \o <<>> = Tail(sent)
      BY <1>1
    <3>2. sent' \in Seq(Request) /\ Shifted(sent', sent, 1, {})
      BY <1>1, <2>3, <2>6, <3>1, TailShifts
    <3> QED
      BY <1>6, <2>4, <2>5, <3>2
  <2>7. CASE input'.loading # NoText
    <3>1. TagQuery \in Request
      BY <1>1 DEF TagQuery, Request
    <3>2. sent' \in Seq(Request) /\ Shifted(sent', sent, 1, {TagQuery})
      BY <1>1, <2>3, <2>7, <3>1, TailConcatShifts
    <3> QED
      BY <1>6, <1>8, <2>4, <2>5, <3>2
  <2> QED
    BY <2>6, <2>7
<1> QED
  BY <1>7, <1>8

-----------------------------------------------------------------------------
(* Submissions.                                                            *)

\* The requests made for a submission.
LEMMA SubmitSends ==
  ASSUME IInv, Submit
  PROVE  LET i == Len(subs) + 1
             s == [init |-> inits, id |-> form.bkmID, url |-> form.url,
                   tagIDs |-> input.selectedTagIDs,
                   newTagPaths |-> input.selectedNewTagPaths, addedCnt |-> 0]
             m == Len(sent)
             n == Len(s.newTagPaths)
         IN  /\ s \in Submission /\ i \in Nat /\ subs' = Append(subs, s)
             /\ sent' \in Seq(Request)
             /\ m \in Nat /\ n \in Nat
             /\ \A k \in DOMAIN sent' :
                  \/ k \in DOMAIN sent /\ sent'[k] = sent[k]
                  \/ k > m /\ n = 0 /\ sent'[k] = SaveRequest(i, s)
                  \/ /\ k > m /\ k - m \in 1..n
                     /\ sent'[k] = [kind |-> "addTag", init |-> inits, sub |-> i,
                                    path |-> s.newTagPaths[k - m]]
             /\ \A k \in DOMAIN sent : k \in DOMAIN sent' /\ sent'[k] = sent[k]
             /\ \A k \in 1..n : /\ m + k \in DOMAIN sent'
                                /\ sent'[m + k].kind = "addTag" /\ sent'[m + k].sub = i
                                /\ sent'[m + k].path = s.newTagPaths[k]
<1> DEFINE i == Len(subs) + 1
           s == [init |-> inits, id |-> form.bkmID, url |-> form.url,
                 tagIDs |-> input.selectedTagIDs,
                 newTagPaths |-> input.selectedNewTagPaths, addedCnt |-> 0]
           m == Len(sent)
           n == Len(s.newTagPaths)
           save == SaveRequest(i, s)
           adds == AddTagRequests(i, s)
           new == IF s.newTagPaths = <<>> THEN <<save>> ELSE adds
<1>1. /\ sent \in Seq(Request) /\ inits \in Nat /\ subs \in Seq(Submission)
      /\ form.bkmID \in Nat /\ form.url \in AnyUrl
      /\ input.selectedTagIDs \subseteq TagPath
      /\ input.selectedNewTagPaths \in Seq(TagPath)
  BY DEF IInv, TypeOK, Instance
<1>2. s \in Submission /\ i \in Nat /\ s.newTagPaths \in Seq(TagPath) /\ s.init = inits
  BY <1>1 DEF Submission
<1>3. subs' = Append(subs, s) /\ sent' = sent \o new
  BY DEF Submit
<1>4. save \in Request
  BY <1>1, <1>2 DEF SaveRequest, Request
<1>5. /\ DOMAIN adds = 1..n /\ n \in Nat
      /\ \A j \in 1..n : /\ adds[j] \in Request
                         /\ adds[j] = [kind |-> "addTag", init |-> inits, sub |-> i,
                                       path |-> s.newTagPaths[j]]
  <2>1. n \in Nat /\ DOMAIN s.newTagPaths = 1..n /\ \A j \in 1..n : s.newTagPaths[j] \in TagPath
    BY <1>2
  <2> HIDE DEF i, s, n
  <2>2. adds = [j \in 1..n |-> [kind |-> "addTag", init |-> inits, sub |-> i,
                                path |-> s.newTagPaths[j]]]
    BY <1>2, <2>1 DEF AddTagRequests
  <2>3. \A j \in 1..n : [kind |-> "addTag", init |-> inits, sub |-> i,
                         path |-> s.newTagPaths[j]] \in Request
    BY <1>1, <1>2, <2>1 DEF Request
  <2> QED
    BY <2>1, <2>2, <2>3
<1>6. n = 0 <=> s.newTagPaths = <<>>
  BY <1>2
<1> HIDE DEF i, s, save, adds
<1>7. /\ new \in Seq(Request) /\ Len(new) = IF n = 0 THEN 1 ELSE n
      /\ DOMAIN new = 1..Len(new)
      /\ \A k \in DOMAIN new : new[k] = IF n = 0 THEN save ELSE adds[k]
  <2>1. CASE n = 0
    <3>1. new = <<save>>
      BY <1>6, <2>1
    <3>2. /\ <<save>> \in Seq(Request) /\ Len(<<save>>) = 1
          /\ DOMAIN <<save>> = 1..1 /\ <<save>>[1] = save
      BY <1>4
    <3> HIDE DEF new, n
    <3> QED
      BY <2>1, <3>1, <3>2
  <2>2. CASE n # 0
    <3>1. new = adds
      BY <1>6, <2>2
    <3>2. \A c \in Nat : \A f : DOMAIN f = 1..c /\ f = [x \in 1..c |-> f[x]]
                                  /\ (\A j \in 1..c : f[j] \in Request)
                                => f \in Seq(Request) /\ Len(f) = c
      OBVIOUS
    <3>3. adds = [x \in 1..n |-> adds[x]]
      BY <1>5 DEF adds, AddTagRequests
    <3> HIDE DEF n, new
    <3>4. adds \in Seq(Request) /\ Len(adds) = n
      BY <1>5, <3>2, <3>3
    <3> QED
      BY <1>5, <2>2, <3>1, <3>4
  <2> QED
    BY <2>1, <2>2
<1> HIDE DEF new, n
<1>8. /\ sent' \in Seq(Request) /\ m \in Nat /\ DOMAIN sent = 1..m
      /\ DOMAIN sent' = 1..(m + Len(new)) /\ Len(new) \in Nat
      /\ \A k \in 1..(m + Len(new)) : sent'[k] = IF k <= m THEN sent[k] ELSE new[k - m]
  BY <1>1, <1>3, <1>7
<1>9. ASSUME NEW k \in DOMAIN sent'
      PROVE  \/ k \in DOMAIN sent /\ sent'[k] = sent[k]
             \/ k > m /\ n = 0 /\ sent'[k] = save
             \/ /\ k > m /\ k - m \in 1..n
                /\ sent'[k] = [kind |-> "addTag", init |-> inits, sub |-> i,
                               path |-> s.newTagPaths[k - m]]
  <2>1. CASE k <= m
    BY <1>8, <2>1
  <2>2. CASE k > m
    <3>1. k - m \in DOMAIN new /\ sent'[k] = new[k - m]
      BY <1>7, <1>8, <2>2
    <3> QED
      BY <1>5, <1>7, <2>2, <3>1
  <2> QED
    BY <1>8, <2>1, <2>2
<1>10. ASSUME NEW k \in 1..n
       PROVE  /\ m + k \in DOMAIN sent' /\ sent'[m + k].kind = "addTag"
              /\ sent'[m + k].sub = i /\ sent'[m + k].path = s.newTagPaths[k]
  <2>1. m + k \in DOMAIN sent' /\ ~(m + k <= m) /\ (m + k) - m = k /\ k \in DOMAIN new /\ n # 0
    BY <1>5, <1>7, <1>8
  <2>2. sent'[m + k] = adds[k]
    BY <1>7, <1>8, <2>1
  <2> QED
    BY <1>5, <2>1, <2>2
<1>11. ASSUME NEW k \in DOMAIN sent PROVE k \in DOMAIN sent' /\ sent'[k] = sent[k]
  BY <1>8
<1>12. sent' \in Seq(Request) /\ m \in Nat
  BY <1>8
<1>13. /\ \A k \in DOMAIN sent' :
            \/ k \in DOMAIN sent /\ sent'[k] = sent[k]
            \/ k > m /\ n = 0 /\ sent'[k] = save
            \/ /\ k > m /\ k - m \in 1..n
               /\ sent'[k] = [kind |-> "addTag", init |-> inits, sub |-> i,
                              path |-> s.newTagPaths[k - m]]
       /\ \A k \in DOMAIN sent : k \in DOMAIN sent' /\ sent'[k] = sent[k]
       /\ \A k \in 1..n : /\ m + k \in DOMAIN sent'
                          /\ sent'[m + k].kind = "addTag" /\ sent'[m + k].sub = i
                          /\ sent'[m + k].path = s.newTagPaths[k]
  BY <1>9, <1>10, <1>11
<1>14. s \in Submission /\ i \in Nat /\ subs' = Append(subs, s) /\ n \in Nat
  BY <1>2, <1>3, <1>5
<1> QED
  BY <1>12, <1>13, <1>14 DEF i, s, n, save

LEMMA SubmitKeeps ==
  ASSUME IInv, Submit
  PROVE  IInv'
<1>0. PICK i : i = Len(subs) + 1
  OBVIOUS
<1> DEFINE s == [init |-> inits, id |-> form.bkmID, url |-> form.url,
                 tagIDs |-> input.selectedTagIDs,
                 newTagPaths |-> input.selectedNewTagPaths, addedCnt |-> 0]
           m == Len(sent)
           n == Len(s.newTagPaths)
           R == {sent'[k] : k \in {l \in DOMAIN sent' : l > m}}
<1>1. /\ s \in Submission /\ i \in Nat /\ subs' = Append(subs, s)
      /\ sent' \in Seq(Request)
      /\ m \in Nat /\ n \in Nat
  BY <1>0, SubmitSends
<1>2. \A k \in DOMAIN sent' :
         \/ k \in DOMAIN sent /\ sent'[k] = sent[k]
         \/ k > m /\ n = 0 /\ sent'[k] = SaveRequest(i, s)
         \/ /\ k > m /\ k - m \in 1..n
            /\ sent'[k] = [kind |-> "addTag", init |-> inits, sub |-> i,
                           path |-> s.newTagPaths[k - m]]
  BY <1>0, SubmitSends
<1>3. /\ \A k \in DOMAIN sent : k \in DOMAIN sent' /\ sent'[k] = sent[k]
      /\ \A k \in 1..n : /\ m + k \in DOMAIN sent'
                         /\ sent'[m + k].kind = "addTag" /\ sent'[m + k].sub = i
                         /\ sent'[m + k].path = s.newTagPaths[k]
  BY <1>0, SubmitSends
<1>4. /\ TypeOK /\ sent \in Seq(Request) /\ subs \in Seq(Submission) /\ inits \in Nat
      /\ server \in Server /\ input \in Instance
  BY DEF IInv, TypeOK
<1>5. /\ s.init = inits /\ s.id = form.bkmID /\ s.url = form.url /\ s.addedCnt = 0
      /\ s.tagIDs = input.selectedTagIDs /\ n = Len(s.newTagPaths)
      /\ s.newTagPaths \in Seq(TagPath)
  BY <1>4 DEF Instance
<1>6. n = 0 => s.newTagPaths = <<>>
  BY <1>5
<1>7. /\ form.enabled
      /\ UNCHANGED <<backVars, wrapperVars, inits, form, input, waiting, overlapped, server>>
  BY DEF Submit
<1> HIDE DEF s, n
<1>8. /\ DOMAIN subs = 1..Len(subs) /\ Len(subs) \in Nat
      /\ DOMAIN subs' = DOMAIN subs \cup {i} /\ i \notin DOMAIN subs
      /\ subs'[i] = s /\ \A k \in DOMAIN subs : subs'[k] = subs[k]
      /\ subs' \in Seq(Submission)
  BY <1>0, <1>1, <1>4
<1>9. /\ form.curTabUrl # NoUrl /\ inits > 0
      /\ s.tagIDs \subseteq server.tags
  BY <1>5, <1>7 DEF IInv, PagesInv, PageInv, RequestsInv, TagsExist, OldAreIn
<1>10. ASSUME NEW k \in DOMAIN sent', k > m
      PROVE  /\ sent'[k].sub = i /\ sent'[k].init = inits
             /\ \/ /\ n = 0 /\ sent'[k].kind = "save" /\ sent'[k].id = form.bkmID
                   /\ sent'[k].url = form.url /\ sent'[k].tags = s.tagIDs
                \/ /\ sent'[k].kind = "addTag" /\ k - m \in 1..n
  <2>1. k \notin DOMAIN sent
    BY <1>4, <1>10
  <2> QED
    BY <1>2, <1>5, <2>1 DEF SaveRequest
<1>11. ASSUME NEW k \in DOMAIN sent', k <= m
       PROVE  k \in DOMAIN sent /\ sent'[k] = sent[k]
  <2>1. k \in Nat /\ k > 0
    BY <1>1
  <2> QED
    BY <1>1, <1>2, <1>11, <2>1
<1>12. Shifted(sent', sent, 0, R)
  <2>1. \A k \in DOMAIN sent' : k \in Int /\ k + 0 = k /\ (k <= m \/ k > m)
    BY <1>1
  <2>2. \A k \in DOMAIN sent : k - 0 = k
    BY <1>4
  <2> QED
    BY <1>3, <1>11, <2>1, <2>2 DEF Shifted
<1>13. TypeOK' /\ PagesInv' /\ IdInv' /\ LookupInv' /\ OrphanInv'
  <2>1. FormSame
    BY <1>4, <1>7 DEF FormSame
  <2>2. \A r \in R : /\ inits > 0 /\ r.init <= inits
                     /\ r.init # 0 => form.curTabUrl # NoUrl
                     /\ r.kind # "lookup"
                     /\ r.kind = "save" => r.id \in Ids /\ r.init # 0
    BY <1>4, <1>9, <1>10 DEF IInv, RequestsInv, IdInv
  <2> QED
    BY <1>1, <1>4, <1>7, <1>8, <1>12, <2>1, <2>2, FormSameKeeps
<1>14. ASSUME NEW k \in DOMAIN subs
       PROVE  /\ AddsOut(k)' = AddsOut(k) /\ SavesOut(k)' = SavesOut(k)
              /\ \A j \in AddsOut(k) : sent'[j] = sent[j]
  <2>1. k # i
    BY <1>8
  <2>2. \A j \in DOMAIN sent' : j \in Int
    BY <1>1
  <2>3. \A j \in DOMAIN sent' : sent'[j].sub = k => j \in DOMAIN sent
    BY <1>1, <1>10, <1>11, <2>1, <2>2
  <2> QED
    BY <1>3, <2>3 DEF AddsOut, SavesOut
<1>15. /\ \A j \in AddsOut(i)' : j \in DOMAIN sent' /\ j - m \in 1..n /\ j \in Int /\ j > m
       /\ \A j \in 1..n : m + j \in AddsOut(i)'
       /\ \A j \in SavesOut(i)' : n = 0
  <2>1. \A j \in DOMAIN sent' : j \in Int
    BY <1>1
  <2>2. \A j \in DOMAIN sent' : sent'[j].kind \in {"addTag", "save"} /\ sent'[j].sub = i => j > m
    BY <1>1, <1>8, <1>11, <2>1 DEF IInv, RequestsInv, SubmitInv
  <2> QED
    BY <1>3, <1>10, <2>1, <2>2 DEF AddsOut, SavesOut
<1>16. AddInv'
  <2>1. ASSUME NEW k \in DOMAIN subs
        PROVE  /\ subs[k].init \in 1..inits /\ subs[k].tagIDs \subseteq server.tags
               /\ \A x, y \in AddsOut(k)' : y - x < Missing(k)'
               /\ (Short(k) \/ Asked(k))'
    <3>1. Missing(k)' = Missing(k)
      BY <1>8 DEF Missing
    <3>2. Short(k) => Short(k)'
      BY <1>14, <3>1 DEF Short
    <3>3. Asked(k) => Asked(k)'
      BY <1>8, <1>14 DEF Asked
    <3> QED
      BY <1>14, <3>1, <3>2, <3>3 DEF IInv, RequestsInv, AddInv
  <2>2. Missing(i)' = n
    BY <1>1, <1>5, <1>8 DEF Missing
  <2>3. \A x, y \in AddsOut(i)' : y - x < n
    BY <1>1, <1>15, SMTT(30)
  <2>4. Asked(i)'
    <3> SUFFICES ASSUME NEW p \in ToSet(s.newTagPaths)
                 PROVE  \E x \in AddsOut(i)' : sent'[x].path = p
      BY <1>8 DEF Asked
    <3>1. PICK j \in 1..n : p = s.newTagPaths[j]
      BY <1>5 DEF ToSet
    <3> QED
      BY <1>3, <1>15, <3>1
  <2>5. \A k \in DOMAIN subs' : k # i => k \in DOMAIN subs /\ subs'[k] = subs[k]
    BY <1>8
  <2>6. s.init \in 1..inits
    BY <1>4, <1>5, <1>9
  <2>7. \A k \in DOMAIN subs' :
          /\ subs'[k].init \in 1..inits' /\ subs'[k].tagIDs \subseteq server'.tags
          /\ \A x, y \in AddsOut(k)' : y - x < Missing(k)'
          /\ (Short(k) \/ Asked(k))'
    <3> TAKE k \in DOMAIN subs'
    <3>1. CASE k = i
      BY <1>7, <1>8, <1>9, <2>2, <2>3, <2>4, <2>6, <3>1
    <3>2. CASE k # i
      BY <1>7, <2>1, <2>5, <3>2
    <3> QED
      BY <3>1, <3>2
  <2> QED
    BY <2>7 DEF AddInv
<1>17. SubmitInv'
  <2>1. ASSUME NEW k \in DOMAIN sent', sent'[k].kind \in {"addTag", "save"}
        PROVE  sent'[k].sub \in DOMAIN subs' /\ sent'[k].init \in {0, subs'[sent'[k].sub].init}
    <3>0. k > m \/ k <= m
      <4>1. k \in Int
        BY <1>1
      <4> QED
        BY <1>1, <4>1
    <3>1. CASE k > m
      BY <1>5, <1>8, <1>10, <3>1
    <3>2. CASE k <= m
      BY <1>8, <1>11, <2>1, <3>2 DEF IInv, RequestsInv, SubmitInv
    <3> QED
      BY <3>0, <3>1, <3>2
  <2>2. ASSUME NEW k \in DOMAIN subs
        PROVE  /\ (\E j \in AddsOut(k)' : sent'[j].init # 0) => Unchanged(k)'
               /\ SavesOut(k)' # {} => AddsOut(k)' = {}
    <3>1. Unchanged(k) => Unchanged(k)'
      BY <1>7, <1>8 DEF Unchanged
    <3> QED
      BY <1>14, <3>1 DEF IInv, RequestsInv, SubmitInv
  <2>3. Unchanged(i)'
    BY <1>5, <1>7, <1>8 DEF Unchanged
  <2>4. SavesOut(i)' # {} => AddsOut(i)' = {}
    BY <1>15
  <2>5. ASSUME NEW k \in DOMAIN subs'
        PROVE  /\ (\E j \in AddsOut(k)' : sent'[j].init # 0) => Unchanged(k)'
               /\ SavesOut(k)' # {} => AddsOut(k)' = {}
    <3>1. CASE k = i
      BY <2>3, <2>4, <3>1
    <3>2. CASE k \in DOMAIN subs
      BY <2>2, <3>2
    <3> QED
      BY <1>8, <3>1, <3>2
  <2> QED
    BY <2>1, <2>5 DEF SubmitInv
<1>18. SavedAsMeant'
  <2>1. ASSUME NEW k \in DOMAIN sent', sent'[k].kind = "save"
        PROVE  SavedFrom(sent'[k], subs'[sent'[k].sub], server.tags)
    <3>0. k > m \/ k <= m
      <4>1. k \in Int
        BY <1>1
      <4> QED
        BY <1>1, <4>1
    <3>1. CASE k > m
      <4>1. n = 0 /\ sent'[k].sub = i /\ sent'[k].tags = s.tagIDs /\ sent'[k].id = s.id
            /\ sent'[k].url = s.url
        BY <1>5, <1>10, <2>1, <3>1
      <4>2. ToSet(s.newTagPaths) = {}
        <5>1. s.newTagPaths = <<>>
          BY <1>6, <4>1
        <5> QED
          BY <5>1 DEF ToSet
      <4> QED
        BY <1>8, <1>9, <4>1, <4>2 DEF SavedFrom
    <3>2. CASE k <= m
      <4>1. k \in DOMAIN sent /\ sent'[k] = sent[k]
        BY <1>11, <3>2
      <4>2. sent[k].sub \in DOMAIN subs
        BY <2>1, <4>1 DEF IInv, RequestsInv, SubmitInv
      <4>3. SavedFrom(sent[k], subs[sent[k].sub], server.tags)
        BY <2>1, <4>1, SavedByNumber DEF IInv, RequestsInv
      <4> QED
        BY <1>8, <4>1, <4>2, <4>3
    <3> QED
      BY <3>0, <3>1, <3>2
  <2> QED
    BY <1>7, <2>1, SavedNext
<1>19. TagsExist' /\ QueryInv'
  <2>1. TagsExist /\ QueryInv /\ WaitsRight(input)
    BY DEF IInv, RequestsInv, QueryInv
  <2>2. TagQuery \notin R
    <3>1. \A r \in R : r.kind # "tags"
      BY <1>10
    <3> QED
      BY <3>1 DEF TagQuery
  <2> HIDE DEF R
  <2> QED
    BY <1>1, <1>4, <1>7, <1>12, <2>1, <2>2, QueryKept DEF TagsExist
<1> QED
  BY <1>13, <1>16, <1>17, <1>18, <1>19 DEF IInv, RequestsInv

-----------------------------------------------------------------------------
(* The answers about bookmarks.                                            *)

LEMMA AnswerLookupKeeps ==
  ASSUME IInv, sent # <<>>, NEW ok \in BOOLEAN, AnswerLookup(sent[1], ok),
         UNCHANGED <<backVars, inits, overlapped>>
  PROVE  IInv'
<1> DEFINE r == sent[1]
<1>1. /\ TypeOK /\ sent \in Seq(Request) /\ inits \in Nat /\ server \in Server
      /\ Sound(input, server.tags) /\ QueryInv /\ IdInv
      /\ form \in [bkmID : Nat, curTabUrl : AnyUrl, url : AnyUrl, enabled : BOOLEAN]
  BY DEF IInv, TypeOK, PagesInv, PageInv, RequestsInv, QueryInv, TagsExist, Sound
<1>2. /\ r.kind = "lookup" /\ sent' = Tail(sent)
      /\ UNCHANGED <<wrapperVars, waiting, subs, server>>
  BY DEF AnswerLookup
<1>3. 1 \in DOMAIN sent /\ 1 \in LookupsOut /\ r \in Request
  BY <1>1, <1>2 DEF LookupsOut
<1>4. /\ sent' \in Seq(Request) /\ Shifted(sent', sent, 1, {}) /\ Moved(sent', sent, 1, {})
  BY <1>1, <1>2, TailShifts, ShiftedMoves
<1>5. ASSUME Sound(input', server.tags), input'.loading = input.loading
      PROVE  TagsExist' /\ QueryInv'
  <2>1. sent[1] # TagQuery
    BY <1>2 DEF TagQuery
  <2>2. WaitsRight(input') /\ OldAreIn(input', server.tags)
    BY <1>5 DEF Sound
  <2> QED
    BY <1>1, <1>2, <1>4, <1>5, <2>1, <2>2, QueryKept DEF TagsExist
<1>6. CASE form' = form /\ input' = input
  <2>1. FormSame
    BY <1>1, <1>2, <1>6 DEF FormSame
  <2>2. TypeOK' /\ PagesInv' /\ IdInv' /\ LookupInv' /\ OrphanInv'
    BY <1>1, <1>2, <1>4, <1>6, <2>1, FormSameKeeps DEF TypeOK
  <2>3. AddInv' /\ SubmitInv' /\ SavedAsMeant'
    BY <1>2, <1>4, <2>1, FormSameSubs
  <2> QED
    BY <1>1, <1>5, <1>6, <2>2, <2>3 DEF IInv, RequestsInv
<1>7. ASSUME r.init # 0, form'.enabled, form'.curTabUrl = form.curTabUrl,
             form' \in [bkmID : Nat, curTabUrl : AnyUrl, url : AnyUrl, enabled : BOOLEAN],
             form'.bkmID \in Ids, Sound(input', server.tags), input'.loading = input.loading,
             \/ r.id # NoBookmark
             \/ /\ form'.bkmID \in WithUrl(r.url)
                /\ server.bookmarks[form'.bkmID].url # NoUrl =>
                     form'.url = server.bookmarks[form'.bkmID].url
             \/ WithUrl(r.url) = {} /\ form'.url = form.curTabUrl /\ form'.bkmID = form.bkmID
      PROVE  IInv'
  <2>1. form.curTabUrl # NoUrl
    BY <1>3, <1>7 DEF IInv, PagesInv, PageInv
  <2>2. TypeOK'
    BY <1>1, <1>2, <1>4, <1>7 DEF TypeOK, Sound, backVars, wrapperVars
  <2>3. PagesInv'
    <3>1. RequestsOfPage
      BY DEF IInv, PagesInv, PageInv, RequestsOfPage
    <3>2. RequestsOfPage'
      BY <1>1, <1>2, <1>4, <1>7, <3>1, OfPageKept
    <3> QED
      BY <1>2, <1>7, <2>1, <3>2
      DEF IInv, PagesInv, WindowInv, TabInv, PageInv, RequestsOfPage, wrapperVars, backVars
  <2>4. IdInv'
    <3>1. form'.bkmID \in Ids'
      BY <1>2, <1>7 DEF Ids
    <3> QED
      BY <1>1, <1>2, <1>4, <3>1, IdKept
  <2>5. ASSUME ~overlapped
        PROVE  /\ ~form.enabled /\ waiting = <<>> /\ LookupsOut = {1}
               /\ r.id = NoBookmark /\ r.url = form.curTabUrl /\ form.bkmID = NoBookmark
    BY <1>3, <1>7, <2>5 DEF IInv, RequestsInv, LookupInv
  <2>6. LookupInv'
    <3> SUFFICES ASSUME ~overlapped PROVE LookupInv'
      BY DEF LookupInv
    <3>1. /\ ~form.enabled /\ waiting' = <<>> /\ LookupsOut = {1}
          /\ r.id = NoBookmark /\ r.url = form.curTabUrl /\ form.bkmID = NoBookmark
      BY <1>2, <2>5
    <3>2. LookupsOut' = {}
      <4> SUFFICES ASSUME NEW i \in LookupsOut' PROVE FALSE
        OBVIOUS
      <4>1. i \in DOMAIN sent' /\ sent'[i].kind = "lookup" /\ i \in Int /\ i > 0
        BY <1>4 DEF LookupsOut
      <4>2. i + 1 \in LookupsOut
        BY <1>4, <4>1 DEF Shifted, LookupsOut
      <4> QED
        BY <3>1, <4>1, <4>2
    <3>3. /\ form'.url = r.url
          /\ form'.bkmID \in WithUrl(r.url) \cup {NoBookmark}
          /\ form'.bkmID = NoBookmark => WithUrl(r.url) = {}
      <4>1. CASE form'.bkmID \in WithUrl(r.url)
        <5>1. form'.bkmID # NoBookmark
          <6>1. server.bookmarks \in Seq(BookmarkRow)
            BY <1>1 DEF Server
          <6>2. form'.bkmID \in DOMAIN server.bookmarks
            BY <4>1 DEF WithUrl
          <6> QED
            BY <6>1, <6>2 DEF NoBookmark
        <5> QED
          BY <1>7, <2>1, <3>1, <4>1, <5>1 DEF WithUrl
      <4>2. CASE form'.bkmID \notin WithUrl(r.url)
        BY <1>7, <3>1, <4>2
      <4> QED
        BY <4>1, <4>2
    <3>4. Shows(form.curTabUrl)'
      BY <1>2, <1>7, <3>1, <3>3 DEF Shows, WithUrl
    <3> QED
      BY <3>1, <3>2, <3>4 DEF LookupInv
  <2>7. OrphanInv'
    BY <1>1, <1>3, <1>4, <1>7, OrphanKept DEF IInv, RequestsInv
  <2>8. AddInv'
    BY <1>1, <1>2, <1>4, AddKept DEF IInv, RequestsInv
  <2>9. SubmitInv'
    <3>1. \A s \in DOMAIN subs : Unchanged(s) => Unchanged(s)'
      BY <1>2, <2>5 DEF Unchanged
    <3> QED
      BY <1>1, <1>2, <1>4, <3>1, SubmitKept DEF IInv, RequestsInv
  <2>10. SavedAsMeant'
    BY <1>2, <1>4, SavedKept DEF IInv, RequestsInv
  <2> QED
    BY <1>5, <1>7, <2>2, <2>3, <2>4, <2>6, <2>7, <2>8, <2>9, <2>10 DEF IInv, RequestsInv
<1>8. ASSUME r.init # 0, NEW b \in DOMAIN server.bookmarks, NEW id \in Ids, Apply(r, b, id),
             r.id # NoBookmark \/ (b \in WithUrl(r.url) /\ id = b)
      PROVE  IInv'
  <2> DEFINE row == server.bookmarks[b]
  <2>1. row \in BookmarkRow /\ row.tags \subseteq server.tags /\ b \in Nat
        /\ server.bookmarks \in Seq(BookmarkRow)
    BY <1>1 DEF Server
  <2>2. row.url \in AnyUrl /\ row.tags \subseteq TagPath
    BY <2>1 DEF BookmarkRow
  <2>3. form' = [form EXCEPT !.bkmID = id, !.enabled = TRUE,
                             !.url = IF row.url = NoUrl THEN @ ELSE row.url]
        /\ input' = (IF r.init # inits THEN input ELSE AddTags(input, row.tags))
    BY <1>8 DEF Apply
  <2> HIDE DEF row, r
  <2>6. id \in Nat
    BY <1>1 DEF Ids, Server, NoBookmark
  <2>4. /\ form'.bkmID = id /\ form'.enabled /\ form'.curTabUrl = form.curTabUrl
        /\ form'.url = (IF row.url = NoUrl THEN form.url ELSE row.url)
        /\ form' \in [bkmID : Nat, curTabUrl : AnyUrl, url : AnyUrl, enabled : BOOLEAN]
    BY <1>1, <2>1, <2>2, <2>3, <2>6
  <2>5. Sound(input', server.tags) /\ input'.loading = input.loading
    BY <1>1, <2>1, <2>2, <2>3, AddTagsKeep
  <2>7. row = server.bookmarks[b]
    BY DEF row
  <2> QED
    BY <1>7, <1>8, <2>4, <2>5, <2>6, <2>7
<1>9. CASE r.init # 0 /\ ok /\ r.id # NoBookmark
  <2>1. Apply(r, r.id, form.bkmID)
    BY <1>9 DEF AnswerLookup
  <2>2. r.id \in DOMAIN server.bookmarks /\ form.bkmID \in Ids
    BY <1>1, <1>2, <1>3, <1>9 DEF IdInv, Ids
  <2> QED
    BY <1>8, <1>9, <2>1, <2>2
<1>10. CASE r.init # 0 /\ ok /\ r.id = NoBookmark /\ WithUrl(r.url) # {}
  <2>1. PICK b \in WithUrl(r.url) : Apply(r, b, b)
    BY <1>10 DEF AnswerLookup
  <2>2. b \in DOMAIN server.bookmarks /\ b \in Ids
    BY DEF WithUrl, Ids
  <2> QED
    BY <1>8, <1>10, <2>1, <2>2
<1>11. CASE r.init # 0 /\ ok /\ r.id = NoBookmark /\ WithUrl(r.url) = {}
  <2>1. form' = [form EXCEPT !.url = form.curTabUrl, !.enabled = TRUE] /\ input' = input
    BY <1>11 DEF AnswerLookup
  <2> HIDE DEF r
  <2>2. /\ form'.bkmID = form.bkmID /\ form'.enabled /\ form'.curTabUrl = form.curTabUrl
        /\ form'.url = form.curTabUrl
        /\ form' \in [bkmID : Nat, curTabUrl : AnyUrl, url : AnyUrl, enabled : BOOLEAN]
    BY <1>1, <2>1
  <2>3. form'.bkmID \in Ids
    BY <1>1, <2>2 DEF IdInv
  <2> QED
    BY <1>1, <1>7, <1>11, <2>1, <2>2, <2>3
<1>12. CASE r.init = 0 \/ ~ok
  BY <1>6, <1>12 DEF AnswerLookup
<1> QED
  BY <1>9, <1>10, <1>11, <1>12

LEMMA AnswerSaveKeeps ==
  ASSUME IInv, sent # <<>>, NEW ok \in BOOLEAN, AnswerSave(sent[1], ok),
         UNCHANGED <<backVars, inits, overlapped>>
  PROVE  IInv'
<1> DEFINE r == sent[1]
<1>1. /\ TypeOK /\ sent \in Seq(Request) /\ subs \in Seq(Submission) /\ server \in Server
      /\ input \in Instance
  BY DEF IInv, TypeOK
<1>2. r.kind = "save" /\ subs' = subs
  BY DEF AnswerSave
<1>3. 1 \in DOMAIN sent /\ r \in Request
  BY <1>1
<1>4. r.id \in Ids /\ r.url \in AnyUrl /\ r.tags \subseteq TagPath /\ r.tags \subseteq server.tags
  <2>1. r.id \in Ids
    BY <1>2, <1>3 DEF IInv, RequestsInv, IdInv
  <2>2. SavedFrom(r, subs[r.sub], server.tags)
    BY <1>2, <1>3, SavedByNumber DEF IInv, RequestsInv
  <2>3. r.url \in AnyUrl /\ r.tags \subseteq TagPath
    BY <1>2, <1>3, RequestIs
  <2> QED
    BY <2>1, <2>2, <2>3 DEF SavedFrom
<1>5. Tail(sent) \in Seq(Request) /\ Shifted(Tail(sent), sent, 1, {})
  BY <1>1, TailShifts
<1>6. ASSUME sent' = Tail(sent), UNCHANGED <<wrapperVars, form, input, waiting>>,
             server' \in Server, server'.tags = server.tags,
             DOMAIN server.bookmarks \subseteq DOMAIN server'.bookmarks,
             server' = server \/ r.init = 0
      PROVE  IInv'
  <2>1. FormSame
    <3>1. r.init = 0 => ~form.enabled
      BY <1>2, <1>3 DEF IInv, RequestsInv, OrphanInv
    <3> QED
      BY <1>6, <3>1 DEF FormSame
  <2>2. sent' \in Seq(Request) /\ Shifted(sent', sent, 1, {})
    BY <1>5, <1>6
  <2>3. TypeOK' /\ PagesInv' /\ IdInv' /\ LookupInv' /\ OrphanInv'
    BY <1>1, <1>2, <1>6, <2>1, <2>2, FormSameKeeps
  <2>4. AddInv' /\ SubmitInv' /\ SavedAsMeant'
    BY <1>2, <2>1, <2>2, FormSameSubs
  <2>5. QueryInv'
    <3>1. sent[1] # TagQuery
      BY <1>2 DEF TagQuery
    <3>2. QueryInv /\ WaitsRight(input')
      BY <1>6 DEF IInv, RequestsInv, QueryInv
    <3> QED
      BY <1>1, <1>6, <2>2, <3>1, <3>2, QueryKept
  <2>6. TagsExist'
    BY <1>6 DEF IInv, RequestsInv, TagsExist
  <2> QED
    BY <2>3, <2>4, <2>5, <2>6 DEF IInv, RequestsInv
<1>7. CASE ~ok \/ IsRefused(r)
  <2>1. sent' = Tail(sent) /\ UNCHANGED <<wrapperVars, form, input, waiting, server>>
    BY <1>7 DEF AnswerSave
  <2> QED
    BY <1>1, <1>6, <2>1
<1>8. CASE ~(~ok \/ IsRefused(r))
  <2> DEFINE rows == server.bookmarks
             row == Row(r)
             new == IF r.id = NoBookmark THEN Append(rows, row)
                    ELSE [rows EXCEPT ![r.id] = row]
  <2>1. server' = [server EXCEPT !.bookmarks = new]
    BY <1>8 DEF AnswerSave
  <2>2. /\ rows \in Seq(BookmarkRow) /\ server.tags \subseteq TagPath
        /\ \A b \in DOMAIN rows : rows[b].tags \subseteq server.tags
        /\ server \in [bookmarks : Seq(BookmarkRow), tags : SUBSET TagPath]
    BY <1>1 DEF Server
  <2>3. row \in BookmarkRow /\ row.tags \subseteq server.tags
    BY <1>4 DEF Row, BookmarkRow
  <2>4. r.id = NoBookmark \/ r.id \in DOMAIN rows
    BY <1>4 DEF Ids
  <2> HIDE DEF rows, row, r
  <2>5. /\ new \in Seq(BookmarkRow) /\ DOMAIN rows \subseteq DOMAIN new
        /\ \A b \in DOMAIN new : new[b].tags \subseteq server.tags
    <3>1. CASE r.id = NoBookmark
      <4>1. /\ Append(rows, row) \in Seq(BookmarkRow)
            /\ DOMAIN Append(rows, row) = DOMAIN rows \cup {Len(rows) + 1}
            /\ Append(rows, row)[Len(rows) + 1] = row
            /\ \A b \in DOMAIN rows : Append(rows, row)[b] = rows[b]
        BY <2>2, <2>3
      <4> QED
        BY <2>2, <2>3, <3>1, <4>1
    <3>2. CASE r.id # NoBookmark
      <4>1. /\ [rows EXCEPT ![r.id] = row] \in Seq(BookmarkRow)
            /\ DOMAIN [rows EXCEPT ![r.id] = row] = DOMAIN rows
            /\ \A b \in DOMAIN rows : [rows EXCEPT ![r.id] = row][b] \in {rows[b], row}
        BY <2>2, <2>3, <2>4, <3>2
      <4> QED
        BY <2>2, <2>3, <3>2, <4>1
    <3> QED
      BY <3>1, <3>2
  <2>6. rows = server.bookmarks
    BY DEF rows
  <2> HIDE DEF new
  <2>7. /\ server'.bookmarks = new /\ server'.tags = server.tags
        /\ server' \in [bookmarks : Seq(BookmarkRow), tags : SUBSET TagPath]
    BY <2>1, <2>2, <2>5
  <2>8. /\ server' \in Server
        /\ DOMAIN server.bookmarks \subseteq DOMAIN server'.bookmarks
    BY <2>5, <2>6, <2>7 DEF Server
  <2>9. CASE r.init = 0
    <3>1. sent' = Tail(sent) /\ UNCHANGED <<wrapperVars, form, input, waiting>>
      BY <1>8, <2>9 DEF AnswerSave, r
    <3> QED
      BY <1>6, <2>7, <2>8, <2>9, <3>1
  <2>10. CASE r.init # 0
    <3>1. sent' = Orphaned(Tail(sent)) /\ Unload
      BY <1>8, <2>10 DEF AnswerSave, r
    <3>2. page.open
      BY <1>3, <2>10 DEF IInv, PagesInv, PageInv, r
    <3>3. sent[1].kind = "save"
      BY <1>2 DEF r
    <3> QED
      BY <1>2, <1>5, <2>7, <2>8, <3>1, <3>2, <3>3, UnloadKeeps
  <2> QED
    BY <2>9, <2>10
<1> QED
  BY <1>7, <1>8

-----------------------------------------------------------------------------
(* The answers about new tags.                                             *)

\* A tag is refused: its submission stays short of it.
LEMMA AddTagRefused ==
  ASSUME IInv, sent # <<>>, sent[1].kind = "addTag", sent' = Tail(sent),
         UNCHANGED <<backVars, wrapperVars, inits, form, input, waiting, overlapped, subs,
                     server>>
  PROVE  IInv'
<1>1. /\ TypeOK /\ sent \in Seq(Request) /\ subs \in Seq(Submission) /\ server \in Server
      /\ input \in Instance /\ inits \in Nat
  BY DEF IInv, TypeOK
<1>2. /\ sent' \in Seq(Request) /\ Shifted(sent', sent, 1, {}) /\ Moved(sent', sent, 1, {})
  BY <1>1, TailShifts, ShiftedMoves
<1>3. FormSame
  BY <1>1 DEF FormSame
<1>4. TypeOK' /\ PagesInv' /\ IdInv' /\ LookupInv' /\ OrphanInv'
  BY <1>1, <1>2, <1>3, FormSameKeeps
<1>5. SubmitInv' /\ SavedAsMeant'
  BY <1>2, <1>3, FormSameSubs
<1>6. TagsExist' /\ QueryInv'
  <2>1. QueryInv /\ WaitsRight(input') /\ TagsExist
    BY DEF IInv, RequestsInv, QueryInv
  <2>2. sent[1] # TagQuery
    BY DEF TagQuery
  <2> QED
    BY <1>1, <1>2, <2>1, <2>2, QueryKept DEF TagsExist
<1>7. ASSUME NEW s \in DOMAIN subs
      PROVE  /\ \A i, j \in AddsOut(s)' : j - i < Missing(s)
             /\ Short(s)' \/ Asked(s)'
  <2>1. /\ \A i, j \in AddsOut(s) : j - i < Missing(s)
        /\ Short(s) \/ Asked(s)
    BY DEF IInv, RequestsInv, AddInv
  <2>2. Missing(s)' = Missing(s) /\ Missing(s) \in Int
    <3>1. subs[s] \in Submission
      BY <1>1
    <3>2. subs[s].newTagPaths \in Seq(TagPath) /\ subs[s].addedCnt \in Nat
      BY <3>1 DEF Submission
    <3> QED
      BY <3>2 DEF Missing
  <2>3. CASE 1 \notin AddsOut(s)
    <3>1. /\ \A i \in AddsOut(s)' : i \in Int /\ i + 1 \in AddsOut(s)
          /\ \A i \in AddsOut(s) : /\ i \in Int /\ i - 1 \in AddsOut(s)'
                                   /\ sent'[i - 1].path = sent[i].path
      <4>1. PICK d, R : d = 1 /\ R = {}
        OBVIOUS
      <4>2. /\ d \in {0, 1} /\ Moved(sent', sent, d, R) /\ (d = 1 => 1 \notin AddsOut(s))
            /\ \A r \in R : r.kind # "addTag"
        BY <1>2, <2>3, <4>1
      <4>3. /\ \A i \in AddsOut(s)' : i \in Int /\ i + d \in AddsOut(s)
            /\ \A i \in AddsOut(s) : /\ i \in Int /\ i - d \in AddsOut(s)'
                                     /\ sent'[i - d].path = sent[i].path
        BY <1>1, <1>2, <4>2, AddsMove
      <4> QED
        BY <4>1, <4>3
    <3>2. \A i, j \in AddsOut(s)' : /\ (j + 1) - (i + 1) = j - i
                                    /\ i + 1 \in AddsOut(s) /\ j + 1 \in AddsOut(s)
      BY <3>1
    <3>3. Short(s) => Short(s)'
      BY <2>2, <3>2 DEF Short
    <3>4. Asked(s) => Asked(s)'
      BY <3>1, ZenonT(60) DEF Asked
    <3> QED
      BY <2>1, <3>2, <3>3, <3>4
  <2>4. CASE 1 \in AddsOut(s)
    <3>1. ASSUME NEW i \in AddsOut(s)' PROVE i \in Nat /\ i > 0 /\ i + 1 \in AddsOut(s)
      <4>1. i \in DOMAIN sent' /\ sent'[i].kind = "addTag" /\ sent'[i].sub = s
        BY DEF AddsOut
      <4> QED
        BY <1>2, <4>1 DEF AddsOut, Shifted
    <3>2. \A j \in AddsOut(s)' : (j + 1) - 1 < Missing(s)
      BY <2>1, <2>4, <3>1
    <3>3. \A i, j \in AddsOut(s)' : j - i + 1 < Missing(s)
      BY <2>2, <3>1, <3>2
    <3>4. Missing(s) > 0
      BY <2>1, <2>2, <2>4
    <3> QED
      BY <2>2, <3>1, <3>3, <3>4 DEF Short
  <2> QED
    BY <2>3, <2>4
<1>8. AddInv'
  <2>1. \A s \in DOMAIN subs : /\ \A i, j \in AddsOut(s)' : j - i < Missing(s)'
                               /\ (Short(s) \/ Asked(s))'
    BY <1>7 DEF Missing
  <2> QED
    BY <2>1 DEF IInv, RequestsInv, AddInv
<1> QED
  BY <1>4, <1>5, <1>6, <1>8 DEF IInv, RequestsInv

\* A tag is made: the bookmark is saved with the last one of its submission.
TagMade(r, s, save, done) ==
  /\ r = sent[1] /\ r.kind = "addTag" /\ s = r.sub
  /\ save = SaveRequest(s, subs'[s])
  /\ done = (r.init # 0 /\ AllAdded(subs'[s]))
  /\ server' = [server EXCEPT !.tags = @ \cup {r.path} \cup Above[r.path]]
  /\ subs' = [subs EXCEPT ![s].tagIDs = @ \cup {r.path}, ![s].addedCnt = @ + 1]
  /\ sent' = Tail(sent) \o (IF done THEN <<save>> ELSE <<>>)
  /\ UNCHANGED <<backVars, wrapperVars, inits, form, input, waiting, overlapped>>

LEMMA AddTagDone ==
  ASSUME IInv, sent # <<>>, NEW r, NEW s, NEW save, NEW done, TagMade(r, s, save, done)
  PROVE  IInv'
<1> DEFINE R == IF done THEN {save} ELSE {}
<1>0. /\ r = sent[1] /\ s = r.sub
      /\ save = SaveRequest(s, subs'[s])
      /\ done = (r.init # 0 /\ AllAdded(subs'[s]))
  BY DEF TagMade
<1>1. PICK p : p = r.path
  OBVIOUS
<1>2. /\ r.kind = "addTag"
       /\ UNCHANGED <<backVars, wrapperVars, inits, form, input, waiting, overlapped>>
       /\ sent' = Tail(sent) \o (IF done THEN <<save>> ELSE <<>>)
  BY DEF TagMade
<1>3. /\ TypeOK /\ sent \in Seq(Request) /\ subs \in Seq(Submission) /\ server \in Server
      /\ input \in Instance /\ inits \in Nat
      /\ form \in [bkmID : Nat, curTabUrl : AnyUrl, url : AnyUrl, enabled : BOOLEAN]
  BY DEF IInv, TypeOK
<1>4. 1 \in DOMAIN sent /\ r \in Request /\ r.init \in Nat /\ p \in TagPath
  <2>1. 1 \in DOMAIN sent /\ r \in Request
    BY <1>0, <1>3
  <2> QED
    BY <1>2, <1>1, <2>1, RequestIs
<1>5. s \in DOMAIN subs /\ r.init \in {0, subs[s].init} /\ p \in TagPath
      /\ 1 \in AddsOut(s)
  BY <1>0, <1>4, <1>2 DEF IInv, RequestsInv, SubmitInv, AddsOut
<1>6. /\ subs[s] \in Submission /\ subs[s].tagIDs \subseteq TagPath
      /\ subs[s].addedCnt \in Nat /\ subs[s].newTagPaths \in Seq(TagPath)
      /\ subs[s].init \in Nat /\ subs[s].id \in Nat /\ subs[s].url \in AnyUrl
  <2>1. subs[s] \in Submission
    BY <1>3, <1>5
  <2> QED
    BY <2>1 DEF Submission
<1>7. /\ subs' \in Seq(Submission) /\ DOMAIN subs' = DOMAIN subs
      /\ \A k \in DOMAIN subs : k # s => subs'[k] = subs[k]
      /\ subs'[s].tagIDs = subs[s].tagIDs \cup {p}
      /\ subs'[s].addedCnt = subs[s].addedCnt + 1
      /\ subs'[s].newTagPaths = subs[s].newTagPaths
      /\ subs'[s].init = subs[s].init /\ subs'[s].id = subs[s].id
      /\ subs'[s].url = subs[s].url
  <2> DEFINE new == [subs[s] EXCEPT !.tagIDs = subs[s].tagIDs \cup {p},
                                    !.addedCnt = subs[s].addedCnt + 1]
  <2>1. subs' = [subs EXCEPT ![s] = new]
    BY <1>5, <1>1 DEF TagMade
  <2>2. /\ new \in Submission /\ new.tagIDs = subs[s].tagIDs \cup {p}
        /\ new.addedCnt = subs[s].addedCnt + 1
        /\ new.newTagPaths = subs[s].newTagPaths
        /\ new.init = subs[s].init /\ new.id = subs[s].id
        /\ new.url = subs[s].url
    <3>1. subs[s].tagIDs \cup {p} \subseteq TagPath /\ subs[s].addedCnt + 1 \in Nat
      BY <1>5, <1>6
    <3> QED
      BY <1>6, <3>1 DEF Submission
  <2> HIDE DEF new
  <2> QED
    BY <1>3, <1>5, <2>1, <2>2
<1>8. server' \in Server /\ server.tags \subseteq server'.tags /\ p \in server'.tags
      /\ server'.bookmarks = server.bookmarks
  <2>1. Above[p] \subseteq TagPath
    BY <1>5, AboveAssumption
  <2>2. /\ server.tags \subseteq TagPath
        /\ server \in [bookmarks : Seq(BookmarkRow), tags : SUBSET TagPath]
        /\ \A b \in DOMAIN server.bookmarks : server.bookmarks[b].tags \subseteq server.tags
    BY <1>3 DEF Server
  <2>3. /\ server'.tags = server.tags \cup {p} \cup Above[p]
        /\ server'.bookmarks = server.bookmarks
        /\ server' \in [bookmarks : Seq(BookmarkRow), tags : SUBSET TagPath]
    <3>1. server' = [server EXCEPT !.tags = server.tags \cup {p} \cup Above[p]]
      BY <1>1 DEF TagMade
    <3> QED
      BY <1>4, <2>1, <2>2, <3>1
  <2> QED
    BY <2>2, <2>3 DEF Server
<1>9. /\ save \in Request /\ save.kind = "save" /\ save.init = subs[s].init
      /\ save.sub = s /\ save.id = form.bkmID /\ save.url = form.url
      /\ save.tags = subs'[s].tagIDs
  <2>1. s \in Nat /\ subs'[s].tagIDs \subseteq TagPath
    BY <1>3, <1>5, <1>6, <1>7
  <2> QED
    BY <1>0, <1>3, <1>6, <1>7, <2>1 DEF SaveRequest, Request
<1>10. sent' \in Seq(Request) /\ Shifted(sent', sent, 1, R)
  <2>1. CASE done
    BY <1>3, <1>9, <1>2, <2>1, TailConcatShifts
  <2>2. CASE ~done
    <3>1. Tail(sent) \in Seq(Request) /\ Tail(sent) \o <<>> = Tail(sent)
      BY <1>3
    <3>2. sent' = Tail(sent)
      BY <1>2, <2>2, <3>1
    <3> QED
      BY <1>3, <2>2, <3>2, TailShifts
  <2> QED
    BY <2>1, <2>2
<1>11. \A q \in R : done /\ q = save
  OBVIOUS
<1> HIDE DEF R
<1>12. Moved(sent', sent, 1, R)
  BY <1>10, ShiftedMoves
<1>13. done => r.init # 0 /\ subs'[s].addedCnt = Len(subs'[s].newTagPaths)
  BY <1>0 DEF AllAdded
<1>14. FormSame
  BY <1>8, <1>2 DEF FormSame
<1>15. TypeOK' /\ PagesInv' /\ IdInv' /\ LookupInv' /\ OrphanInv'
  <2>1. r.init # 0 => form.curTabUrl # NoUrl /\ r.init <= inits
    BY <1>0, <1>4 DEF IInv, PagesInv, PageInv
  <2>2. inits > 0
    BY DEF IInv, PagesInv, PageInv
  <2>3. \A q \in R : /\ q.kind = "save" /\ q.init = r.init /\ r.init # 0
                     /\ q.id = form.bkmID
    BY <1>5, <1>9, <1>13, <1>11
  <2>4. form.bkmID \in Ids
    BY DEF IInv, RequestsInv, IdInv
  <2>5. \A q \in R : /\ inits > 0 /\ q.init <= inits
                     /\ q.init # 0 => form.curTabUrl # NoUrl
                     /\ q.kind # "lookup"
                     /\ q.kind = "save" => q.id \in Ids /\ q.init # 0
    BY <2>1, <2>2, <2>3, <2>4
  <2>6. input' \in Instance
    BY <1>3, <1>2
  <2>7. PICK d : d = 1
    OBVIOUS
  <2> QED
    BY <1>7, <1>10, <1>14, <2>5, <2>6, <2>7, FormSameKeeps
<1>16. /\ Missing(s)' = Missing(s) - 1 /\ Missing(s) \in Int
       /\ done => Missing(s)' = 0
       /\ \A k \in DOMAIN subs : k # s => Missing(k)' = Missing(k)
  <2>1. Len(subs[s].newTagPaths) \in Nat
    BY <1>6
  <2>2. /\ Missing(s) = Len(subs[s].newTagPaths) - subs[s].addedCnt
        /\ Missing(s)' = Len(subs'[s].newTagPaths) - subs'[s].addedCnt
    BY DEF Missing
  <2>3. Missing(s)' = Len(subs[s].newTagPaths) - (subs[s].addedCnt + 1)
    BY <1>7, <2>2
  <2>4. Missing(s)' = Missing(s) - 1 /\ Missing(s) \in Int
    <3>1. PICK a, b : a = Len(subs[s].newTagPaths) /\ b = subs[s].addedCnt
      OBVIOUS
    <3>2. a \in Nat /\ b \in Nat /\ Missing(s) = a - b /\ Missing(s)' = a - (b + 1)
      BY <1>6, <2>1, <2>2, <2>3, <3>1
    <3> QED
      BY <3>2
  <2>5. done => Missing(s)' = 0
    BY <1>6, <1>7, <1>13, <2>1, <2>2
  <2>6. \A k \in DOMAIN subs : k # s => Missing(k)' = Missing(k)
    BY <1>7 DEF Missing
  <2> QED
    BY <2>4, <2>5, <2>6
<1>17. ASSUME NEW k \in DOMAIN subs, k # s
       PROVE  /\ \A i \in AddsOut(k)' : i \in Int /\ i + 1 \in AddsOut(k)
              /\ \A i \in AddsOut(k) : /\ i \in Int /\ i - 1 \in AddsOut(k)'
                                       /\ sent'[i - 1].path = sent[i].path
  <2>1. 1 \notin AddsOut(k)
    BY <1>0, <1>17 DEF AddsOut
  <2>2. \A q \in R : q.kind # "addTag"
    BY <1>9, <1>11
  <2> QED
    BY <1>3, <1>10, <1>12, <2>1, <2>2, AddsMove
<1>18. ASSUME NEW i \in AddsOut(s)'
       PROVE  i \in Nat /\ i > 0 /\ i + 1 \in AddsOut(s) /\ i + 1 \in DOMAIN sent
              /\ sent'[i] = sent[i + 1]
  <2>1. i \in DOMAIN sent' /\ sent'[i].kind = "addTag" /\ sent'[i].sub = s
    BY DEF AddsOut
  <2>2. sent'[i] \notin R
    BY <1>9, <1>11, <2>1
  <2> QED
    BY <1>10, <2>1, <2>2 DEF AddsOut, Shifted
<1>19. ASSUME NEW i \in AddsOut(s), i # 1
       PROVE  i - 1 \in AddsOut(s)' /\ sent'[i - 1].path = sent[i].path
  <2>1. i \in DOMAIN sent /\ sent[i].kind = "addTag" /\ sent[i].sub = s
    BY DEF AddsOut
  <2>2. i \in Int /\ i > 1
    BY <1>3, <1>19, <2>1
  <2>3. i - 1 \in DOMAIN sent' /\ sent'[i - 1] = sent[i]
    BY <1>10, <2>1, <2>2 DEF Shifted
  <2> QED
    BY <2>1, <2>3 DEF AddsOut
<1>20. /\ \A i, j \in AddsOut(s) : j - i < Missing(s)
       /\ Short(s) \/ Asked(s)
  BY <1>5 DEF IInv, RequestsInv, AddInv
<1>21. \A i, j \in AddsOut(s)' : j - i < Missing(s)'
  <2>1. \A j \in AddsOut(s)' : (j + 1) - 1 < Missing(s)
    BY <1>5, <1>18, <1>20
  <2> QED
    BY <1>16, <1>18, <2>1
<1>22. Short(s) => Short(s)'
  <2> SUFFICES ASSUME Short(s) PROVE Short(s)'
    OBVIOUS
  <2>1. 1 - 1 + 1 < Missing(s)
    BY <1>5 DEF Short
  <2>2. \A j \in AddsOut(s)' : (j + 1) - 1 + 1 < Missing(s)
    BY <1>5, <1>18 DEF Short
  <2>3. Missing(s)' > 0
    BY <1>16, <2>1
  <2>4. \A i, j \in AddsOut(s)' : j - i + 1 < Missing(s)'
    BY <1>16, <1>18, <2>2
  <2> QED
    BY <2>3, <2>4 DEF Short
<1>23. Asked(s) => Asked(s)'
  <2> SUFFICES ASSUME Asked(s), NEW t \in ToSet(subs[s].newTagPaths)
               PROVE  t \in subs'[s].tagIDs \/ \E i \in AddsOut(s)' : sent'[i].path = t
    BY <1>7 DEF Asked
  <2>1. CASE t \in subs[s].tagIDs
    BY <1>7, <2>1
  <2>2. CASE \E i \in AddsOut(s) : sent[i].path = t
    <3>1. PICK i \in AddsOut(s) : sent[i].path = t
      BY <2>2
    <3>2. CASE i = 1
      BY <1>0, <1>7, <1>1, <3>1, <3>2
    <3>3. CASE i # 1
      BY <1>19, <3>1, <3>3
    <3> QED
      BY <3>2, <3>3
  <2> QED
    BY <2>1, <2>2 DEF Asked
<1>24. AddInv'
  <2>1. ASSUME NEW k \in DOMAIN subs
        PROVE  /\ subs'[k].init \in 1..inits /\ subs'[k].tagIDs \subseteq server'.tags
               /\ \A i, j \in AddsOut(k)' : j - i < Missing(k)'
               /\ (Short(k) \/ Asked(k))'
    <3>1. /\ subs[k].init \in 1..inits /\ subs[k].tagIDs \subseteq server.tags
          /\ \A i, j \in AddsOut(k) : j - i < Missing(k)
          /\ Short(k) \/ Asked(k)
      BY DEF IInv, RequestsInv, AddInv
    <3>2. CASE k = s
      BY <1>7, <1>8, <1>20, <1>21, <1>22, <1>23, <3>1, <3>2
    <3>3. CASE k # s
      <4>1. \A i, j \in AddsOut(k)' : /\ (j + 1) - (i + 1) = j - i
                                      /\ i + 1 \in AddsOut(k) /\ j + 1 \in AddsOut(k)
        BY <1>17, <3>3
      <4>2. Missing(k)' = Missing(k) /\ subs'[k] = subs[k]
        BY <1>7, <1>16, <3>3
      <4>3. Short(k) => Short(k)'
        BY <4>1, <4>2 DEF Short
      <4>4. Asked(k) => Asked(k)'
        BY <1>17, <3>3, <4>2 DEF Asked
      <4> QED
        BY <1>8, <3>1, <4>1, <4>2, <4>3, <4>4
    <3> QED
      BY <3>2, <3>3
  <2>2. \A k \in DOMAIN subs' :
          /\ subs'[k].init \in 1..inits' /\ subs'[k].tagIDs \subseteq server'.tags
          /\ \A i, j \in AddsOut(k)' : j - i < Missing(k)'
          /\ (Short(k) \/ Asked(k))'
    BY <1>7, <1>2, <2>1
  <2> QED
    BY <2>2 DEF AddInv
<1>25. ASSUME NEW k \in DOMAIN subs
       PROVE  /\ (\E i \in AddsOut(k)' : sent'[i].init # 0) => Unchanged(k)'
              /\ SavesOut(k)' # {} => AddsOut(k)' = {}
              /\ k = s => SavesOut(k) = {}
              /\ k = s /\ r.init # 0 => Unchanged(k)
  <2>1. /\ (\E i \in AddsOut(k) : sent[i].init # 0) => Unchanged(k)
        /\ SavesOut(k) # {} => AddsOut(k) = {}
    BY DEF IInv, RequestsInv, SubmitInv
  <2>2. Unchanged(k) => Unchanged(k)'
    BY <1>7, <1>2 DEF Unchanged
  <2>3. \A i \in AddsOut(k)' : i + 1 \in AddsOut(k) /\ sent'[i] = sent[i + 1]
    <3>1. \A i \in AddsOut(k)' : i \in DOMAIN sent' /\ sent'[i].kind = "addTag" /\ sent'[i].sub = k
      BY DEF AddsOut
    <3>2. \A q \in R : q.kind # "addTag"
      BY <1>9, <1>11
    <3> QED
      BY <1>10, <3>1, <3>2 DEF Shifted, AddsOut
  <2>4. ASSUME NEW i \in SavesOut(k)' PROVE AddsOut(k)' = {}
    <3>1. i \in DOMAIN sent' /\ sent'[i].kind = "save" /\ sent'[i].sub = k
      BY DEF SavesOut
    <3>2. CASE i + 1 \in DOMAIN sent /\ sent'[i] = sent[i + 1]
      <4>1. i + 1 \in SavesOut(k)
        BY <3>1, <3>2 DEF SavesOut
      <4> QED
        BY <2>1, <2>3, <4>1
    <3>3. CASE sent'[i] \in R
      <4>1. done /\ k = s
        BY <1>9, <1>11, <3>1, <3>3
      <4>2. \A j \in AddsOut(s)' : j - j < 0 /\ j \in Int
        BY <1>16, <1>18, <1>21, <4>1
      <4> QED
        BY <4>1, <4>2
    <3> QED
      BY <1>10, <3>1, <3>2, <3>3 DEF Shifted
  <2> QED
    BY <1>0, <1>5, <2>1, <2>2, <2>3, <2>4
<1>26. ASSUME NEW i \in DOMAIN sent'
       PROVE  \/ i + 1 \in DOMAIN sent /\ sent'[i] = sent[i + 1]
              \/ done /\ sent'[i] = save
  BY <1>10, <1>11 DEF Shifted
<1>27. SubmitInv'
  <2>1. ASSUME NEW i \in DOMAIN sent', sent'[i].kind \in {"addTag", "save"}
        PROVE  /\ sent'[i].sub \in DOMAIN subs'
               /\ sent'[i].init \in {0, subs'[sent'[i].sub].init}
    <3>1. CASE i + 1 \in DOMAIN sent /\ sent'[i] = sent[i + 1]
      <4>1. /\ sent'[i].sub \in DOMAIN subs
            /\ sent'[i].init \in {0, subs[sent'[i].sub].init}
        BY <2>1, <3>1 DEF IInv, RequestsInv, SubmitInv
      <4>2. \A k \in DOMAIN subs : subs'[k].init = subs[k].init
        BY <1>7
      <4> QED
        BY <1>7, <4>1, <4>2
    <3>2. CASE done /\ sent'[i] = save
      BY <1>5, <1>7, <1>9, <3>2
    <3> QED
      BY <1>26, <3>1, <3>2
  <2> QED
    BY <1>7, <1>25, <2>1 DEF SubmitInv
<1>28. SavedAsMeant'
  <2>1. ASSUME NEW i \in DOMAIN sent', sent'[i].kind = "save"
        PROVE  SavedFrom(sent'[i], subs'[sent'[i].sub], server'.tags)
    <3>1. CASE i + 1 \in DOMAIN sent /\ sent'[i] = sent[i + 1]
      <4>1. sent[i + 1].sub \in DOMAIN subs /\ i + 1 \in SavesOut(sent[i + 1].sub)
        BY <2>1, <3>1 DEF IInv, RequestsInv, SubmitInv, SavesOut
      <4>2. sent[i + 1].sub # s
        BY <1>25, <4>1
      <4>3. SavedFrom(sent[i + 1], subs[sent[i + 1].sub], server.tags)
        BY <2>1, <3>1, SavedByNumber DEF IInv, RequestsInv
      <4>4. subs'[sent[i + 1].sub] = subs[sent[i + 1].sub]
        BY <1>7, <4>1, <4>2
      <4> QED
        BY <1>8, <3>1, <4>3, <4>4 DEF SavedFrom
    <3>2. CASE done /\ sent'[i] = save
      <4>1. /\ sent'[i].sub = s /\ sent'[i].id = form.bkmID /\ sent'[i].url = form.url
            /\ sent'[i].tags = subs'[s].tagIDs
        BY <1>9, <3>2
      <4>2. Missing(s)' = 0 /\ AddsOut(s)' = {}
        <5>1. i \in SavesOut(s)'
          BY <2>1, <4>1 DEF SavesOut
        <5> QED
          BY <1>5, <1>16, <1>25, <3>2, <5>1
      <4>3. ToSet(subs'[s].newTagPaths) \subseteq subs'[s].tagIDs
        <5>1. ~Short(s)'
          BY <4>2 DEF Short
        <5>2. Asked(s)'
          BY <1>20, <1>22, <1>23, <5>1
        <5> QED
          BY <4>2, <5>2 DEF Asked
      <4>4. subs'[s].tagIDs \subseteq server'.tags
        BY <1>5, <1>7, <1>24 DEF AddInv
      <4>5. subs[s].init = inits /\ ~overlapped => form.bkmID = subs[s].id /\ form.url = subs[s].url
        BY <1>5, <1>13, <1>25, <3>2 DEF Unchanged
      <4> QED
        BY <1>7, <4>1, <4>3, <4>4, <4>5 DEF SavedFrom
    <3> QED
      BY <1>26, <3>1, <3>2
  <2> QED
    BY <1>2, <2>1, SavedNext
<1>29. TagsExist' /\ QueryInv'
  <2>1. QueryInv /\ WaitsRight(input') /\ TagsExist
    BY <1>2 DEF IInv, RequestsInv, QueryInv
  <2>2. sent[1] # TagQuery /\ TagQuery \notin R
    <3>1. TagQuery.kind = "tags"
      BY DEF TagQuery
    <3>2. sent[1].kind # "tags"
      BY ONLY <1>0, <1>2
    <3>3. \A q \in R : q.kind # "tags"
      BY ONLY <1>9, <1>11
    <3> QED
      BY ONLY <3>1, <3>2, <3>3
  <2>3. TagsExist'
    BY <1>8, <1>2, <2>1 DEF TagsExist, OldAreIn
  <2> QED
    BY <1>3, <1>10, <1>2, <2>1, <2>2, <2>3, QueryKept
<1> QED
  BY <1>15, <1>24, <1>27, <1>28, <1>29 DEF IInv, RequestsInv

LEMMA AnswerAddTagKeeps ==
  ASSUME IInv, sent # <<>>, NEW ok \in BOOLEAN, AnswerAddTag(sent[1], ok),
         UNCHANGED <<backVars, inits, overlapped>>
  PROVE  IInv'
<1>1. /\ sent[1].kind = "addTag" /\ UNCHANGED <<wrapperVars, form, input, waiting>>
  BY DEF AnswerAddTag
<1>2. CASE ~ok \/ sent[1].path \in server.tags
  <2>1. UNCHANGED <<server, subs>> /\ sent' = Tail(sent)
    BY <1>2 DEF AnswerAddTag
  <2> QED
    BY <1>1, <2>1, AddTagRefused
<1>3. CASE ~(~ok \/ sent[1].path \in server.tags)
  <2>1. TagMade(sent[1], sent[1].sub, SaveRequest(sent[1].sub, subs'[sent[1].sub]),
                sent[1].init # 0 /\ AllAdded(subs'[sent[1].sub]))
    BY <1>1, <1>3 DEF AnswerAddTag, TagMade
  <2> QED
    BY <2>1, AddTagDone
<1> QED
  BY <1>2, <1>3

-----------------------------------------------------------------------------

LEMMA IInvStep == IInv /\ [Next]_vars => IInv'
<1> SUFFICES ASSUME IInv, [Next]_vars PROVE IInv'
  OBVIOUS
<1>1. CASE \E u \in Url : Command(u)
  BY <1>1, CommandKeeps
<1>2. CASE Connect
  BY <1>2, ConnectKeeps
<1>3. CASE ClearCurTab
  BY <1>3, ClearCurTabKeeps
<1>4. CASE SetCurTab
  BY <1>4, SetCurTabKeeps
<1>5. CASE DocumentReady
  BY <1>5, DocumentReadyKeeps
<1>6. CASE CloseEarly
  BY <1>6, CloseEarlyKeeps
<1>7. CASE CloseWindow
  BY <1>7, CloseWindowKeeps
<1>8. CASE Loaded
  BY <1>8, LoadedKeeps
<1>9. CASE Connected
  BY <1>9, ConnectedKeeps
<1>10. CASE \E p \in Pattern : TypeText(p)
  BY <1>10, TypeTextKeeps
<1>11. CASE ChangeTags
  BY <1>11, ChangeTagsKeeps
<1>12. CASE Submit
  BY <1>12, SubmitKeeps
<1>13. CASE Answer
  <2>1. sent # <<>> /\ UNCHANGED <<backVars, inits, overlapped>>
    BY <1>13 DEF Answer
  <2>2. PICK ok \in BOOLEAN :
          \/ AnswerTags(sent[1], ok) \/ AnswerLookup(sent[1], ok)
          \/ AnswerAddTag(sent[1], ok) \/ AnswerSave(sent[1], ok)
    BY <1>13 DEF Answer
  <2> QED
    BY <2>1, <2>2, AnswerTagsKeeps, AnswerLookupKeeps, AnswerAddTagKeeps, AnswerSaveKeeps
<1>14. CASE UNCHANGED vars
  <2>1. UNCHANGED <<backVars, wrapperVars, editVars, server>>
    BY <1>14 DEF vars
  <2>2. RequestsInv'
    BY <2>1, RequestsUnchanged DEF IInv
  <2>3. TypeOK' /\ PagesInv'
    BY <2>1 DEF IInv, TypeOK, PagesInv, WindowInv, PageInv, TabInv, backVars, wrapperVars,
                editVars
  <2> QED
    BY <2>2, <2>3 DEF IInv
<1> QED
  BY <1>1, <1>2, <1>3, <1>4, <1>5, <1>6, <1>7, <1>8, <1>9, <1>10, <1>11, <1>12, <1>13, <1>14
  DEF Next

LEMMA Inductive == Spec => []IInv
<1> QED
  BY InitIInv, IInvStep, PTL DEF Spec

\* There is one window of the page at most and no second port, whenever commands come,
\* windows open and close, and the messages about them arrive (background.js).
THEOREM OneWindow == Spec => []OnePage
<1>1. IInv => OnePage
  <2> SUFFICES ASSUME IInv PROVE OnePage
    OBVIOUS
  <2>1. /\ TypeOK /\ opening \in Nat /\ "portExists" \notin threw
        /\ opening > 0 => opening = 1 /\ ~page.open
    BY DEF IInv, TypeOK, PagesInv, WindowInv
  <2> QED
    BY <2>1 DEF OnePage
<1> QED
  BY <1>1, Inductive, PTL

\* When nothing is on its way any more, the form is that of the last tab, with the
\* bookmark that has its URL or, if none has, a new one (initLoggedIn), unless the
\* page was initialised before a former lookup was answered.
THEOREM FormOfLastTab == Spec => []FormIsForTab
<1>1. IInv => FormIsForTab
  <2> SUFFICES ASSUME IInv, page.open, toPage = <<>>, page.loads = 0, form.enabled, ~overlapped
               PROVE  /\ form.url = ctx.tab
                      /\ form.bkmID \in WithUrl(ctx.tab) \cup {NoBookmark}
                      /\ form.bkmID = NoBookmark => WithUrl(ctx.tab) = {}
    BY DEF FormIsForTab
  <2>1. Shows(form.curTabUrl)
    BY DEF IInv, RequestsInv, LookupInv
  <2>2. form.curTabUrl = ctx.tab
    BY DEF IInv, PagesInv, PageInv, TabInv
  <2> QED
    BY <2>1, <2>2 DEF Shows
<1> QED
  BY <1>1, Inductive, PTL

\* A bookmark is saved with the tags its form had when it was submitted, all of which
\* exist by then, however the answers about new tags and the events of the page come
\* in between (saveBookmark after the last tag that is added).
THEOREM SavedRight == Spec => []SavedAsMeant
<1>1. IInv => SavedAsMeant
  BY DEF IInv, RequestsInv
<1> QED
  BY <1>1, Inductive, PTL

\* The tag input waits for a request for suggestions if and only if one is out, and
\* what is typed or entered by its text is not forgotten (queryTags, pendingRequest).
THEOREM TypedAsked == Spec => []TypedIsAsked
<1>1. IInv => TypedIsAsked
  BY DEF IInv, RequestsInv, QueryInv
<1> QED
  BY <1>1, Inductive, PTL

=============================================================================
