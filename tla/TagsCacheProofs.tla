-------------------------- MODULE TagsCacheProofs ---------------------------
(***************************************************************************)
(* Proofs about TagsCache, for any number of readers, writers, paths and   *)
(* changes.  IInv is inductive; freshness of the answers, currency of the  *)
(* cache and the implementation of FreshReads follow from it.              *)
(***************************************************************************)
EXTENDS TagsCache, TLAPS

\* The initial states satisfy the inductive invariant.
THEOREM InitIInv == Init => IInv
BY MaxVersionAssumption, NilAssumption
   DEF Init, IInv, TypeOK, BoundsOK, ReadersOK, CacheOK, NoTree

\* What every step needs to know of a reader that holds a struct.
LEMMA HeldStruct ==
  ASSUME IInv, NEW r \in Reader, rpc[r] # "idle"
  PROVE  cache[r] \in Cache /\ AtLeast(cache[r], since[r])
BY DEF IInv, TypeOK, ReadersOK

\* No step leaves the types.
LEMMA TypeStep == IInv /\ [Next]_vars => TypeOK'
<1> SUFFICES ASSUME IInv, [Next]_vars PROVE TypeOK'
  OBVIOUS
<1>0. TypeOK
  BY DEF IInv
<1> USE <1>0 DEF TypeOK
<1>1. ASSUME NEW r \in Reader, NEW k \in Key, GetCache(r, k) PROVE TypeOK'
  BY <1>1, SMTT(30) DEF GetCache, Goto, dbVars, writerVars
<1>2. ASSUME NEW r \in Reader, SetCache(r) PROVE TypeOK'
  BY <1>2 DEF SetCache, Goto, dbVars, writerVars
<1>3. ASSUME NEW r \in Reader, GetTagData(r) PROVE TypeOK'
  <2>1. cache[r] \in Cache
    BY <1>3, HeldStruct DEF GetTagData
  <2> QED
    BY <1>3, <2>1 DEF GetTagData, Goto, dbVars, writerVars
<1>4. ASSUME NEW r \in Reader, Query(r) PROVE TypeOK'
  BY <1>4 DEF Query, Goto, dbVars, writerVars
<1>5. ASSUME NEW r \in Reader, QueryFails(r) PROVE TypeOK'
  BY <1>5 DEF QueryFails, End, Goto, dbVars, writerVars
<1>6. ASSUME NEW r \in Reader, SetTagData(r) PROVE TypeOK'
  BY <1>6 DEF SetTagData, Goto, dbVars, writerVars
<1>7. ASSUME NEW r \in Reader, Respond(r) PROVE TypeOK'
  BY <1>7 DEF Respond, End, Goto, dbVars, writerVars
<1>8. ASSUME NEW w \in Writer, Commit(w) PROVE TypeOK'
  BY <1>8 DEF Commit, readerVars
<1>9. ASSUME NEW w \in Writer, Invalidate(w) PROVE TypeOK'
  BY <1>9 DEF Invalidate, LastConfirmed, readerVars
<1>10. ASSUME AddTestTagsTree PROVE TypeOK'
  BY <1>10 DEF AddTestTagsTree, readerVars, writerVars
<1>11. ASSUME Restart PROVE TypeOK'
  BY <1>11 DEF Restart
<1>12. ASSUME UNCHANGED vars PROVE TypeOK'
  BY <1>12 DEF vars, dbVars, readerVars, writerVars
<1> QED
  BY <1>1, <1>2, <1>3, <1>4, <1>5, <1>6, <1>7, <1>8, <1>9, <1>10, <1>11, <1>12
     DEF Next, ReaderStep, WriterStep

\* Versions only grow, so nothing gets ahead of the database.
LEMMA BoundsStep == IInv /\ [Next]_vars => BoundsOK'
<1> SUFFICES ASSUME IInv, [Next]_vars PROVE BoundsOK'
  OBVIOUS
<1>0. TypeOK /\ BoundsOK
  BY DEF IInv
<1>t. TypeOK'
  BY TypeStep
<1> USE <1>0 DEF TypeOK, BoundsOK
<1>1. ASSUME NEW r \in Reader, NEW k \in Key, GetCache(r, k) PROVE BoundsOK'
  BY <1>1 DEF GetCache, Goto, dbVars, writerVars, NoTree
<1>2. ASSUME NEW r \in Reader, SetCache(r) PROVE BoundsOK'
  BY <1>2 DEF SetCache, Goto, dbVars, writerVars
<1>3. ASSUME NEW r \in Reader, GetTagData(r) PROVE BoundsOK'
  <2>1. cache[r] \in Cache
    BY <1>3, HeldStruct DEF GetTagData
  <2> QED
    BY <1>3, <2>1 DEF GetTagData, Goto, dbVars, writerVars
<1>4. ASSUME NEW r \in Reader, Query(r) PROVE BoundsOK'
  BY <1>4 DEF Query, Goto, dbVars, writerVars
<1>5. ASSUME NEW r \in Reader, QueryFails(r) PROVE BoundsOK'
  BY <1>5 DEF QueryFails, End, Goto, dbVars, writerVars
<1>6. ASSUME NEW r \in Reader, SetTagData(r) PROVE BoundsOK'
  BY <1>6 DEF SetTagData, Goto, dbVars, writerVars
<1>7. ASSUME NEW r \in Reader, Respond(r) PROVE BoundsOK'
  BY <1>7 DEF Respond, End, Goto, dbVars, writerVars
<1>8. ASSUME NEW w \in Writer, Commit(w) PROVE BoundsOK'
  BY <1>8, <1>t, SMTT(30) DEF Commit, readerVars, NoTree
<1>9. ASSUME NEW w \in Writer, Invalidate(w) PROVE BoundsOK'
  BY <1>9 DEF Invalidate, LastConfirmed, readerVars
<1>10. ASSUME AddTestTagsTree PROVE BoundsOK'
  BY <1>10, <1>t DEF AddTestTagsTree, readerVars, writerVars, NoTree
<1>11. ASSUME Restart PROVE BoundsOK'
  BY <1>11, <1>t DEF Restart
<1>12. ASSUME UNCHANGED vars PROVE BoundsOK'
  BY <1>12 DEF vars, dbVars, readerVars, writerVars
<1> QED
  BY <1>1, <1>2, <1>3, <1>4, <1>5, <1>6, <1>7, <1>8, <1>9, <1>10, <1>11, <1>12
     DEF Next, ReaderStep, WriterStep

\* What a struct has and is about to get stays at least as new as it was, in the
\* map or out of it: a fill only brings what was read since.
LEMMA AtLeastKept ==
  ASSUME IInv, [Next]_vars, NEW c \in Cache, NEW v \in Nat, v <= version,
         AtLeast(c, v)
  PROVE  AtLeast(c, v)'
<1>0. TypeOK /\ BoundsOK
  BY DEF IInv
<1> USE <1>0 DEF TypeOK, BoundsOK, AtLeast, Holds
<1>1. ASSUME NEW r \in Reader, NEW k \in Key, GetCache(r, k) PROVE AtLeast(c, v)'
  <2>1. \A q \in Reader : rpc'[q] = "fill" =>
           rpc[q] = "fill" /\ cache'[q] = cache[q] /\ tagData'[q] = tagData[q]
    BY <1>1 DEF GetCache, Goto
  <2>2. \A x \in Key : tree'[c][x] = NoTree \/ tree'[c][x] = tree[c][x]
    BY <1>1, SMTT(30) DEF GetCache
  <2> QED
    BY <2>1, <2>2
<1>2. ASSUME NEW r \in Reader, SetCache(r) PROVE AtLeast(c, v)'
  <2>1. cache[r] \in Cache
    BY <1>2, HeldStruct DEF SetCache
  <2> QED
    BY <1>2, <2>1 DEF SetCache, Goto
<1>3. ASSUME NEW r \in Reader, GetTagData(r) PROVE AtLeast(c, v)'
  <2>1. cache[r] \in Cache
    BY <1>3, HeldStruct DEF GetTagData
  <2> QED
    BY <1>3, <2>1 DEF GetTagData, Goto
<1>4. ASSUME NEW r \in Reader, Query(r) PROVE AtLeast(c, v)'
  BY <1>4 DEF Query, Goto
<1>5. ASSUME NEW r \in Reader, QueryFails(r) PROVE AtLeast(c, v)'
  BY <1>5 DEF QueryFails, End, Goto
<1>6. ASSUME NEW r \in Reader, SetTagData(r) PROVE AtLeast(c, v)'
  <2>1. cache[r] \in Cache
    BY <1>6, HeldStruct DEF SetTagData
  <2> QED
    BY <1>6, <2>1 DEF SetTagData, Goto
<1>7. ASSUME NEW r \in Reader, Respond(r) PROVE AtLeast(c, v)'
  BY <1>7 DEF Respond, End, Goto
<1>8. ASSUME NEW w \in Writer, Commit(w) PROVE AtLeast(c, v)'
  BY <1>8 DEF Commit, readerVars
<1>9. ASSUME NEW w \in Writer, Invalidate(w) PROVE AtLeast(c, v)'
  BY <1>9 DEF Invalidate, readerVars
<1>10. ASSUME AddTestTagsTree PROVE AtLeast(c, v)'
  BY <1>10 DEF AddTestTagsTree, readerVars
<1>11. ASSUME Restart PROVE AtLeast(c, v)'
  BY <1>11 DEF Restart
<1>12. ASSUME UNCHANGED vars PROVE AtLeast(c, v)'
  BY <1>12 DEF vars, readerVars
<1> QED
  BY <1>1, <1>2, <1>3, <1>4, <1>5, <1>6, <1>7, <1>8, <1>9, <1>10, <1>11, <1>12
     DEF Next, ReaderStep, WriterStep

\* The part of ReadersOK about a struct that is not published yet.
Private(r) ==
  rpc[r] = "create" =>
    /\ tagsTree # cache[r]
    /\ \A q \in Reader : q # r => cache[q] # cache[r]
    /\ \A k \in Key : tree[cache[r]][k] = NoTree

\* A struct that is made is known to nobody else until it is published.
LEMMA PrivateStep ==
  ASSUME IInv, [Next]_vars, NEW s \in Reader PROVE Private(s)'
<1>0. /\ TypeOK
      /\ \A q \in Reader : Private(q) /\ (rpc[q] = "idle" <=> cache[q] = Nil)
  BY DEF IInv, ReadersOK, Private
<1> USE <1>0, NilAssumption DEF TypeOK, Private
<1>1. ASSUME NEW r \in Reader, NEW k \in Key, GetCache(r, k) PROVE Private(s)'
  <2>1. CASE tagsTree # Nil
    BY <1>1, <2>1 DEF GetCache, Goto
  <2>2. CASE tagsTree = Nil
    <3>1. PICK c \in Cache :
             /\ Free(c)
             /\ cache' = [cache EXCEPT ![r] = c]
             /\ tree' = [tree EXCEPT ![c] = [x \in Key |-> NoTree]]
      BY <1>1, <2>2 DEF GetCache
    <3>2. rpc' = [rpc EXCEPT ![r] = "create"] /\ tagsTree' = Nil
      BY <1>1, <2>2 DEF GetCache, Goto
    <3>3. CASE s = r
      BY <3>1, <3>2, <3>3 DEF Free
    <3>4. CASE s # r
      <4>1. rpc'[s] = rpc[s] /\ cache'[s] = cache[s] /\ cache[s] # c
        BY <3>1, <3>2, <3>4 DEF Free
      <4>2. rpc[s] = "create" => tree'[cache[s]] = tree[cache[s]]
        BY <3>1, <4>1
      <4> QED
        BY <3>1, <3>2, <3>4, <4>1, <4>2, <2>2
    <3> QED
      BY <3>3, <3>4
  <2> QED
    BY <2>1, <2>2
<1>2. ASSUME NEW r \in Reader, SetCache(r) PROVE Private(s)'
  BY <1>2 DEF SetCache, Goto
<1>3. ASSUME NEW r \in Reader, GetTagData(r) PROVE Private(s)'
  BY <1>3 DEF GetTagData, Goto
<1>4. ASSUME NEW r \in Reader, Query(r) PROVE Private(s)'
  BY <1>4 DEF Query, Goto
<1>5. ASSUME NEW r \in Reader, QueryFails(r) PROVE Private(s)'
  BY <1>5 DEF QueryFails, End, Goto
<1>6. ASSUME NEW r \in Reader, SetTagData(r) PROVE Private(s)'
  <2>1. rpc' = [rpc EXCEPT ![r] = "respond"] /\ rpc[r] = "fill"
    BY <1>6 DEF SetTagData, Goto
  <2>2. rpc'[s] = "create" => s # r /\ rpc[s] = "create"
    BY <2>1
  <2>3. rpc[s] = "create" /\ s # r => tree'[cache[s]] = tree[cache[s]]
    BY <1>6 DEF SetTagData
  <2> QED
    BY <1>6, <2>2, <2>3 DEF SetTagData
<1>7. ASSUME NEW r \in Reader, Respond(r) PROVE Private(s)'
  BY <1>7 DEF Respond, End, Goto
<1>8. ASSUME NEW w \in Writer, Commit(w) PROVE Private(s)'
  BY <1>8 DEF Commit, readerVars
<1>9. ASSUME NEW w \in Writer, Invalidate(w) PROVE Private(s)'
  BY <1>9 DEF Invalidate, readerVars
<1>10. ASSUME AddTestTagsTree PROVE Private(s)'
  BY <1>10 DEF AddTestTagsTree, readerVars
<1>11. ASSUME Restart PROVE Private(s)'
  BY <1>11 DEF Restart
<1>12. ASSUME UNCHANGED vars PROVE Private(s)'
  BY <1>12 DEF vars, readerVars
<1> QED
  BY <1>1, <1>2, <1>3, <1>4, <1>5, <1>6, <1>7, <1>8, <1>9, <1>10, <1>11, <1>12
     DEF Next, ReaderStep, WriterStep

\* A reader has a struct from GetCacheForUser to its response, and no other.
Holding(r) == rpc[r] = "idle" <=> cache[r] = Nil

\* A response shows no tags older than the request's changes.
FreshResponse(r) == rpc[r] = "respond" => tagData[r] >= since[r]

\* A reader has a struct as long as its request lasts.
LEMMA HoldingStep ==
  ASSUME IInv, [Next]_vars, NEW s \in Reader PROVE Holding(s)'
<1>0. TypeOK /\ Holding(s)
  BY DEF IInv, ReadersOK, Holding
<1> USE <1>0, NilAssumption
    DEF TypeOK, Holding, GetCache, SetCache, GetTagData, Query, QueryFails,
        SetTagData, Respond, End, Goto, Commit, Invalidate, AddTestTagsTree,
        Restart, vars, readerVars
<1>1. ASSUME NEW r \in Reader, ReaderStep(r) PROVE Holding(s)'
  BY <1>1 DEF ReaderStep
<1>2. ASSUME NEW w \in Writer, WriterStep(w) PROVE Holding(s)'
  BY <1>2 DEF WriterStep
<1>3. CASE AddTestTagsTree \/ Restart \/ UNCHANGED vars
  BY <1>3
<1> QED
  BY <1>1, <1>2, <1>3 DEF Next

\* A reader's answer comes from the struct it holds or from a fill of its own.
LEMMA FreshStep ==
  ASSUME IInv, [Next]_vars, NEW s \in Reader PROVE FreshResponse(s)'
<1>0. /\ TypeOK /\ FreshResponse(s)
      /\ rpc[s] # "idle" => AtLeast(cache[s], since[s]) /\ cache[s] \in Cache
  BY HeldStruct DEF IInv, ReadersOK, FreshResponse
<1> USE <1>0 DEF TypeOK, FreshResponse, NoTree
<1>1. ASSUME NEW r \in Reader, NEW k \in Key, GetCache(r, k)
      PROVE  FreshResponse(s)'
  BY <1>1 DEF GetCache, Goto
<1>2. ASSUME NEW r \in Reader, SetCache(r) PROVE FreshResponse(s)'
  BY <1>2 DEF SetCache, Goto
<1>3. ASSUME NEW r \in Reader, GetTagData(r) PROVE FreshResponse(s)'
  BY <1>3 DEF GetTagData, Goto, AtLeast
<1>4. ASSUME NEW r \in Reader, Query(r) PROVE FreshResponse(s)'
  BY <1>4 DEF Query, Goto
<1>5. ASSUME NEW r \in Reader, QueryFails(r) PROVE FreshResponse(s)'
  BY <1>5 DEF QueryFails, End, Goto
<1>6. ASSUME NEW r \in Reader, SetTagData(r) PROVE FreshResponse(s)'
  BY <1>6 DEF SetTagData, Goto, AtLeast, Holds
<1>7. ASSUME NEW r \in Reader, Respond(r) PROVE FreshResponse(s)'
  BY <1>7 DEF Respond, End, Goto
<1>8. ASSUME NEW w \in Writer, WriterStep(w) PROVE FreshResponse(s)'
  BY <1>8 DEF WriterStep, Commit, Invalidate, readerVars
<1>9. CASE AddTestTagsTree \/ Restart \/ UNCHANGED vars
  BY <1>9 DEF AddTestTagsTree, Restart, vars, readerVars
<1> QED
  BY <1>1, <1>2, <1>3, <1>4, <1>5, <1>6, <1>7, <1>8, <1>9 DEF Next, ReaderStep

\* A struct that has just been made is as new as can be.
LEMMA NewStruct ==
  ASSUME IInv, NEW r \in Reader, NEW k \in Key, GetCache(r, k), tagsTree = Nil,
         NEW v \in Nat
  PROVE  AtLeast(cache[r], v)'
<1>0. TypeOK
  BY DEF IInv
<1>1. PICK c \in Cache : /\ Free(c)
                         /\ cache' = [cache EXCEPT ![r] = c]
                         /\ tree' = [tree EXCEPT ![c] = [x \in Key |-> NoTree]]
  BY DEF GetCache
<1>2. rpc' = [rpc EXCEPT ![r] = "create"]
  BY DEF GetCache, Goto
<1>3. cache'[r] = c /\ \A q \in Reader : cache'[q] = c => q = r
  BY <1>0, <1>1 DEF TypeOK, Free
<1>4. \A q \in Reader : Holds(q, cache[r])' => rpc'[q] # "fill"
  BY <1>0, <1>2, <1>3 DEF TypeOK, Holds
<1>5. \A x \in Key : tree'[c][x] = NoTree
  BY <1>0, <1>1 DEF TypeOK
<1> QED
  BY <1>3, <1>4, <1>5 DEF AtLeast

\* AtLeastKept with the definition expanded, so that it can be used for a struct
\* and a version that are themselves parts of the state.
LEMMA KeptExpanded ==
  ASSUME IInv, [Next]_vars, NEW c \in Cache, NEW v \in Nat, v <= version,
         AtLeast(c, v)
  PROVE  /\ \A k \in Key : tree'[c][k] = NoTree \/ tree'[c][k] >= v
         /\ \A r \in Reader : cache'[r] = c /\ rpc'[r] # "idle"
                               /\ rpc'[r] = "fill" => tagData'[r] >= v
BY AtLeastKept DEF AtLeast, Holds

\* Only GetCacheForUser gives a reader a struct and the start of a request.
LEMMA SameStruct ==
  ASSUME IInv, [Next]_vars, NEW s \in Reader, rpc'[s] # "idle",
         ~\E k \in Key : GetCache(s, k)
  PROVE  rpc[s] # "idle" /\ cache'[s] = cache[s] /\ since'[s] = since[s]
<1>0. TypeOK
  BY DEF IInv
<1> USE <1>0 DEF TypeOK
<1>1. ASSUME NEW r \in Reader, NEW k \in Key, GetCache(r, k), r # s
      PROVE  rpc[s] # "idle" /\ cache'[s] = cache[s] /\ since'[s] = since[s]
  BY <1>1 DEF GetCache, Goto
<1>2. ASSUME NEW r \in Reader, SetCache(r) \/ GetTagData(r) \/ Query(r)
      PROVE  rpc[s] # "idle" /\ cache'[s] = cache[s] /\ since'[s] = since[s]
  BY <1>2 DEF SetCache, GetTagData, Query, Goto
<1>3. ASSUME NEW r \in Reader, QueryFails(r) \/ SetTagData(r) \/ Respond(r)
      PROVE  rpc[s] # "idle" /\ cache'[s] = cache[s] /\ since'[s] = since[s]
  BY <1>3 DEF QueryFails, SetTagData, Respond, End, Goto
<1>4. ASSUME NEW w \in Writer, WriterStep(w)
      PROVE  rpc[s] # "idle" /\ cache'[s] = cache[s] /\ since'[s] = since[s]
  BY <1>4 DEF WriterStep, Commit, Invalidate, readerVars
<1>5. CASE AddTestTagsTree \/ Restart \/ UNCHANGED vars
  BY <1>5 DEF AddTestTagsTree, Restart, vars, readerVars
<1> QED
  BY <1>1, <1>2, <1>3, <1>4, <1>5 DEF Next, ReaderStep

\* What a reader holds stays at least as new as its request.
LEMMA HeldStep ==
  ASSUME IInv, [Next]_vars, NEW s \in Reader, rpc'[s] # "idle"
  PROVE  AtLeast(cache[s], since[s])'
<1>0. TypeOK /\ BoundsOK /\ CacheOK
  BY DEF IInv
<1>1. ASSUME NEW k \in Key, GetCache(s, k)
      PROVE  AtLeast(cache[s], since[s])'
  <2>1. since'[s] = confirmed /\ confirmed <= version /\ confirmed \in Nat
    BY <1>0, <1>1 DEF TypeOK, BoundsOK, GetCache
  <2>2. CASE tagsTree = Nil
    BY <1>1, <2>1, <2>2, NewStruct DEF AtLeast, Holds
  <2>3. CASE tagsTree # Nil
    <3>1. /\ cache'[s] = tagsTree /\ tagsTree \in Cache
          /\ AtLeast(tagsTree, confirmed)
      BY <1>0, <1>1, <2>3 DEF TypeOK, CacheOK, GetCache
    <3> QED
      BY <2>1, <3>1, KeptExpanded DEF AtLeast, Holds
  <2> QED
    BY <2>2, <2>3
<1>2. CASE ~\E k \in Key : GetCache(s, k)
  <2>1. rpc[s] # "idle" /\ cache'[s] = cache[s] /\ since'[s] = since[s]
    BY <1>2, SameStruct
  <2>2. cache[s] \in Cache /\ AtLeast(cache[s], since[s])
    BY <2>1, HeldStruct
  <2>3. since[s] \in Nat /\ since[s] <= version
    BY <1>0 DEF TypeOK, BoundsOK
  <2> QED
    BY <2>1, <2>2, <2>3, KeptExpanded DEF AtLeast, Holds
<1> QED
  BY <1>1, <1>2

\* The parts about one reader put together.
LEMMA ReadersStep == IInv /\ [Next]_vars => ReadersOK'
BY HoldingStep, HeldStep, FreshStep, PrivateStep
   DEF ReadersOK, Holding, FreshResponse, Private

\* The published struct is at least as new as the confirmed changes.
LEMMA PublishedStep ==
  ASSUME IInv, [Next]_vars, tagsTree' # Nil
  PROVE  AtLeast(tagsTree, confirmed)'
<1>0. TypeOK /\ BoundsOK /\ CacheOK /\ ReadersOK
  BY DEF IInv
<1>1. ASSUME NEW r \in Reader, SetCache(r) PROVE AtLeast(tagsTree, confirmed)'
  <2>1. cache[r] \in Cache /\ Private(r) /\ rpc[r] = "create"
    BY <1>0, <1>1, HeldStruct DEF ReadersOK, Private, SetCache
  <2>2. tagsTree' = cache[r] /\ tree' = tree /\ cache' = cache
    BY <1>1 DEF SetCache
  <2>3. rpc'[r] = "lookup"
    BY <1>0, <1>1 DEF TypeOK, SetCache, Goto
  <2> QED
    BY <2>1, <2>2, <2>3 DEF Private, AtLeast, Holds
<1>2. CASE tagsTree' = tagsTree /\ confirmed' = confirmed
  <2>1. tagsTree \in Cache /\ AtLeast(tagsTree, confirmed)
    BY <1>0, <1>2 DEF TypeOK, CacheOK
  <2>2. confirmed \in Nat /\ confirmed <= version
    BY <1>0 DEF TypeOK, BoundsOK
  <2> QED
    BY <1>2, <2>1, <2>2, KeptExpanded DEF AtLeast, Holds
<1>3. \/ \E r \in Reader : SetCache(r)
      \/ tagsTree' = tagsTree /\ confirmed' = confirmed
      \/ tagsTree' = Nil
  BY DEF Next, ReaderStep, WriterStep, GetCache, GetTagData, Query, QueryFails,
         SetTagData, Respond, Commit, Invalidate, AddTestTagsTree, Restart,
         vars, dbVars
<1> QED
  BY <1>1, <1>2, <1>3

\* The handler of a change that is not confirmed.
Pending(v) == \E w \in Writer : wpc[w] = "invalidate" /\ wver[w] = v

\* A change stays unconfirmed only as long as its handler has to invalidate.
LEMMA PendingStep ==
  ASSUME IInv, [Next]_vars, ~DebugHandler, NEW v \in (confirmed' + 1)..version'
  PROVE  Pending(v)'
<1>0. TypeOK /\ BoundsOK /\ \A u \in (confirmed + 1)..version : Pending(u)
  BY DEF IInv, CacheOK, Pending
<1>t. TypeOK'
  BY TypeStep
<1> USE <1>0, <1>t DEF TypeOK, Pending
<1>1. ASSUME NEW w \in Writer, Commit(w) PROVE Pending(v)'
  <2>1. CASE v = version'
    BY <1>1, <2>1 DEF Commit
  <2>2. CASE v # version'
    <3>1. v \in (confirmed + 1)..version
      BY <1>1, <2>2 DEF Commit
    <3>2. PICK x \in Writer : wpc[x] = "invalidate" /\ wver[x] = v
      BY <3>1
    <3> QED
      BY <1>1, <3>2 DEF Commit
  <2> QED
    BY <2>1, <2>2
<1>2. ASSUME NEW w \in Writer, Invalidate(w) PROVE Pending(v)'
  <2>1. v \in (confirmed + 1)..version /\ v # wver[w]
    BY <1>2 DEF Invalidate, LastConfirmed
  <2>2. PICK x \in Writer : wpc[x] = "invalidate" /\ wver[x] = v
    BY <2>1
  <2> QED
    BY <1>2, <2>1, <2>2 DEF Invalidate
<1>3. ASSUME NEW r \in Reader, ReaderStep(r) PROVE Pending(v)'
  BY <1>3 DEF ReaderStep, GetCache, SetCache, GetTagData, Query, QueryFails,
              SetTagData, Respond, dbVars, writerVars
<1>4. CASE AddTestTagsTree
  BY <1>4 DEF AddTestTagsTree
<1>5. CASE Restart
  BY <1>5 DEF Restart
<1>6. CASE UNCHANGED vars
  BY <1>6 DEF vars, dbVars, writerVars
<1> QED
  BY <1>1, <1>2, <1>3, <1>4, <1>5, <1>6 DEF Next, WriterStep

\* The parts about the published struct put together.
LEMMA CacheStep == IInv /\ [Next]_vars => CacheOK'
BY PublishedStep, PendingStep DEF CacheOK, Pending

\* IInv is an invariant.
THEOREM CacheInvariance == Spec => []IInv
<1>1. IInv /\ [Next]_vars => IInv'
  BY TypeStep, BoundsStep, ReadersStep, CacheStep DEF IInv
<1> QED
  BY InitIInv, <1>1, PTL DEF Spec

-----------------------------------------------------------------------------
\* No response shows the tags as they were before a change that was confirmed
\* when the request began, with any number of concurrent readers and writers.
THEOREM Freshness == Spec => []AnswersFresh
<1>1. IInv => AnswersFresh
  BY DEF IInv, ReadersOK, AnswersFresh
<1> QED
  BY CacheInvariance, <1>1, PTL

\* When no handler is between commit and invalidation, the published cache is
\* current, provided that the handler that never invalidates is not called.
THEOREM Currency ==
  ASSUME ~DebugHandler PROVE Spec => []CacheCurrent
<1>1. IInv => CacheCurrent
  <2> SUFFICES ASSUME IInv, tagsTree # Nil, \A w \in Writer : wpc[w] = "idle",
                      NEW k \in Key
               PROVE  tree[tagsTree][k] \in {NoTree, version}
    BY DEF CacheCurrent
  <2>1. version \in Nat /\ confirmed \in Nat /\ confirmed <= version
    BY DEF IInv, TypeOK, BoundsOK
  <2>2. confirmed = version
    <3>1. \A v \in (confirmed + 1)..version : FALSE
      BY DEF IInv, CacheOK
    <3> QED
      BY <2>1, <3>1
  <2>3. tagsTree \in Cache
    BY DEF IInv, TypeOK
  <2>4. tree[tagsTree][k] \in Nat \cup {NoTree}
    BY <2>3 DEF IInv, TypeOK
  <2>5. tree[tagsTree][k] <= version
    BY <2>3 DEF IInv, BoundsOK
  <2>6. tree[tagsTree][k] = NoTree \/ tree[tagsTree][k] >= version
    BY <2>2 DEF IInv, CacheOK, AtLeast
  <2> QED
    BY <2>1, <2>4, <2>5, <2>6
<1> QED
  BY CacheInvariance, <1>1, PTL

-----------------------------------------------------------------------------
\* Every step of the handlers with the cache is a step of FreshReads or leaves
\* its variables alone.
LEMMA PromiseStep == IInv /\ IInv' /\ [Next]_vars => [Promise!Next]_(Promise!vars)
<1> SUFFICES ASSUME IInv, IInv', [Next]_vars
             PROVE  [Promise!Next]_(Promise!vars)
  OBVIOUS
<1> USE DEF IInv
<1>1. ASSUME NEW r \in Reader, NEW k \in Key, GetCache(r, k)
      PROVE  Promise!Begin(r)
  BY <1>1 DEF GetCache, Goto, dbVars, writerVars, Promise!Begin, TypeOK
<1>2. ASSUME NEW r \in Reader, SetCache(r) \/ GetTagData(r) \/ Query(r) \/ SetTagData(r)
      PROVE  UNCHANGED Promise!vars
  BY <1>2 DEF SetCache, GetTagData, Query, SetTagData, Goto, dbVars, writerVars,
              Promise!vars, TypeOK
<1>3. ASSUME NEW r \in Reader, QueryFails(r)
      PROVE  Promise!Fail(r)
  BY <1>3 DEF QueryFails, End, Goto, dbVars, writerVars, Promise!Fail, TypeOK
<1>4. ASSUME NEW r \in Reader, Respond(r)
      PROVE  Promise!Answer(r)
  <2>1. tagData[r] \in since[r]..version
    BY <1>4 DEF Respond, TypeOK, BoundsOK, ReadersOK
  <2> QED
    BY <1>4, <2>1 DEF Respond, End, Goto, dbVars, writerVars, Promise!Answer, TypeOK
<1>5. ASSUME NEW w \in Writer, Commit(w)
      PROVE  Promise!Change
  BY <1>5 DEF Commit, readerVars, Promise!Change
<1>6. ASSUME NEW w \in Writer, Invalidate(w)
      PROVE  Promise!Confirm
  <2>1. confirmed' \in confirmed..version
    BY <1>6 DEF Invalidate, LastConfirmed, TypeOK, BoundsOK
  <2> QED
    BY <1>6, <2>1 DEF Invalidate, readerVars, Promise!Confirm
<1>7. CASE AddTestTagsTree
  BY <1>7 DEF AddTestTagsTree, readerVars, Promise!Change, Promise!Next
<1>8. CASE Restart
  <2>1. confirmed' \in confirmed..version
    BY <1>8 DEF Restart, TypeOK, BoundsOK
  <2> QED
    BY <1>8, <2>1 DEF Restart, Promise!Restart, Promise!Next
<1>9. CASE UNCHANGED vars
  BY <1>9 DEF vars, dbVars, readerVars, Promise!vars
<1> QED
  BY <1>1, <1>2, <1>3, <1>4, <1>5, <1>6, <1>7, <1>8, <1>9
     DEF Next, ReaderStep, WriterStep, Promise!Next

\* The handlers with the cache implement FreshReads, the specification of
\* GET /tags that knows no cache.
THEOREM Refinement == Spec => ImplementsFreshReads
<1>1. Init => Promise!Init
  BY DEF Init, Promise!Init
<1> QED
  BY <1>1, PromiseStep, CacheInvariance, PTL
     DEF Spec, ImplementsFreshReads, Promise!Spec
=============================================================================
