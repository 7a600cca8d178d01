----------------------------- MODULE TagsCache ------------------------------
(***************************************************************************)
(* The tags tree cache of server/tags.go, for one user: userIDToTagsTree   *)
(* maps the user to a cache struct, a cache struct maps a path to a tree.  *)
(* Each handler runs on a goroutine of its own and takes a mutex for one   *)
(* map operation at a time, so between any two of its steps others may     *)
(* run.  A tree is represented by the version the user's tags had when the *)
(* first statement of the transaction that fetched it was run: under READ  *)
(* COMMITTED later statements may see later versions, never earlier ones.  *)
(***************************************************************************)
EXTENDS Integers, FiniteSets

CONSTANTS
  Reader,        \* goroutines that run userTagsGet
  Writer,        \* goroutines that run userTagsPost, userTagPut, userTagDelete
  Key,           \* values of getCacheMapKey
  Cache,         \* addresses of cacheTagsTree structs
  Nil,           \* the nil pointer
  MaxVersion,    \* bound: number of changes of the tags
  DebugHandler   \* is GET /add_test_tags_tree (tags_debug.go) called?

ASSUME NilAssumption == Nil \notin Cache
ASSUME MaxVersionAssumption == MaxVersion \in Nat
ASSUME DebugAssumption == DebugHandler \in BOOLEAN

NoTree == -1   \* no entry in tagIDToTree

VARIABLES
  version,    \* number of committed changes of the user's tags
  confirmed,  \* the last change whose handler has invalidated the cache
  tagsTree,   \* userIDToTagsTree.tagsTree[user]
  tree,       \* tagIDToTree of each cache struct
  rpc,        \* where each reader is
  key,        \* its path and withSubtags
  cache,      \* its local variable "cache"
  tagData,    \* its local variable "tagData"
  since,      \* history: the value of confirmed when its request began
  answer,     \* history: the version shown by its last response
  wpc,        \* where each writer is
  wver        \* the version its transaction committed

dbVars == <<version, confirmed>>
readerVars == <<rpc, key, cache, tagData, since, answer>>
writerVars == <<wpc, wver>>
vars == <<dbVars, tagsTree, tree, readerVars, writerVars>>

TypeOK ==
  /\ version \in Nat
  /\ confirmed \in Nat
  /\ tagsTree \in Cache \cup {Nil}
  /\ tree \in [Cache -> [Key -> Nat \cup {NoTree}]]
  /\ rpc \in [Reader -> {"idle", "create", "lookup", "query", "fill", "respond"}]
  /\ key \in [Reader -> Key]
  /\ cache \in [Reader -> Cache \cup {Nil}]
  /\ tagData \in [Reader -> Nat]
  /\ since \in [Reader -> Nat]
  /\ answer \in [Reader -> Nat]
  /\ wpc \in [Writer -> {"idle", "invalidate"}]
  /\ wver \in [Writer -> Nat]

Init ==
  /\ version = 0
  /\ confirmed = 0
  /\ tagsTree = Nil
  /\ tree = [c \in Cache |-> [k \in Key |-> NoTree]]
  /\ rpc = [r \in Reader |-> "idle"]
  /\ key \in [Reader -> Key]
  /\ cache = [r \in Reader |-> Nil]
  /\ tagData = [r \in Reader |-> 0]
  /\ since = [r \in Reader |-> 0]
  /\ answer = [r \in Reader |-> 0]
  /\ wpc = [w \in Writer |-> "idle"]
  /\ wver = [w \in Writer |-> 0]

\* c is not referred to by the map or by a goroutine: the garbage collector may
\* give its address to a new struct.
Free(c) == c # tagsTree /\ \A r \in Reader : cache[r] # c

Goto(r, pc) == rpc' = [rpc EXCEPT ![r] = pc]

\* The handler returns, its local variables are gone.
End(r) ==
  /\ Goto(r, "idle")
  /\ cache' = [cache EXCEPT ![r] = Nil]
  /\ tagData' = [tagData EXCEPT ![r] = 0]
  /\ since' = [since EXCEPT ![r] = 0]

-----------------------------------------------------------------------------
(* userTagsGet *)

\* The request arrives; GetCacheForUser.  If there is no struct, the handler
\* makes one, which nobody else knows yet.
GetCache(r, k) ==
  /\ rpc[r] = "idle"
  /\ key' = [key EXCEPT ![r] = k]
  /\ since' = [since EXCEPT ![r] = confirmed]
  /\ \/ /\ tagsTree # Nil
        /\ cache' = [cache EXCEPT ![r] = tagsTree]
        /\ Goto(r, "lookup")
        /\ UNCHANGED tree
     \/ /\ tagsTree = Nil
        /\ \E c \in Cache :
             /\ Free(c)
             /\ cache' = [cache EXCEPT ![r] = c]
             /\ tree' = [tree EXCEPT ![c] = [x \in Key |-> NoTree]]
        /\ Goto(r, "create")
  /\ UNCHANGED <<dbVars, tagsTree, tagData, answer, writerVars>>

\* SetCacheForUser, which may replace a struct that another reader has put there
\* since GetCacheForUser.
SetCache(r) ==
  /\ rpc[r] = "create"
  /\ tagsTree' = cache[r]
  /\ Goto(r, "lookup")
  /\ UNCHANGED <<dbVars, tree, key, cache, tagData, since, answer, writerVars>>

\* GetTagData
GetTagData(r) ==
  /\ rpc[r] = "lookup"
  /\ LET found == tree[cache[r]][key[r]]
     IN  IF found = NoTree
           THEN Goto(r, "query") /\ UNCHANGED tagData
           ELSE Goto(r, "respond") /\ tagData' = [tagData EXCEPT ![r] = found]
  /\ UNCHANGED <<dbVars, tagsTree, tree, key, cache, since, answer, writerVars>>

\* The first statement of the transaction that fetches the tree.
Query(r) ==
  /\ rpc[r] = "query"
  /\ tagData' = [tagData EXCEPT ![r] = version]
  /\ Goto(r, "fill")
  /\ UNCHANGED <<dbVars, tagsTree, tree, key, cache, since, answer, writerVars>>

\* The transaction fails (no such path, no connection): an error response.
QueryFails(r) ==
  /\ rpc[r] \in {"query", "fill"}
  /\ End(r)
  /\ UNCHANGED <<dbVars, tagsTree, tree, key, answer, writerVars>>

\* The transaction is over: SetTagData, in the struct the reader has held since
\* GetCacheForUser, be it still in the map or not.
SetTagData(r) ==
  /\ rpc[r] = "fill"
  /\ tree' = [tree EXCEPT ![cache[r]] = [@ EXCEPT ![key[r]] = tagData[r]]]
  /\ Goto(r, "respond")
  /\ UNCHANGED <<dbVars, tagsTree, key, cache, tagData, since, answer, writerVars>>

Respond(r) ==
  /\ rpc[r] = "respond"
  /\ answer' = [answer EXCEPT ![r] = tagData[r]]
  /\ End(r)
  /\ UNCHANGED <<dbVars, tagsTree, tree, key, writerVars>>

-----------------------------------------------------------------------------
(* userTagsPost, userTagPut, userTagDelete *)

\* (variant: the handler answers without invalidating the cache)
Commit_NoInvalidation(w) ==
  /\ wpc[w] = "idle"
  /\ version < MaxVersion
  /\ version' = version + 1
  /\ confirmed' = version'
  /\ UNCHANGED <<tagsTree, tree, readerVars, writerVars>>

\* The transaction commits.  (One that fails changes nothing.)
Commit(w) ==
  /\ wpc[w] = "idle"
  /\ version < MaxVersion
  /\ version' = version + 1
  /\ wver' = [wver EXCEPT ![w] = version']
  /\ wpc' = [wpc EXCEPT ![w] = "invalidate"]
  /\ UNCHANGED <<confirmed, tagsTree, tree, readerVars>>

\* The last change known to be confirmed, once that of w is.
LastConfirmed(w) == IF wver[w] > confirmed THEN wver[w] ELSE confirmed

\* (variant: the trees are removed from the struct, which stays in the map)
Invalidate_Entries(w) ==
  /\ wpc[w] = "invalidate"
  /\ tree' = [c \in Cache |-> IF c = tagsTree THEN [k \in Key |-> NoTree]
                                              ELSE tree[c]]
  /\ confirmed' = LastConfirmed(w)
  /\ wpc' = [wpc EXCEPT ![w] = "idle"]
  /\ wver' = [wver EXCEPT ![w] = 0]
  /\ UNCHANGED <<version, tagsTree, readerVars>>

\* (variant: the struct stays in the map)
Invalidate_Not(w) ==
  /\ wpc[w] = "invalidate"
  /\ confirmed' = LastConfirmed(w)
  /\ wpc' = [wpc EXCEPT ![w] = "idle"]
  /\ wver' = [wver EXCEPT ![w] = 0]
  /\ UNCHANGED <<version, tagsTree, tree, readerVars>>

\* DeleteCacheForUser, then the response.
Invalidate(w) ==
  /\ wpc[w] = "invalidate"
  /\ tagsTree' = Nil
  /\ confirmed' = LastConfirmed(w)
  /\ wpc' = [wpc EXCEPT ![w] = "idle"]
  /\ wver' = [wver EXCEPT ![w] = 0]
  /\ UNCHANGED <<version, tree, readerVars>>

\* addTestTagsTree creates tags and leaves the cache alone.
AddTestTagsTree ==
  /\ DebugHandler
  /\ version < MaxVersion
  /\ version' = version + 1
  /\ UNCHANGED <<confirmed, tagsTree, tree, readerVars, writerVars>>

\* The process ends, with all goroutines and the cache, and is started again
\* (a panic in a goroutine of websocket.go is not recovered).
Restart ==
  /\ tagsTree' = Nil
  /\ rpc' = [r \in Reader |-> "idle"]
  /\ cache' = [r \in Reader |-> Nil]
  /\ tagData' = [r \in Reader |-> 0]
  /\ since' = [r \in Reader |-> 0]
  /\ wpc' = [w \in Writer |-> "idle"]
  /\ wver' = [w \in Writer |-> 0]
  /\ confirmed' = version
  /\ UNCHANGED <<version, tree, key, answer>>

-----------------------------------------------------------------------------
ReaderStep(r) ==
  \/ \E k \in Key : GetCache(r, k)
  \/ SetCache(r) \/ GetTagData(r) \/ Query(r) \/ QueryFails(r)
  \/ SetTagData(r) \/ Respond(r)

WriterStep(w) == Commit(w) \/ Invalidate(w)

Next ==
  \/ \E r \in Reader : ReaderStep(r)
  \/ \E w \in Writer : WriterStep(w)
  \/ AddTestTagsTree
  \/ Restart

Spec == Init /\ [][Next]_vars

\* A handler that has committed goes on to invalidate the cache, unless the
\* process ends: no lock but the mutex of the map is in its way.
FairSpec == Spec /\ \A w \in Writer : WF_vars(Invalidate(w))

-----------------------------------------------------------------------------
\* A response never shows the tags as they were before a change that had been
\* confirmed (by one of the three handlers above) when the request began: reads
\* see confirmed writes, although the cache is filled outside the lock.
AnswersFresh ==
  \A r \in Reader : rpc[r] = "respond" => tagData[r] >= since[r]

\* While no handler is between its commit and DeleteCacheForUser ("Invalidate
\* tree cache for the user"), every tree in the published struct is current.
CacheCurrent ==
  (tagsTree # Nil /\ \A w \in Writer : wpc[w] = "idle") =>
    \A k \in Key : tree[tagsTree][k] \in {NoTree, version}

\* A stale tree does not stay in the published cache for good.
Stale(v) ==
  /\ tagsTree # Nil
  /\ version >= v
  /\ \E k \in Key : tree[tagsTree][k] \in 0..(v - 1)

StaleTreesGo == \A v \in 1..MaxVersion : Stale(v) ~> ~Stale(v)

-----------------------------------------------------------------------------
(* The invariant the proofs use. *)

\* Nothing is newer than the database.
BoundsOK ==
  /\ confirmed <= version
  /\ \A c \in Cache, k \in Key : tree[c][k] <= version
  /\ \A r \in Reader : tagData[r] <= version /\ since[r] <= confirmed
  /\ \A w \in Writer : wver[w] <= version

\* The trees a struct has or is about to get from the readers that hold it.
Holds(r, c) == cache[r] = c /\ rpc[r] # "idle"
AtLeast(c, v) ==
  /\ \A k \in Key : tree[c][k] = NoTree \/ tree[c][k] >= v
  /\ \A r \in Reader : Holds(r, c) /\ rpc[r] = "fill" => tagData[r] >= v

\* Readers have a struct from GetCacheForUser to their response, a response is
\* fresh, and a struct that is not yet published is its maker's alone.
ReadersOK ==
  \A r \in Reader :
    /\ rpc[r] = "idle" <=> cache[r] = Nil
    /\ rpc[r] # "idle" => AtLeast(cache[r], since[r])
    /\ rpc[r] = "respond" => tagData[r] >= since[r]
    /\ rpc[r] = "create" =>
         /\ tagsTree # cache[r]
         /\ \A q \in Reader : q # r => cache[q] # cache[r]
         /\ \A k \in Key : tree[cache[r]][k] = NoTree

\* What the published struct has or gets is not older than confirmed changes,
\* and the handler of an unconfirmed change is about to invalidate.
CacheOK ==
  /\ tagsTree # Nil => AtLeast(tagsTree, confirmed)
  /\ DebugHandler \/ \A v \in (confirmed + 1)..version :
       \E w \in Writer : wpc[w] = "invalidate" /\ wver[w] = v

IInv == TypeOK /\ BoundsOK /\ ReadersOK /\ CacheOK

-----------------------------------------------------------------------------
Promise == INSTANCE FreshReads
  WITH phase <- [r \in Reader |-> IF rpc[r] = "idle" THEN "idle" ELSE "open"]

\* The handlers with the cache implement FreshReads.
ImplementsFreshReads == Promise!Spec
=============================================================================
